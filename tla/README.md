# A verification project for unor4emu

unor4emu runs Arduino UNO R4 firmware (Renesas RA4M1, Cortex-M4F) in a browser:
a Rust interpreter of the Thumb instruction set and models of the chip's
peripherals, compiled to WebAssembly and driven from JavaScript. This directory
holds TLA+ modules translated from its source, TLC configurations that check
them on small instances, and theorems checked by TLAPS.

Modelled and checked are the exception engine and the contexts it saves, the
instruction interpreter's arithmetic, flags and memory accesses, the path of an
event to interrupts and DMA, the serial peripherals, the timers, the analog units,
the flash controller, the pins and the memory bus, and of the snapshot the core grew
from its STM32 peripherals. Proved are properties of the exception engine, of the
event path, of the GPT and of several other components. `PROJECT.json` lists every part of the system with
its status, and "Not modelled" below says what is left.

Source paths are abbreviated: `cpu/`, `peripherals/`, `system.rs` and `lib.rs`
are under `src/core/ra4m1-core/src/`, and `ra_*.rs` under its `peripherals/`. Of the
snapshot `S/` stands for `src/core/ra4m1-periph-wasm/src/`.

## Inventory of the system

`core/ra4m1-core` is the shipped core. `core/ra4m1-periph-wasm` is the snapshot
it grew from: it repeats most of the same files and adds STM32 peripherals and
external devices. Everything runs on one thread; concurrency is the interleaving
of three actors: the firmware, one instruction at a time; the peripheral models,
which advance when the driver or the run loop ticks them and when registers are
accessed; and the host driver, which calls into the core between batches.

| Part | State | Operations | Interacts with |
|---|---|---|---|
| Exception engine (`cpu/mod.rs`, `peripherals/nvic.rs`, `scb.rs`, `stir.rs`) | pending, enable and active bitmaps, priorities, masks, exception stack, IPSR, sleep | select, enter, tail-chain, return, raise, escalate, halt; register writes; wake, take, reset | everything that raises an interrupt; the driver |
| Processor context (`cpu/mod.rs`, `cpu/thumb.rs`, `peripherals/fpu.rs`) | SP banks, frames in memory, FPCA, LSPACT, FPCAR, saved IT and FP states | push and pop frames, lazy stacking, CONTROL and PSP writes | RTOS firmware switching tasks |
| Instruction decoder (`cpu/thumb.rs`) | registers, flags, IT state | about 200 encodings | memory bus, engine |
| Memory bus (`cpu/mem.rs`, `peripherals/mod.rs`) | RAM, flash, peripheral slots, deferred fault channels | typed accesses with lane merging, slot lookup, DMA service inside the run loop | MPU, all peripherals |
| MPU (`peripherals/mpu.rs`) | regions, control | permission lookup | every access |
| GPT (`peripherals/ra_gpt.rs`) | counters, compare and buffer registers, output latches, last tick | advance over many wraps, start, stop, clear, buffer transfer, ELC start | ICU events, PORT |
| Event routing (`peripherals/ra_icu.rs`, `system.rs`) | IELSR, DELSR, ELC links, outstanding counts | raise an event: to the NVIC, the DMAC, the DTC, other peripherals | all of them |
| DMAC and DTC (`peripherals/ra_dma.rs`, `system.rs`) | channel registers, queue of due units, activations | queue a unit, move it, complete it, chain | run loop, event routing |
| AGT, WDT, IWDT, RTC, SysTick | counters, last tick, refresh windows | advance, reload, underflow, refresh | NVIC, reset |
| I2C, SPI with SD card, CAN, USB, SCI, SSI | protocol state machines, FIFOs | register accesses, byte and frame transfers, injection from the host | event routing, driver |
| Flash controller, dataflash | command state | program, erase, mode entry | memory |
| PORT and PFS, CTSU, ADC, DAC, KINT | pin levels, samples | edges, wires, conversions | event routing |
| STM32 snapshot (`S/peripherals/`, `S/ext_devices/`) | timers, watchdogs, DMA streams, bus controllers, devices, clocks, pins, ciphers | register accesses, ticks, calls of the page | its own NVIC, the page |
| Host driver (`demo/app.js`, `lib.rs`) | none of its own | run, tick, wake, inject, take interrupts and DMA units | everything |

What is hard in each, and what makes it correct:

- **Engine.** An interrupt may arrive at any boundary, masks and priorities
  change in between, several paths enter a handler (delivery, tail-chain,
  synchronous raise, escalation), and a return can fail half-way. Correct means:
  nesting only upward, nothing masked entered, nothing pending lost, the most
  urgent first, active bits and mode equal to the stack, a core that never sits
  beside an interrupt it could take.
- **Context.** Where a frame lies, how large it is and when its FP part is
  written is decided at entry, used at return, and an RTOS changes the stack in
  between. Correct means: who resumes finds its registers, FP registers and IT
  state, and nothing live is overwritten.
- **Timers.** Time advances in chunks whose size is an accident of the driver; the
  events and the count must not depend on it. Wraps, compare matches at the
  boundary, buffers transferred at a wrap, counters written above their period.
- **Events and DMA.** A completion raises an event that activates a transfer that
  touches a register that raises an event, under flags of the form "some
  transfer is due". Correct means: every activation is served once, in order, and
  none is left behind when the loop goes idle.
- **Protocols.** State machines driven from two sides (register accesses and
  injected bytes), FIFOs at their limits, stop and repeated-start in any state.
- **Snapshot.** Its peripherals do not run: they catch up when somebody looks, and the
  page does part of their work (moves DMA data, erases flash, walks descriptors) at its
  own time. Correct means: what a program sees does not depend on who looked when, or by no
  more than the code's rounding and caps account for.
- **Memory.** A fault found by an access is raised one iteration later; slots at
  the boundary of their ranges.

`PROJECT.json` lists the concrete hazards with the line where each bites, and
for those no property covers yet, why.

## Modules

| Module | Models |
|---|---|
| `Exceptions` | the exception engine, its registers, its run loop and its drivers |
| `PriorityPreemption` | what the engine promises, without stacks, masks or frames |
| `ExceptionsProofs` | theorems about `Exceptions` |
| `ExcContext` | frames, stack banks, FP and IT state across entry, return and task switch |
| `ThumbCore` | data-processing instructions, flags and IT blocks |
| `ThumbArch` | what the architecture says of them: `ThumbCore` implements it |
| `ThumbMemory` | loads and stores |
| `ThumbDsp` | lanes, saturation, bit fields, products and quotients |
| `ThumbArith` | FP rounding, fused multiply-add, directed division and root, half precision |
| `ThumbFlow` | branches, calls, table branches, writes of PC, constants |
| `ThumbVfp` | FP registers, conversions, comparison, NaN and infinity |
| `MemoryBus` | one access through alignment, MPU, RAM or a register model |
| `EventRouting` | events, links, DMAC, DTC, the queue of units and the drain |
| `TransferService` | what the DMAC promises: `EventRouting` implements it |
| `EventRoutingProofs` | theorems about `EventRouting` |
| `GptTimer` | the GPT channels: register writes, the walk that catches up with the clock, the link signal |
| `TickTimer` | a timer that counts at every tick: `GptTimer` implements it |
| `AgtTimer`, `DownCounter` | an AGT channel, and the counter it implements |
| `RtcClock` | the RTC's time of day and alarm |
| `CoreClocks` | the watchdogs, SysTick and the cycle counter |
| `TimerProofs` | theorems about `GptTimer`, `AgtTimer`, `RtcClock` and `CoreClocks` |
| `SensorUnits` | touch sensing, converters, comparator, amplifiers |
| `I2cFabric` | RIIC channels as masters and slaves, the virtual EEPROM |
| `SpiBus` | RSPI channels, the loopback jig, the virtual SD card and its driver |
| `CanMailboxes` | CAN mailboxes, FIFOs, errors |
| `UsbDevice` | USB pipes, interrupts and the virtual host |
| `SciPort`, `SsiFifo` | a serial port, and a sound interface with its FIFOs |
| `FlashController` | the dataflash and the FSP's driver of it |
| `PortPins` | pins, PFS words, the soft wire and the matrix trace |
| `StmTimers` | a general timer, the watchdogs, the RTC of the snapshot |
| `StmCapture` | its DMA streams and the camera they serve |
| `StmI2c`, `StmFlash`, `StmCan` | an I2C bus and its devices, serial flash and QUADSPI, two bxCAN nodes |
| `StmSerial` | SPI with taps, SPI over pins, a USART, the audio ports |
| `StmPins` | pins and EXTI, clocks, flash, converters |
| `StmMedia` | display scan-out, tapped memory banks, Ethernet DMA, SD card |
| `StmCrypto` | cipher, hash, random numbers, CRC |
| `MCExceptions`, `MCCore`, `MCEventRouting`, `MCSerial`, `MCDevices`, `MCSnapshot` | instances for TLC |

`ExcContext`, `I2cFabric`, `SpiBus`, `FlashController` and `PortPins` end with their own theorems.

`MCCore`, `MCSerial`, `MCDevices` and `MCSnapshot` check components that share nothing in one
run each: the variable `part` says which component a behaviour belongs to, and
the other components' variables stay as they are. A component with theorems is the module itself
(`MCCore` extends `ExcContext`, `MCSerial` `SpiBus` and `I2cFabric`, `MCDevices` `GptTimer`, `AgtTimer`,
`FlashController` and `PortPins`), so that what the run checks of it is the very property its theorems state; the others are instances
(`RtcClock` and `CoreClocks` too, with several values of their constants, each of which TLC checks against their assumptions). Each of
the remaining properties joins the same question put to the components it concerns.

### Exceptions

One iteration of `Cpu::run` (`cpu/mod.rs:950`) takes two steps: at `at = "fetch"`
a deferred fault is raised (`RaiseDeferred`), the fetch fails (`FetchFault`) or
one instruction executes (an action per instruction that touches the engine,
`Nop` for all that do not); at `at = "deliver"` the inline delivery closes the
iteration (`Deliver`). The peripherals (`Raise`) and the host driver (`Wake`,
`TakeNext`, `SetDeliverIrqs`, `ResetCpu`) act between two calls of `run`,
hence at `at = "fetch"`; a batch may be one instruction long, so every
interleaving of them with the iterations is included.

State corresponds one to one: `pending`, `pendingReg`, `enabled`, `inInterrupt`
are the fields of `Nvic`; `active` joins IABR and the SHCSR active bits; `prio`
joins the IPR and SHPR bytes; `flags` are the SCR, CCR and SHCSR bits that
steer the engine; `excStack` is `Cpu.exc_stack` with the exception and the frame
type of each entry. `lr` and `frames` are r14 and the stacked r14s, as far as they
are EXC_RETURN values. The functions that compute several fields of the engine at
once (`TakeException`, `EnterChained`, `RaiseSync`, `Abandoned`, `Unstacked`)
work on a record of those fields, as the Rust methods work on `&mut self`.

Abstracted: the other contents of a frame and where it lies (`ExcContext`), the
fault address registers, and the Thumb encodings. Exceptions are numbered as in
`nvic.rs`, IRQ 0 upward and the system exceptions below 0. Firmware does not
reprogram the priority of an exception that is active (guard of `WritePriority`
and `WriteAircr`), which CMSIS code does not do either and under which
`StrictNesting` would be false by design.

Left out: the halts when a stacking, unstacking or lazy-stacking access is denied
by the MPU, DebugMon (never raised) and lines above 96 (`ExtIRQAssumption`;
`nvic.rs:264` mishandles some of them, see the hazards).

### ExcContext

A register file is abstracted to the context whose values it holds (`ctx`,
`sfile`), memory to words that say what was stored there and by whom. Two words
stand for the eight of a basic frame and two for S0-S15 with FPSCR; the padding
word keeps its size, so alignment and displacement behave as in the code. Threads
are 0 (the main thread) and negative numbers (RTOS tasks); handlers are named by
their depth. `TakeException`, `TailChain` and `ExceptionReturn` follow
`cpu/mod.rs:403-558`, `855-903` and `566-771`; `FpuInsn` contains the lazy
stacking that `cpu/thumb.rs` performs before an FP instruction; `SaveTask`,
`LoadTask` and `StartFirst` are the PendSV and SVC handlers of an RTOS port as
the comments of `cpu/regs.rs` and `cpu/mod.rs` describe them: `MRS PSP`, store
R4-R11 and R14 (and S16-S31 for an extended frame, abstracted) below it, then
the reverse. When exceptions are entered is left to `Exceptions`: here one is
entered whenever the depth allows. The variables named `history` do not exist in
the code; they record what the properties compare with.

### The Thumb modules

`cpu/thumb.rs` is one function per instruction width with a chain of tests of bit
patterns. What an encoding decodes to is left out; what the arm does is modelled,
over words of a few bits. Where the code says 31, 32, 0xFFFF or 8, the modules say
the highest bit, the width, a half or a byte of the word.

`ThumbCore` executes a program that may be any sequence of the instructions of
`Instr`, so that flags and IT state flow from one to the next. `ThumbArch` states the
same instructions as the architecture does: sums of numbers where the code has
bit tests, ITSTATE as a condition and a mask that moves up by one at each
instruction where the code keeps a condition, a mask, a length and an index.
`ThumbCore` states that the interpreter implements `ThumbArch`; its few departures
(below) are part of `ThumbArch` as alternatives the module names.

`ThumbMemory` executes one instruction on every register file of `Files`: an
address is the one the mode gives, memory is bytes, RAM and flash are sets of
addresses and anything else is refused. `MovesExact` compares with a statement
that says for each register and cell what it holds afterwards; if an address is
refused it only says what may have changed. `Open` names the instructions that are
left open because the code departs from the architecture.

`ThumbDsp` and `ThumbArith` compute one result per step from operands chosen from
`First`, `Second` and `Third`. `ThumbArith` follows the code's normalisation,
alignment and packing on integers and compares with the exact value, rounded
by comparing distances; `ThumbDsp` compares lanes and bit fields with sums over
their parts. NaN, flush-to-zero and default-NaN are left to `ThumbVfp`.

`ThumbFlow` and `ThumbVfp` execute one instruction on each state of `Files` and
`States`. An instruction carries the fields of its encoding, which alone the action
reads, and what its author meant (the label, the constant), which alone `FlowExact` and
`FpExact` read: an offset put together from the wrong fields lands elsewhere.

### EventRouting and TransferService

`RaiseEvent` is `icu_raise_event` (`system.rs:640`) preceded by `dmac_notify` where
a GPT channel raises it. A drain, `service_sync_dma_inner` (`cpu/mem.rs:289`), is one
call of the code and several steps here: at `at = "dtc"` it fires activations, at
`at = "units"` it moves staged units, one per step, and each may raise an event.
Firmware, peripherals and components act at `at = "firmware"`.

Abstracted: a unit is its ordinal in the channel's transfer and the slice of 64
instructions in which it is due, since `take_due_memcopy_dma_transfer` orders by
that; data are not moved. A transfer to a register raises at most one event.
The DTC's descriptor keeps source, mode, count and repeat; a destination that
increments, and a descriptor rewritten with the very settings it has, behave
as the source does and are left out.

`TransferService` is one action for each promise: a request is accepted by the
channels that are armed and have units left, a unit moves once and in order, a
channel ends when nothing is owed. The refinement maps its queue to the units
staged for a channel.

### GptTimer and TickTimer

A channel of `ra_gpt.rs` does not count. It keeps `last_tick` and, when
the driver ticks it or firmware touches a register, walks from there to the
present over the compare matches and period ends in between, raising each event
with its due time. `timer` holds the fields of `RaGpt`, `lag` is the instruction
count less `last_tick`. `Step` is one turn of the loop of `advance`, `Walked` the
whole of it; every register write walks first (`Write`), `Tick` stands for `tick`
and `read`, and `ElcSignal` for the call of `elc_signal` on all channels. `ahead` is
no state of the code: it is `Walked(timer, lag)`, kept in a variable so that TLC
computes each walk once. `cycle` is a history variable for `DutyHonoured`.

`TickTimer` has one action for the passage of time, `Tick`, which counts every running
channel by one and does what the new count calls for, and says of the rest only what
it may touch. `IsTicking` maps the channel to what a reader would find if it looked
now, and the events to those its walk would raise: `Pass` implements `Tick`, and reading
and ticking implement sending what is owed.

Abstracted: the prescaler (ignored by the code), event numbers, GTINTAD and the
registers that only retain what is written, output functions other than 0, GTSTR and
GTSTP with the bits of other channels; GTSSR and GTCSR select the link together. Assumed of firmware, and named in the guards:
the period is never set below the count, GTCNT is written and buffers are chosen on
a stopped channel (where the code would let `pr - cur + 1` underflow or reorder
events), and, unless `Ops` contains `resume`, `coarse` or `anytime`, no channel with a match at 0 is
started within a cycle, a period end that changes a compare value is ticked before more
time passes, and a link signal arrives while no channel runs. These three are where the code
leaves the abstract timer; see "Where comments and code disagree". `Regular` states the first: a channel
started within a cycle has no match due at 0, which it would fire twice. `Counted` and `Taken` are the two
halves of a turn, `Turns` its repetition (a walk of `n` instructions takes at most `n`), `Settled` the write of GTCNT at its end.

`AgtTimer` and `DownCounter` are related in the same way: the AGT keeps the
instructions short of a count of 16, and its walk implements a counter that
counts down at every one, with one underflow request at each passage of 0.
`RtcClock` compares BCD counters with the seconds that have passed.

### Serial peripherals

Each module takes one peripheral with what acts on it: firmware's accesses to its
registers, the tick, and the calls of the page (`lib.rs`). Where the register
interface only makes sense to a driver that follows it, the driver is part of the
module, written from the FSP's use of the flags as the source's comments report it,
and a constant named `Rude`, `SpiRude`, `CanRude` or `UsbRude` holds what firmware or the page
does against it. The listed run leaves them empty or holds what the code copes
with; "Where comments and code disagree" says what becomes of the others.

- `I2cFabric`: `Tick` ships one byte of each master, to a slave of the fabric, the
  EEPROM or nobody. `owner`, `said`, `heard` and `expected` record who acknowledged, what
  was sent and taken, and where the EEPROM pointer should be. `sar` is the set of what the
  three address registers hold: one that is not used holds 0, so a slave with a register to
  spare also answers address 0 (`ra_i2c.rs:120-121`).
- `SpiBus`: a store to SPDR is answered within the call. `card` is `SpiSd`; a command
  frame is three bytes instead of six, a block one or two instead of 512. The driver
  `host` sends a byte (`Send`) and takes the answer (`Take`).
- `CanMailboxes`: a frame is its identifier; `Tick` completes requests and empties the
  transmit FIFO.
- `UsbDevice`: bytes per pipe and direction, packets, BRDY and BEMP with their enables,
  and the handler of the driver in two steps, between which the host may call.
- `SciPort`, `SsiFifo`: one channel each.

### Clocks and sensors

`CoreClocks`: a watchdog counts ticks of the driver, SysTick and the cycle counter read
the instruction count when somebody looks; `tickLag` and `dwtLag` are the instructions
since they last did. `SensorUnits`: a touch measurement ends with a later tick, a
conversion within the store that starts it; `order` is the measurement firmware waits
for. `ClockRude` and `SensorRude` are what a careless driver does.

### Flash, pins and bus

`FlashController` has the FSP's `R_FLASH_LP` sequence as its driver: P/E mode, then
per byte or block address, command, FRDY, OPST, and out again. `PortPins` keeps the
five copies of a pin's level the code keeps. `MemoryBus` has one RAM word on each
side of a boundary of MPU regions, the four bytes of a register that is told which
bytes are stored, and of one that is not.

### The STM32 snapshot

The modules named `Stm…` follow the peripherals only `core/ra4m1-periph-wasm` has. Four
conventions are common to them.

- A peripheral that reads the instruction count when somebody looks has a `lag`, the
  time since it last did; `Pass` or `Elapse` is an instruction.
- History variables say what the outside world has seen: `ideal` (a timer looked at
  with every instruction, a flash that obeys its data sheet), `age`, `owed`, `seen`,
  `mirror`, `intended`, `edges`, `promised`. The properties compare the two.
- Each module joins its invariants in one (`TimersAgree`, `CaptureAgrees`, `I2cAgrees`,
  `FlashesAgree`, `CanAgrees`, `SerialAgrees`, `BoardAgrees`, `MediaAgree`,
  `CryptoAgrees`).
- A constant `…Rude` holds what a careless program or page does. The run leaves it empty,
  and the guards that read it keep the departures listed below out of it. Each guard is
  the precaution a program can take, so it may also keep out runs that would go well.

The page's part is an action of its own: `Serve` and `DrainCopy` of `StmCapture` move a
transfer's data, `PageTakes` and `EraseApplied` of `StmPins` erase, `Walk` and `Finish`
of `StmMedia` serve a descriptor list, and between any two of them the program runs.
Arithmetic inside an AES or hash block is left out: in `StmCrypto` a block is the set of
terms it is the exclusive or of, and encryption, multiplication and digest are free
functions, so that two results are equal only if they were made in the same way.

## Runs

Every action, and every disjunct of the next-state relations, fires in the runs
that pass. Each property of these has a mutant in `PROJECT.json`: a mapped
definition changed as a plausible bug would change it, for which TLC finds the
property violated.

| Run | Asks | Bounds |
|---|---|---|
| `exc_nesting` | Do preemption, ties, tail-chains and FP frames keep nesting strict (`StrictNesting`), the links right and free of a spurious INVPC (`ReturnLinkage`), the order by urgency (`UrgentFirst`), and does the engine implement `PriorityPreemption` (`IsPreemptive`)? | two lines and PendSV, priorities that differ only in the subpriority under one PRIGROUP and in the group under another |
| `exc_masking` | Is nothing masked entered by any path (`MaskHonoured`), nothing pending lost (`NoLostInterrupt`), and do the two pending bitmaps agree (`PendingAgree`) under every writer of them, the polling driver and a reset included? | one line, BASEPRI 0 and 4 against priorities 0, 2 and 4 |
| `exc_returns` | If firmware branches to every EXC_RETURN value from anywhere, while accesses and fetches fail, do active bits, mode and privilege follow the stack (`ActiveAgree`, `ModeAgree`), and does every handler keep a frame (`FramesCover`)? | one line, at most 2 frames beyond which firmware does not forge entries |
| `exc_sleep` | Under WFI, WFE, SEV, SEVONPEND and SLEEPONEXIT, is an interrupt that could be taken ever left for good (`DeliveryNotDelayed`)? | one line, a driver that wakes |
| `core_parts` | Do IT state, FP and integer registers come back through nesting, tail-chaining and task switches (`StateOwned`, `ContextRestored`), over words that stay intact (`StackIntact`), and with tasks (`ThreadsKept`)? Do instructions do to registers, flags and memory what the architecture says, and is arithmetic exact (`IsThumb`)? | contexts: two handler levels, eager FP frames without padding; two tasks, one level, lazy frames with padding. Words of 3 bits for data processing, four 1-bit bytes for accesses, four 2-bit bytes for DSP, floats of 2+3 and 4+4 bits, 8-bit words for branches, 2+4-bit floats for FP registers |
| `dma_service` | Is each accepted unit moved once and in order (`IsService`), with counts and flags that tell the truth (`OutstandingAgree`, `GateOpen`), within the DTC's area (`AreaHonoured`), is all served (`AllServed`) and each end reported (`EndReported`)? | `lines`: one channel of 2 units and one DTC line of length 2, events that cross; `channels`: beside channel 0 a second one from which a component takes units, two slices, without DMINT and DMTMD |
| `serial_parts` | Do bus partners stay in step (`BusInStep`), does the card answer as its driver expects (`CardFaithful`, `TransactionsEnd`), are CAN requests and losses told (`FramesAccounted`), do USB bytes arrive and resume restore (`BytesArrive`), is what was received kept (`InputKept`)? | two I2C channels with two data bytes, a card of two blocks of one byte, FIFOs of depth 2, two pipes with two bytes each |
| `device_parts` | Do the GPT and the AGT count as time passes (`IsTicking`, `IsCounting`), does an output left alone have its duty cycle (`DutyHonoured`), are the RTC, the watchdogs, SysTick and the cycle counter right (`ClockKept`), does a measurement bring what was asked (`Measured`), does flash land (`BytesLand`), do the copies of a pin agree (`PinsAgree`), does a store change what it may (`StoresKept`)? | GPT: GTPR 1 and 2, compares at 0, 1 and 2, chunks up to 3; AGT: 2 instructions a count, 5 between looks; RTC: each carry; two watchdogs; 4 flash cells; 2 pins; 2 MPU regions; two channels of each sensor |
| `snapshot_parts` | Are the snapshot's timers, pins, clocks, display and bookkeeping where time and levels put them (`SnapshotKept`), does what is sent arrive, once and in order (`SnapshotDelivers`), and does a transfer that ends leave what it was to bring, an arbitration the most urgent frame (`SnapshotEnds`)? | 35 parts, see below |

Why the bounds are enough. Preemption and tail-chaining relate a handler with the
one below, and a choice with one competitor: two lines and PendSV give three
levels of nesting and every tie. `MaxFrames` guards forged returns only: honest firmware in `exc_nesting`,
`exc_masking` and `exc_sleep` nests as deep as it can (bounded by the number
of priority groups), and only forged returns leave frames behind. In `ExcContext` a
context is disturbed by the handler that interrupts it and by the one that
interrupts that; `Region` is large enough for the deepest nesting
(`ContextAssumption`), so no stack overflows into another. A word of the Thumb
modules has every case the code tells apart: sign, carry, overflow, amounts below,
at and above the width, a byte and a half of either sign; a float has subnormals,
ties, overflow and shifts past the guard bits. In the `gpt` part a cycle takes 2 or 3 counts and a chunk 3, so a
walk passes up to two period ends and meets every order of compare A, compare B,
period end and end of chunk, ties included. Channels meet only in the link
signal, which changes nothing that belongs to another channel. A DMAC channel meets another
in the order of the queue, in which two streams with two slices give every
comparison of the key. A FIFO of depth 2 is empty, half full and full. The counters
capped by a bound in a guard are `MaxLag`, `MaxWait`, `MaxSet`, `MaxSlice`, `MaxPending`, `MaxUnits`,
`MaxBytes`, `MaxBlocks`, `MaxQueue`, `MaxQueued`, `MaxFrames`, `MaxSent`, `MaxShift`, `MaxAge`, `MaxCycles`,
`MaxPush` and `MaxDepth`; `Wrap`, `Modulus` and `Room` are moduli.

`snapshot_parts` has 35 parts. Each is chosen to meet the cases its properties tell apart,
not every combination of registers:
a timer of 3 counts looked at up to 2 instructions late (`MaxLag`), and one with prescaler 2
up to 6, which is more than the 2 counts (`Cap`) one look catches up; watchdogs and display
up to 5, the RTC up to 7, with seconds of 2 instructions and a `Cap` of 2 of them; a
converter that takes 2 instructions; a camera of 3 pixels with a FIFO of one, two streams
that copy, and two of different controllers with one number; I2C
devices of 2 cells with one and two address bytes and a tap with a queue of 2; flashes of
4 and 5 cells with pages and sectors of 2, QUADSPI transfers of 3 and 6 bytes through a
FIFO of 2 words; two CAN nodes with 3 frames and filters, or with every order of 2 frames
that contend; two SPI taps, bytes of 2 bits; line 5 of two ports, and
lines 5 and 6, which share an interrupt; messages of 2 cipher blocks, 3 in the counter
modes (the counter wraps); a CRC of 8 bits with three polynomials. The largest parts are the divided timer (183,336 states) and the camera (173,344).

Fairness. `exc_sleep` (`FairSpec`): weak fairness of `Nop`, `Deliver`,
`RaiseDeferred` and `Wake`. The first three say that the driver keeps calling
`run` and `run` keeps iterating (`demo/app.js:43`, `cpu/mod.rs:950`); no fairness
is assumed of any other instruction, of peripherals or of firmware returning
from a handler. `Wake` is what `cpu/mod.rs:113` requires of the driver.
`dma_service` (`Fair`): weak fairness of `RunDrain` and `DrainStep`, because `run`
drains every 16 instructions while the flag is set (`cpu/mod.rs:1029`) and a drain is a
loop inside one call; strong fairness of `DmacTick`, because the driver ticks the
peripherals between batches however often a channel is disarmed and armed
in between. `serial_parts`: weak fairness of the driver's polling of the card (`Send`, `Take`),
which is a loop of firmware; the page may abandon nothing.

### Where comments and code disagree

Three runs are expected to fail. Each checks one statement a comment of the
repository makes, and TLC shows the run of the code that contradicts it.

| Run | Statement | What happens |
|---|---|---|
| `exc_basepri_max` | "BASEPRI_MAX raises the mask only" (`cpu/thumb.rs:1906`) | the larger byte is accepted, which unmasks |
| `ctx_lazy` | the lazy frame restores FPSCR only (`cpu/mod.rs:687`) | LSPACT of the frame below is restored before it is tested, so S0-S15 are loaded from words nobody wrote |
| `bus_lanes` | "the bus layer merged byte/halfword accesses already" (`nvic.rs:238`) | the bytes above the addressed ones become 0 (`peripherals/mod.rs:361`): a byte store to one priority clears the following ones of its word |

TLC refutes the following as well, in the named module with the constants of the
listed run's part and the change given.

| Module, constants | Property | What happens |
|---|---|---|
| `Exceptions`, a driver without `Wake` | `DeliveryNotDelayed` | the demo's loop never calls `wake`: one WFI stops the core (`cpu/mod.rs:113`: JS "wakes via `wake()` when an interrupt is pending") |
| `Exceptions` | `LateArrivalWins` | an exception arriving between two calls of `run`, after an entry, waits for one instruction of the handler (`cpu/mod.rs:314` says selection precedes it) |
| `Exceptions` | `DeferredFaultFirst` | an interrupt is entered before the older deferred fault (`cpu/mod.rs:953` says the reverse) |
| `Exceptions` | `EntryWakes` | a return with SLEEPONEXIT and a pending interrupt sleeps inside the handler it enters (`cpu/mod.rs:762`) |
| `Exceptions` | `InvpcInUfsr` | INVPC is latched in CFSR bit 10, not 18 (`cpu/mod.rs:787`) |
| `ExcContext`, nesting in PendSV | `StackIntact` | an exception nested in PendSV overwrites the context PendSV has stored below PSP, because handlers run on the interrupted stack (`cpu/mod.rs:404`) |
| `ExcContext`, a chain on the first start | `ContextRestored` | a tail-chain on the SVC that starts the first task uses the stack recorded at entry, not the one of the EXC_RETURN (`cpu/mod.rs:837`) |
| `ExcContext`, eager and padded | `SFileOwned` | with an alignment word the return reads S0-S15 one word higher (`cpu/mod.rs:410`) |
| `ExcContext`, tasks | `HandlerOnMsp` | a handler that interrupts a task runs on PSP (`cpu/mod.rs:595` says MSP) |
| `ExcContext`, tasks and IT | `ItOwned` | the IT block of the task switched out continues in the one switched in |
| `ExcContext`, tasks and FP | `NoInvpc` | a switch between tasks with different frame types raises INVPC |
| `GptTimer`, `"anytime"` | `IsTicking` | a link signal sets `last_tick` of every channel without advancing it (`cpu/mod.rs:943`: chunks "neither gain nor lose ticks") |
| `GptTimer`, `"coarse"` | `IsTicking` | compare values loaded from the buffers at a period end are not seen by the rest of the walk (`ra_gpt.rs:145`) |
| `GptTimer`, `"resume"` | `IsTicking` | a channel restarted within a cycle keeps `started_fresh` and fires its compares at 0 twice (`ra_gpt.rs:152`) |
| `EventRouting`, `Taken = {0}` | `EndReported` | a component that takes a unit leaves the count up: the channel never ends (`lib.rs:391-396`) |
| `EventRouting`, `UnitEvents = {5}` | `GateOpen` | a DTC activation raised by the last unit of a drain waits with the flag down until the next kick (`system.rs:411-413`) |
| `EventRouting`, block mode with an area | `AreaHonoured` | a repeat area rewritten with equal settings keeps its old base |
| `EventRouting`, event 0 linked | `NoneNeverFires` | event 0, "no event", starts a DMAC unit (`system.rs:601`) |
| `I2cFabric`, `"nacked"` | `AllHeard` | a read nobody acknowledged is fed from the EEPROM (`ra_i2c.rs:417-429`) |
| `I2cFabric`, `"exchange"` | `PointerHonoured` | a component's exchange moves the pointer of a transaction under way (`lib.rs:344`) |
| `I2cFabric`, `"restart"` | `RestartSeesNoStop` | a restart before TEND raises STOP (`ra_i2c.rs:209-210`) |
| `I2cFabric`, `"slow"` | `NothingOverwritten` | a byte that reaches a slave whose handler has not run replaces the one before it, and no flag tells (`ra_i2c.rs:141-145`) |
| `I2cFabric`, `"reset"` | `FabricAgree` | a reset of the master leaves its slave selected |
| `SpiBus` | `BusyBeforeIdle` | the byte after the data response is not busy (`ra_spi.rs:335`) |
| `SpiBus` | `PeekAgrees` | the byte a component peeks is not the one the exchange returns (`lib.rs:325-331`) |
| `SpiBus`, `"abandon"` | `EndsWell` | a transaction abandoned within a block write leaves the card waiting for data |
| `CanMailboxes`, CanRude | `RequestsAnswered`, `HeadTakenAsRead` | a second request replaces the pending one; the page takes the head the driver has half read |
| `UsbDevice`, `"twice"` | `ResumeRestores` | a second suspend overwrites the saved state (`ra_usb.rs:44`) |
| `UsbDevice`, `"drain"` | `RxNoticed` | a handler that drains before it clears loses a packet in between |
| `SciPort` | `RdrfMeansReceived` | a store to TDR sets RDRF |
| `SciPort` | `OverrunTold` | a UART byte replaces an unread one without ORER |
| `SsiFifo` | `EmptyTold`, `ArrivalTold`, `SentWhileEnabled` | an edge between two ticks is not seen; a component drains words with TEN off (`lib.rs:314`, `ra_ssi.rs:59`) |
| `FlashController`, `"continue"` | `WritesLand` | a driver that sets another address without leaving P/E mode programs behind the last one |
| `PortPins` | `WordIsLive`, `LevelKept` | a PCNTR write leaves the PFS word behind; releasing a pin from its timer drops its level |
| `MemoryBus` | `RefusedDropped` | an access refused in part stores the rest |
| `RtcClock` | `AlarmIsAnEdge` | the alarm is raised again at each catch-up within the matching minute or hour |
| `CoreClocks`, `"ungated"`, `"restart"` | `ClocksKept` | a store to CYCCNT while it counts rebases it without the gate; SysTick restarted within a period fires at once |
| `SensorUnits`, `"retarget"`, `"powerlate"`, `"reinit"` | `SensorsAgree`, `EndsMeasured` | a channel changed during a measurement is the one measured; a start without power never ends; INIT with STRT does not cancel |
| `SensorUnits` | `OutputsFollow`, `DadrRetained` | an amplifier's output (`ra_opamp.rs:5`) and the second channel's DADR (`ra_analog.rs:7`) read 0 |
| `ThumbArith` | `FmaExact` | the fused multiply-add ("exact via u128", `thumb.rs:330`) takes -0 for a number |
| `ThumbFlow` | `FarExact` | a conditional `B.W` takes J1 above J2, not J2 above J1: a branch so far that they differ lands elsewhere |
| `ThumbVfp` | `FlagsHaveCause` | an operation with an infinity raises flags of rounding (`thumb.rs:179-181`) |

And of the snapshot, each with the token added to the module's `…Rude` constant or the
property checked in place of the listed one:

| Module | Token or property | What happens |
|---|---|---|
| `StmTimers` | `"arrbelow"` | a count above a period set below it wraps differently by when it is looked at |
| | `"stalecapture"` | a capture latches the count of the last look |
| | `"stalewindow"`, `"prelive"` | a refresh is judged by the count of the last look; what elapsed is counted with the new prescaler, of the watchdogs and of the timer |
| | `"settime"` | seconds nobody has looked at are added to the time that is set |
| | `"rmvf"` | the causes cleared before the reset is taken are lost |
| | `"inside"`, `"two"` | an alarm set within its own second is told at once, and the flag of one alarm hides the other |
| | `NothingDropped` | a look drops the rest of its division by the prescaler or the second, and counts, seconds and alarms beyond 100 (`tim.rs:82-88`, `rtc.rs:129`) |
| | `CountCurrent`, `MinutesCarry` | a read of CNT alone does not catch up; BCD 59 may step to 60 |
| `StmCapture` | `"unread"`, `"abort"` | a completion left by an earlier transfer ends the next; a stream enabled twice has two transfers |
| | `"shared"` | a stream and a read of the flags take the end of the stream with the same number of the other controller (`system.rs:1278`) |
| | `"capturefirst"`, `"poll"`, `"gap"` | pixels go to the FIFO and to the DMA, or a transfer served between frames brings zeros |
| | `IrqMeansDone`, `FrameMeansOver` | the interrupt of a stream is pending before its transfer; the flag of a frame comes early |
| `StmI2c` | `"current"`, `"pageset"`, `"tapread"` | a byte fetched ahead is lost, or older than what the page set, or 0 |
| | `PointerKept`, `StopFrees` | the pointer is one ahead after a read; a STOP leaves BUSY |
| `StmFlash` | `"cross"`, `"quad1"`, `"opdummy"`, `"devid"` | a page program runs on into the next page; a quad program of one byte, a dummy byte that is an opcode and the device id are taken for other commands |
| | `"unfinished"`, `"tail"`, `WriteProceeds` | a FIFO left by a transfer is part of the next; an odd last byte takes its neighbour; the threshold flag of a write waits for a full FIFO |
| `StmCan` | `"queue"` | releasing a frame moves none: the head stays (`can.rs:172-173` says the oldest goes) |
| | `EmptyAsDocumented`, `InterruptMeansSent` | TME of a mailbox is bit 31, 30 or 29 once it has sent, and 26, 27 or 28 after reset, where it fires the transmit interrupt (`can.rs:33`, `can.rs:92-97`) |
| | `"again"`, `"tidy"`, `"listed"`, `"mixed"`, `"loopback"` | a mailbox requested again is sent twice; ones written to TSR clear TME as well as RQCP and TXOK; a list filter compares bits of another field; extended and standard frames contend by number; LBKM is masked away |
| `StmSerial` | `"stale"`, `"both"` | a selection with the clock high shifts a bit; two ports share one cursor |
| | `LevelTold`, `FlagBehindIrq`, `PortsProceed` | a tap tells the level of D/C at the next byte; I2S fires for a flag it clears; RXNE and FREQ are never set for a program that waits |
| `StmPins` | `"turnaround"`, `"pulse"`, `"first"` | an output turned input is not looked at; two edges between ticks are none, nor is one before the first tick |
| | `"reroute"`, `"retrigger"`, `"unmask"`, `"oneeach"` | a line is compared with the level of another port; a pending line unmasked, or left by a handler that cleared another, has no interrupt |
| | `"unasked"`, `"keep"` | CR2 read before any start, or after the result was taken, gives another result; SWSTART written while it is set takes no new time |
| | `"rmw"`, `"unready"`, `"write"`, `"aligned"` | ready flags are written back; SWS follows SW to a clock that is off; BSY can be cleared; an aligned write to the DAC is ignored |
| `StmMedia` | `"dark"`, `"await"`, `"reset"`, `"anyorder"` | time while the display is off counts; a demand made while the page walks is cleared; a reset block is told of lists before it; the card skips states |
| | `CommandsTold`, `ReadsSucceed` | a command without a response has no flag; a block read sets its error flags |
| `StmCrypto` | `"second"`, `"header"`, `"again"` | the IV is used for every block; header blocks are processed as data; H is made of the last H |
| | `BlocksGo`, `RandomProceeds` | a block waits in the FIFO for more; DRDY waits for a tick |

Departures of the instructions, all left open by the statements they would break:

- `MOVS Rd, Rm` (LSL #0) sets no flags (`thumb.rs:1007`), and 8-bit `MOVS` clears V.
- The 32-bit logical instructions, their immediates and `MVNS` drop the shifter's carry.
- The fused multiply-add takes -0 for a number (also in -0 * inf), takes no borrow from
  sticky bits of a subtraction, and returns -0 for +0 + +0 when rounding down.
- `fpu_pack` returns 0 where a directed mode calls for the smallest number (`thumb.rs:470`),
  an exact subnormal sets UFC and IXC, an overflow clamped to the largest number no OFC.
- `f32_to_f16_bits` ignores the mode on overflow and below the smallest half.
- `SMLAxy` and `SMLAWx` never set Q; `SMLAD` sets it for a wrap the sum takes back; parallel
  saturating lanes set it; `SMMLS` is one unit off without rounding; `UXTAB16` and
  `SXTAB16` add whole halves, and Rn = 15 adds the PC (not modelled).
- `STREX` always succeeds. `LDR.W PC` from a positive 12-bit offset is taken for a
  preload. A refused load of PC branches to 0, which halts the core before
  its fault is raised. Literals of a byte or a half are refused with their word.
- PC as an operand of a high-register operation or of `BX` is cut to a word boundary. A write
  of an even word to PC stops the core, where the architecture ignores the lowest bit. EXC_RETURN
  is told by the bits below the highest four. VLDR and VSTR with a negative offset are refused.

`StateOwned`, `ContextRestored`, `StackIntact` and `ThreadsKept` therefore hold in the
listed run only within its bounds: without a task switch inside an IT block,
without lazy stacking where handlers nest, without padding of eager frames, without an exception that tail-chains on the
first start, without nesting in PendSV; `IsTicking` likewise, without the three operations named
under `GptTimer`. Each of these bounds keeps a
disagreement above out of the run.

Two comments are stale and have no run: `peripherals/fpu.rs:4` says lazy stacking is not
implemented, and `cpu/mod.rs` implements it; `cpu/mem.rs:306` says units execute in the order
of their due time, which holds within a slice only for a stream.

## Proofs

A theorem is about every value of the constants its hypotheses allow: sets of any size,
any priorities, any firmware the constants let loose. Where a hypothesis excludes an
operation, the reason is a behaviour of the code, given with it; the named assumptions
of the constants are evaluated by TLC in the runs.

### The exception engine

`ExceptionsProofs`, from `ExtIRQAssumption` and `WritesAssumption` alone:

- `TypeCorrect`: `Spec => []TypeOK`. `TypeOK` is not inductive: a return reads the
  top of `frames`, so it needs `FramesCover` (a handler on the stack has a frame).
  `TypeInv == TypeOK /\ FramesCover` is. The engine's helper operators get one lemma
  each (what `TakeException`, `RaiseSync`, `Abandoned`, `Popped` return for a typed
  record), and the step has one case per group of actions.
- `PendingAgreement`: `Spec => []PendingAgree`. Inductive alone, given that entered
  exceptions are drawn from `Exc`.
- `NestingIsStrict`: `Spec => []StrictNesting`. Inductive relative to `TypeInv`: every
  entry comes from `Deliverable` or from a raise that is not blocked, whose group is
  below the execution priority, which is the group of the top of the stack or
  lower; returns only shorten the stack, and a tail-chain selects against the
  stack without its top.

From `FramesSuffice` on, `ExceptionsProofs` sorts the steps by what they do to the stack (lemma `Steps`: leave it alone,
deliver, raise, return, write CONTROL, take for the driver, reset) and proves of these, not of each action:

- `FramesSuffice`, `MasksAreHonoured`, `NoInterruptLost`, `MostUrgentFirst`: without any
  hypothesis. The last needs `PendingAsync`, that no synchronous exception is ever
  among the pending, or a tail-chain could pass over it.
- `ModeFollowsStack`: without a reset of the core (`NoReset`), because `Cpu::reset`
  empties the stack and leaves `in_interrupt` and the active bits as they are.
- `ActiveBitsHonest`: besides, without the polling driver (`NoPolling`), whose
  `take_next` marks an interrupt active that the core may then not enter.
- `LinksLeadBack`: for handlers that return through the link they were given
  (`Unforged`) and leave NONBASETHRDENA alone (`NoThreadEntry`): a return to thread
  mode from a nest raises INVPC and leaves its frame behind. `LinkInv` adds what it takes for a
  return to be accepted; the lemmas `Linked…` say that a nest stays linked when a level comes or goes.
- `EnginePreempts`: `Spec => IsPreemptive`, the refinement of `PriorityPreemption`, under all of these
  but `NoPolling`. `PreemptionInv` adds to `LinkInv` that IPSR is the top of the stack. Each
  action maps to a request, an activation, an end, or nothing.

### The event path

`EventRoutingProofs`, for any channels, lines, links, descriptors and bounds, from
`RoutingAssumption`:

- `CountersAgree`: `Spec => []OutstandingAgree`, without the
  operation that takes a unit (`Taken = {}`). `QueueInv` adds the types of the queue and the registers; a unit is
  counted where it is staged and uncounted where it has moved, and `TakePending` is the one
  operation that removes a unit without the other.
- `NothingLeftBehind`: `Spec => []GateOpen`, where no register a DMAC unit writes raises an
  event of a DTC line (`UnitsActivateNothing`). `GateInv` adds that activations have been
  fired when units are moved: an activation at that point would be left when the drain
  lowers the flag, and is, as the table above reports.
- `ServiceImplemented`: `Spec => IsService`, the refinement of
  `TransferService`, without taken units and with one timer (`OneTimer`). `ServiceInv` adds to
  `QueueInv` that the units of a channel are queued in the order in which they are
  due (`OrderInv`), without which the drain, which takes the earliest slice, would
  move a later unit first. Each action maps to a request, a move, a completion,
  a write of firmware or nothing.
- `AreasKept`: `Spec => []AreaHonoured`, for firmware that sets a new source only together with new
  settings (`NoRebase`): a source written under unchanged settings keeps the base of the old one.
  `AreaInv` relates source, count and reload of every descriptor to the area chosen for it.

### The processor context

`ExcContext`, from `ContextAssumption` (which makes a stack large enough for the deepest nest, of
at most 99 levels) and without RTOS tasks (`Bare`): with tasks each has a stack of its own, and
the argument below is about the one main stack.

- `ContextKept`: what resumes is what was interrupted, with its registers and IT state, on
  intact words (`ContextRestored`, `StackIntact`, `StackBalanced`, `HandlerOnMsp`, `ItOwned`), where
  lazy stacking comes with aligned frames (`Lazy => StkAlign`), because FPCAR does not hold an address
  that is not. `ContextInv` describes the whole stack: there is a sequence of boundaries, one per level, between which
  lie what the level pushed and the frame of the next, each holding the words of its owner, so that an
  entry adds a boundary and a return removes one without touching those below. `PushedWordsKept` is its part about
  the words of the stack, `Spec => []StackIntact`.
- `StateKept`: handlers leave S0-S15 as they found them (`StateOwned`) with frames stored at entry and without
  padding (`~Lazy`, `~StkAlign`). With lazy stacking the code breaks it (run `ctx_lazy`); with padding it stores the
  registers next to the frame and reads them past the padding word.

### Peripherals

- `I2cFabric`, `BusKept`: `I2cSpec => []BusInStep`, from `I2cAssumption`, for firmware that waits for the flags
  (`Careful`) and one channel as master (`OneMaster`): the code has no arbitration, so two masters may
  address the same slave, and the first to stop releases it under the other. `BusInv` joins the three parts
  of `BusInStep` by what each register means for who owns the bus: BBSY belongs to a master or an addressed slave, a
  master's fabric link is who acknowledged, a byte is staged only for somebody. The tick is proved as
  a function of the bus (`ShipAddressKeeps`, `ShipDataKeeps`, `StreamedKeeps`), as the code runs it in one call.
- `SpiBus`, `CardKept`: `Spec => []CardFaithful`, from `SpiAssumption`, for a driver and a page that do nothing of
  `SpiRude` (`Polite`): no transaction is abandoned and the card is not pulled in the middle of one. `SpiInv` describes the
  conversation. `Bytes` is what the card has seen of the driver's position, `Given` how much of its answer (`Reply`, a sequence
  fixed by the command and the disk) the driver has had; for each phase of the driver they fix the state of the card's parser and what is
  left in its output queue (`PhaseInv`). `DiskInv` lets the disk differ from what the driver believes in one block, the one the card has
  stored and not yet acknowledged (`Stored`). A byte is proved first as what the card makes of it (`FrameGrows`, `FrameEnds`,
  `TokenHeard`, `ByteKept`, `BlockKept`, `Answers`), then, phase by phase, as a store to SPDR (`SendKeeps`) and a read of it (`TakeKeeps`).
- `FlashController`, `EveryByteLands`: `FlashSpec => []BytesLand`, from `FlashAssumption`, for a driver that leaves P/E mode between
  jobs (no `"continue"`): otherwise the sequence number goes on from the old base. `FlashInv` relates
  base and sequence number to the job's cell at every step of the sequence.
- `PortPins`, `PinsHonest`: `PinSpec => []PinsAgree`, from `PinAssumption`. `PinInv` adds types; the lemma
  `SettleAgrees` says that the function every register write ends with makes the copies agree.

### The timers and clocks

All but the watchdogs sleep, and catch up when the driver ticks them or firmware looks. What their theorems say is that a look
shows what counting at every instruction would have shown. The lemmas are in `TimerProofs`: of each loop, what it computes as a
function of the time that passed, and that one more instruction changes it as the abstract timer changes. `Induction` gets
induction for a set of numbers from the library's theorem that `<` on the naturals is well founded.

The GPT, from `GptAssumption`, for any channels, periods, compares, buffers and cuts of time, under `Timely`: none of the three
operations by which, as reported above, a walk is not invisible (a link signal to a running channel, a restart within
a cycle, a period end that loads other compares and is not ticked).

- The walk first. `advance` is a loop of up to `n` turns for `n` instructions, each to the next compare, period end or the
  end of the time. The lemma `TurnsOn` says that with one instruction more to go the loop ends where it ended, gone on by one
  (`Course`, `CourseGoes`): two walks that differ only in the time left take the same turns until one runs out of it (`Along`). This is an
  induction over the turns.
  `OneMore` puts it in terms of the registers: what a reader finds after one more instruction, from what it found.
- `TypeCorrect`: `Spec => []TypeOK`. `GptInv` adds that the count is within the period, that a channel's links start and clear
  it together and that a channel started within a cycle has no match due at 0.
- `DutyKept`: `Spec => []DutyHonoured`. `DutyHonoured` speaks of the channel as it last caught up, so its invariant needs the same of
  the channel as it would be now (`DutyInv`): from the first period end of a walk on, the outputs are those of the duty cycle (`DutyOver`).
- `WalkInvisible`: `Spec => IsTicking`, the refinement of `TickTimer`. `Pass` maps to the tick (`PassShows`), the register writes to the
  write of what a reader finds (`WritesMap`), and ticks and reads to the sending of what is owed.

The AGT, from `AgtAssumption`, without further hypothesis:

- `AgtCounts`: `AgtSpec => IsCounting`, the refinement of `DownCounter`. The walk takes `total \div Div` turns and leaves `total % Div`;
  one more instruction either adds to the rest or adds one turn (`OneInstructionMore`, from `DivNext`). `Down` is read of the channel
  as a look would find it (`Ahead`), so a look changes nothing (`LookShows`) and the passing of time is the tick (`PassTicks`).

The RTC, from `RtcAssumption` (the times firmware sets are BCD times of a day):

- `TimeKept`: `RtcSpec => []ClockKeepsTime`. `RtcInv` says that the registers are BCD digits in range, that the seconds of the day
  they show, advanced by the time not yet looked at, are those that have passed, and that the time not yet looked at ends
  as far into a second as the time that has passed. `BumpCounts` and `SecondPasses` are the carries: one field, then all three through midnight.
- `AlarmsTold`: `RtcSpec => []AlarmTold`, where less than two seconds pass between looks (`MaxWait < 2 * Second`): `advance`
  compares once, with the second it arrives at, and passes over a match within a longer walk.

The clocks of the core, from `ClockAssumption`, for firmware that restarts no SysTick period and closes no gate under a running
cycle counter (`Gentle`), where the code differs as reported above:

- `ClocksAreKept`: `ClockSpec => []ClocksKept`, for any number of watchdogs. `DogInv`: what a watchdog has left and the ticks since it
  was served make its period. `SysTickInv`: the last request is at least as far back as the last look that reset the phase.
  `CycleInv`: the counter lacks exactly the time since its last look.

### Model-checked only

Liveness under fairness (`DeliveryNotDelayed`, `AllServed`, `EndReported`, `TransactionsEnd`) is out of
the prover's reach. So are the instructions (`IsThumb`): `ThumbCore` uses bit operations, `ThumbArith` a recursive
operator, neither of which the prover can be given, and the others would be a case per encoding that TLC enumerates as well.
`ExcContext` with tasks (`ThreadsKept`), CAN, USB, SCI and SSI, the sensors, the memory bus and the snapshot have no theorem.

## Plan

What is left to prove, in this order: task switches in `ExcContext`, with a sequence of boundaries per stack; the USB pipes, whose bytes are conserved between three queues.

## Not modelled

- The files of `core/ra4m1-periph-wasm` that repeat the shipped core (about 10,500
  lines, most of them byte for byte): what is modelled of the one holds for the other.
- The two `ra4m1.rs` (about 8,100 lines), which are tests and tables of the SVD's names and
  addresses.
- Of the snapshot: the frequencies RCC computes, the wave generators of the DAC, the MAC, MMC
  and PTP blocks of the Ethernet unit, and the table that gives peripherals their slots.
- ITM, key interrupt, DOC and SLCDC, which keep what is written.
- The demo's rendering, packaging, sketches and the empty Wi-Fi stub.
