------------------------------ MODULE StmPins ------------------------------
(***************************************************************************)
(* What is on the chip of the STM32 snapshot besides timers and ports: pins  *)
(* and the interrupts of their edges (gpio.rs, exti.rs, syscfg.rs), clocks   *)
(* and sleep (rcc.rs, pwr.rs), the flash (flash.rs) with the page that does  *)
(* its erases, and the converters (adc.rs, dac.rs).  Times count from their  *)
(* start up to what they are compared with.  Left out: registers only kept,  *)
(* and the frequencies rcc.rs computes, which nothing asks for.              *)
(***************************************************************************)
EXTENDS Integers, FiniteSets, TLC

CONSTANTS
    Parts,      \* which of "pins", "clocks", "flash", "adc", "dac" firmware uses
    Ports, Lines,   \* the ports, and the pins and EXTI lines of each
    Bsrrs,      \* what BSRR is written to: <<pins set, pins reset>>
    Modes,      \* what MODER is set to, "in" or "out"
    Triggers,   \* what RTSR and FTSR are set to
    Warm,       \* the instructions an oscillator takes
    Convert,    \* the instructions a conversion takes
    Sectors, Contents,  \* the sectors of the flash, and what is stored there
    Inputs,     \* the values a page puts on the channel
    PinsRude    \* what a careless program or page does: "turnaround", "pulse", "reroute", "retrigger",
                \* "unmask", "oneeach", "first", "rmw", "unready", "write", "aligned", "unasked", "keep"

VARIABLES
    pins,       \* GpioPorts and the ports
    exti,       \* EXTI, with EXTICR
    edges,      \* history: the edges the program is owed, and what was said of them
    clock,      \* RCC and PWR
    flash,      \* FLASH, FLASH_ERASE and the memory
    analog,     \* ADC and DAC
    nvic        \* the interrupts that are pending

pinsVars == <<pins, exti, edges, clock, flash, analog, nvic>>
Uses(what) == what \in Parts
Pin == Ports \X Lines

\* What each block holds at power-on.
PortReset == [input |-> {}, output |-> {}, od |-> {}, out |-> {}, told |-> {}]
ExtiReset == [imr |-> {}, rise |-> {}, fall |-> {}, pr |-> {}, last |-> {}, ready |-> FALSE]
ExticrReset == [port |-> [l \in Lines |-> CHOOSE p \in Ports : \A q \in Ports : p <= q]]
ClockReset == [on |-> [o \in {"hse", "pll"} |-> -1], rdy |-> {}, sw |-> "hsi", lse |-> FALSE]
PowerReset == [wuf |-> FALSE]
FlashReset == [key |-> 0, locked |-> TRUE, pg |-> FALSE, eop |-> FALSE, busy |-> FALSE, pending |-> FALSE, queue |-> {}]
AdcReset == [age |-> 0, adon |-> TRUE, started |-> FALSE, eoc |-> FALSE, dr |-> 0, ie |-> FALSE, input |-> -1,
             asked |-> FALSE, waited |-> 0, since |-> {}]
DacReset == [en |-> FALSE, dhr |-> 0, dor |-> 0, meant |-> 0]

Init ==
    /\ pins = PortReset /\ exti = ExtiReset @@ ExticrReset /\ clock = ClockReset @@ PowerReset
    /\ edges = [due |-> {}, moved |-> {}, must |-> {}, taken |-> {}]
    /\ flash = FlashReset @@ [page |-> {}, cells |-> [s \in Sectors |-> 0], want |-> [s \in Sectors |-> 0]]
    /\ analog = AdcReset @@ DacReset /\ nvic = {}

-----------------------------------------------------------------------------
(* Pins.  A set of pins stands for those that are high.                      *)

High == pins.input \cup pins.output
Level(p, l) == <<p, l>> \in High
LevelOf(s, l) == <<exti.port[l], l>> \in s.input \cup s.output

\* What an edge of a line owes the program.
Owing(new) ==
    LET moved == {l \in Lines : LevelOf(new, l) # LevelOf(pins, l)} IN
    [edges EXCEPT !.due = @ \cup {l \in moved : l \in (IF LevelOf(new, l) THEN exti.rise ELSE exti.fall)},
                  !.moved = @ \cup moved]

Moves(new) ==
    /\ "pulse" \in PinsRude \/ {l \in Lines : LevelOf(new, l) # LevelOf(pins, l)} \cap edges.moved = {}
    /\ ~exti.ready => "first" \in PinsRude \/ \A l \in Lines : LevelOf(new, l) = LevelOf(pins, l)
    /\ pins' = new /\ edges' = Owing(new)

\* gpio_set_input.
SetInput(x, level) ==
    /\ Uses("pins") /\ x \notin pins.out
    /\ Moves([pins EXCEPT !.input = IF level THEN @ \cup {x} ELSE @ \ {x}])
    /\ UNCHANGED <<exti, clock, flash, analog, nvic>>

\* MODER: a pin that is no output any more drives nothing; ODR stays and nobody is told.
WriteModer(x, mode) ==
    /\ Uses("pins") /\ x \notin pins.input
    /\ x \in pins.od /\ mode = "in" => "turnaround" \in PinsRude
    /\ Moves([pins EXCEPT !.out = IF mode = "out" THEN @ \cup {x} ELSE @ \ {x},
                          !.output = IF mode = "out" THEN @ ELSE @ \ {x}])
    /\ UNCHANGED <<exti, clock, flash, analog, nvic>>

\* For each pin the set comes before the reset.
LastReset(s, set, reset) == (s \cup set) \ reset

\* ODR: the pins that change.
WriteOdr(p, value) ==
    /\ Uses("pins")
    /\ LET mine == {x \in Pin : x[1] = p}
           new == (pins.od \ mine) \cup value
           changed == {x \in mine : (x \in new) # (x \in pins.od)}
       IN  /\ value \subseteq mine
           /\ changed \subseteq pins.out
           /\ Moves([pins EXCEPT !.od = new, !.output = (@ \ changed) \cup (changed \cap new),
                                 !.told = (@ \ changed) \cup (changed \cap new)])
    /\ UNCHANGED <<exti, clock, flash, analog, nvic>>

\* BSRR: all pins it names.
WriteBsrr(p, set, reset) ==
    LET s == {p} \X set
        r == {p} \X reset
    IN  /\ Uses("pins") /\ s \cup r \subseteq pins.out
        /\ Moves([pins EXCEPT !.od = LastReset(@, s, r), !.output = LastReset(@, s, r), !.told = LastReset(@, s, r)])
        /\ UNCHANGED <<exti, clock, flash, analog, nvic>>

-----------------------------------------------------------------------------
(* EXTI.                                                                     *)

IrqOf(l) == IF l <= 4 THEN 6 + l ELSE IF l <= 9 THEN 23 ELSE 40
Fires(e) == {IrqOf(l) : l \in e.pr \cap e.imr}

\* Mutant: the scan looks at the level alone.
EdgesLevel == {l \in Lines : LevelOf(pins, l) /\ l \in exti.rise}
\* scan_lines, with the triggers of this moment.
Edges ==
    {l \in Lines : LevelOf(pins, l) # (l \in exti.last)
                   /\ l \in (IF LevelOf(pins, l) THEN exti.rise ELSE exti.fall)}

\* tick: the first looks only.
Tick ==
    /\ Uses("pins")
    /\ LET e == [exti EXCEPT !.last = {l \in Lines : LevelOf(pins, l)}, !.ready = TRUE,
                             !.pr = IF exti.ready THEN @ \cup Edges ELSE @]
       IN  /\ exti' = e
           /\ nvic' = IF exti.ready /\ Edges # {} THEN nvic \cup Fires(e) ELSE nvic
           /\ edges' = [edges EXCEPT !.must = @ \cup edges.due, !.due = {}, !.moved = {}]
    /\ UNCHANGED <<pins, clock, flash, analog>>

WriteImr(lines) ==
    /\ Uses("pins")
    /\ (exti.pr \cap lines) \subseteq exti.imr \/ "unmask" \in PinsRude
    /\ exti' = [exti EXCEPT !.imr = lines]
    /\ UNCHANGED <<pins, edges, clock, flash, analog, nvic>>

\* RTSR and FTSR.
WriteTriggers(rise, fall) ==
    /\ Uses("pins") /\ edges.moved # {} => "retrigger" \in PinsRude
    /\ exti' = [exti EXCEPT !.rise = rise, !.fall = fall]
    /\ UNCHANGED <<pins, edges, clock, flash, analog, nvic>>

\* EXTICR.
Route(l, p) ==
    /\ Uses("pins")
    /\ "reroute" \in PinsRude \/ (edges.moved = {} /\ Level(p, l) = LevelOf(pins, l))
    /\ exti' = [exti EXCEPT !.port[l] = p]
    /\ UNCHANGED <<pins, edges, clock, flash, analog, nvic>>

\* SWIER, for lines that are not masked.
WriteSwier(lines) ==
    /\ Uses("pins")
    /\ LET bits == lines \cap exti.imr
           e == [exti EXCEPT !.pr = @ \cup bits]
       IN  /\ exti' = e /\ edges' = [edges EXCEPT !.must = @ \cup bits]
           /\ nvic' = IF bits # {} THEN nvic \cup Fires(e) ELSE nvic
    /\ UNCHANGED <<pins, clock, flash, analog>>

\* PR, by the handler of these lines: a careful one takes all that its interrupt has.
WritePr(lines) ==
    /\ lines # {} /\ lines \subseteq exti.pr
    /\ "oneeach" \in PinsRude \/ \A l \in lines : {k \in exti.pr : IrqOf(k) = IrqOf(l)} \subseteq lines
    /\ exti' = [exti EXCEPT !.pr = @ \ lines]
    /\ edges' = [edges EXCEPT !.must = @ \ lines, !.taken = @ \ {IrqOf(l) : l \in lines}]
    /\ UNCHANGED <<pins, clock, flash, analog, nvic>>

TakeIrq(i) ==
    /\ i \in nvic /\ nvic' = nvic \ {i} /\ edges' = [edges EXCEPT !.taken = @ \cup {i}]
    /\ UNCHANGED <<pins, exti, clock, flash, analog>>

-----------------------------------------------------------------------------
(* Clocks.                                                                   *)

Warmed(c, o) == c.on[o] >= Warm[o]

\* CR: a program that writes back what it read writes the ready flags too, and they stay.
WriteCr(o, on, back) ==
    /\ Uses("clocks")
    /\ back => "rmw" \in PinsRude
    /\ ~on /\ clock.sw = o => "unready" \in PinsRude
    /\ clock' = [clock EXCEPT !.on[o] = IF on THEN (IF @ < 0 THEN 0 ELSE @) ELSE -1,
                              !.rdy = IF back THEN @ \cup {q \in DOMAIN Warm : Warmed(clock, q)} ELSE {}]
    /\ UNCHANGED <<pins, exti, edges, flash, analog, nvic>>

\* What CR reads.
ReadyFlag(o) == Warmed(clock, o) \/ o \in clock.rdy

\* CFGR: SWS follows SW at once.
WriteCfgr(o) ==
    /\ Uses("clocks")
    /\ o # "hsi" => ReadyFlag(o) \/ "unready" \in PinsRude
    /\ clock' = [clock EXCEPT !.sw = o]
    /\ UNCHANGED <<pins, exti, edges, flash, analog, nvic>>

\* BDCR, and CSR alike: each write takes the time anew, so the flag is never set.
WriteBdcr(on) ==
    /\ Uses("clocks") /\ clock' = [clock EXCEPT !.lse = on]
    /\ UNCHANGED <<pins, exti, edges, flash, analog, nvic>>

\* pwr_wakeup; nothing clears WUF.
WakeUp ==
    /\ Uses("clocks") /\ clock' = [clock EXCEPT !.wuf = TRUE]
    /\ UNCHANGED <<pins, exti, edges, flash, analog, nvic>>

Pass ==
    /\ Uses("clocks")
    /\ clock' = [clock EXCEPT !.on = [o \in DOMAIN @ |-> IF @[o] < 0 \/ @[o] > Warm[o] THEN @[o] ELSE @[o] + 1]]
    /\ UNCHANGED <<pins, exti, edges, flash, analog, nvic>>

-----------------------------------------------------------------------------
(* The flash: 0 is erased.                                                   *)

\* refresh_programming.
Programming(f) == ~f.locked /\ f.pg /\ ~f.busy /\ ~f.pending

WriteKey(k) ==
    /\ Uses("flash")
    /\ flash' = [flash EXCEPT !.key = k, !.locked = @ /\ ~(flash.key = 1 /\ k = 2)]
    /\ UNCHANGED <<pins, exti, edges, clock, analog, nvic>>

\* Mutant: an erase starts while another one runs.
MayEraseTwice(f) == ~f.locked
MayErase(f) == ~f.locked /\ ~f.busy /\ ~f.pending

\* CR: PG, and with STRT the erase of the sectors that SER and SNB, or MER, name.
WriteFlashCr(lock, pg, sectors) ==
    /\ Uses("flash")
    /\ LET f == IF flash.locked THEN flash ELSE [flash EXCEPT !.pg = pg, !.locked = lock]
           go == ~flash.locked /\ sectors # {} /\ MayErase(f)
       IN  flash' = IF go THEN [f EXCEPT !.pending = TRUE, !.busy = TRUE, !.queue = sectors,
                                         !.want = [s \in Sectors |-> IF s \in sectors THEN 0 ELSE @[s]]]
                    ELSE f
    /\ UNCHANGED <<pins, exti, edges, clock, analog, nvic>>

\* SR: what is written as one is cleared, BSY too.
WriteSr(bits) ==
    /\ Uses("flash")
    /\ "busy" \in bits => "write" \in PinsRude
    /\ flash' = [flash EXCEPT !.eop = @ /\ "eop" \notin bits, !.busy = @ /\ "busy" \notin bits]
    /\ UNCHANGED <<pins, exti, edges, clock, analog, nvic>>

\* The page takes the erase, does it, and says so.
PageTakes ==
    /\ flash.queue # {}
    /\ flash' = [flash EXCEPT !.queue = {}, !.page = flash.queue]
    /\ UNCHANGED <<pins, exti, edges, clock, analog, nvic>>

\* flash_erase_applied.
EraseApplied ==
    /\ flash.page # {}
    /\ flash' = [flash EXCEPT !.cells = [s \in Sectors |-> IF s \in flash.page THEN 0 ELSE @[s]], !.page = {},
                              !.pending = FALSE, !.busy = FALSE, !.eop = TRUE]
    /\ UNCHANGED <<pins, exti, edges, clock, analog, nvic>>

\* A store to the flash, which the page keeps while flash_is_programming.
Program(s, v) ==
    /\ Uses("flash") /\ flash.pg /\ ~flash.locked
    /\ ~flash.busy \/ "write" \in PinsRude
    /\ flash' = [flash EXCEPT !.cells[s] = IF Programming(flash) THEN v ELSE @, !.want[s] = v]
    /\ UNCHANGED <<pins, exti, edges, clock, analog, nvic>>

-----------------------------------------------------------------------------
(* The converters.                                                           *)

\* asked, waited and since are history: a program started a conversion and has not taken
\* its result, the time since, and what was on the input in it.
PageSets(v) ==
    /\ Uses("adc")
    /\ analog' = [analog EXCEPT !.input = v, !.since = @ \cup {v}]
    /\ UNCHANGED <<pins, exti, edges, clock, flash, nvic>>

\* Mutant: the sample is ready when it starts.
DoneAtOnce(a) == a.started
Done(a) == a.age >= Convert

\* CR2, read while ADON is set: start_conversion samples when the time is over, whether or
\* not a conversion was started, and again with every further read.
ReadCr2 ==
    LET sampled == analog.adon /\ Done(analog) IN
    /\ Uses("adc")
    /\ sampled /\ ~analog.asked => "unasked" \in PinsRude
    /\ analog' = IF sampled THEN [analog EXCEPT !.dr = analog.input, !.eoc = TRUE] ELSE analog
    /\ nvic' = IF sampled /\ analog.ie THEN nvic \cup {18} ELSE nvic
    /\ UNCHANGED <<pins, exti, edges, clock, flash>>

\* CR2, written: SWSTART takes a new time unless it is still set.
WriteCr2(adon, start) ==
    /\ Uses("adc")
    /\ start => "keep" \in PinsRude \/ (~analog.started /\ ~analog.eoc)
    /\ LET a == [analog EXCEPT !.adon = adon, !.started = start, !.age = IF start /\ ~analog.started THEN 0 ELSE @] IN
       analog' = IF start THEN [a EXCEPT !.asked = TRUE, !.waited = 0, !.since = {a.input}] ELSE a
    /\ UNCHANGED <<pins, exti, edges, clock, flash, nvic>>

\* DR, or SR, read.
ReadData ==
    /\ analog.eoc /\ analog' = [analog EXCEPT !.eoc = FALSE, !.asked = FALSE]
    /\ UNCHANGED <<pins, exti, edges, clock, flash, nvic>>

\* SR, written, which sets as well as it clears.
WriteAdcSr(eoc) ==
    /\ Uses("adc") /\ (eoc => "unasked" \in PinsRude \/ analog.eoc)
    /\ analog' = [analog EXCEPT !.eoc = eoc, !.asked = @ /\ (eoc \/ ~analog.eoc)]
    /\ nvic' = IF eoc /\ analog.ie THEN nvic \cup {18} ELSE nvic
    /\ UNCHANGED <<pins, exti, edges, clock, flash>>

WriteCr1(ie) ==
    /\ Uses("adc") /\ analog' = [analog EXCEPT !.ie = ie]
    /\ nvic' = IF ie /\ analog.eoc THEN nvic \cup {18} ELSE nvic
    /\ UNCHANGED <<pins, exti, edges, clock, flash>>

\* The time is counted from power-on.
Elapse ==
    /\ Uses("adc") /\ (analog.age < Convert \/ analog.waited < Convert)
    /\ analog' = [analog EXCEPT !.age = IF @ < Convert THEN @ + 1 ELSE @, !.waited = IF @ < Convert THEN @ + 1 ELSE @]
    /\ UNCHANGED <<pins, exti, edges, clock, flash, nvic>>

\* The DAC puts out DHR12R, whichever register is written.
WriteDac(v, register) ==
    /\ Uses("dac") /\ register # "12r" => "aligned" \in PinsRude
    /\ LET dhr == IF register = "12r" THEN v ELSE analog.dhr IN
       analog' = [analog EXCEPT !.dhr = dhr, !.dor = IF analog.en THEN dhr ELSE @, !.meant = IF analog.en THEN v ELSE @]
    /\ UNCHANGED <<pins, exti, edges, clock, flash, nvic>>

WriteDacCr(en) ==
    /\ Uses("dac") /\ analog' = [analog EXCEPT !.en = en]
    /\ UNCHANGED <<pins, exti, edges, clock, flash, nvic>>

-----------------------------------------------------------------------------
Next ==
    \/ Tick \/ WakeUp \/ Pass \/ PageTakes \/ EraseApplied \/ ReadCr2 \/ ReadData \/ Elapse
    \/ \E x \in Pin : \E b \in BOOLEAN : SetInput(x, b)
    \/ \E x \in Pin, mode \in Modes : WriteModer(x, mode)
    \/ \E p \in Ports : (\E value \in SUBSET ({p} \X Lines) : WriteOdr(p, value)) \/ \E b \in Bsrrs : WriteBsrr(p, b[1], b[2])
    \/ \E lines \in SUBSET Lines : WriteImr(lines) \/ WriteSwier(lines) \/ WritePr(lines)
    \/ \E rise, fall \in Triggers : WriteTriggers(rise, fall)
    \/ \E l \in Lines, p \in Ports : Route(l, p)
    \/ \E i \in nvic : TakeIrq(i)
    \/ \E o \in DOMAIN Warm, on, back \in BOOLEAN : WriteCr(o, on, back)
    \/ \E o \in {"hsi", "hse", "pll"} : WriteCfgr(o)
    \/ \E b \in BOOLEAN : WriteBdcr(b) \/ WriteCr1(b) \/ WriteAdcSr(b) \/ WriteDacCr(b)
    \/ \E adon, start \in BOOLEAN : WriteCr2(adon, start)
    \/ \E k \in {0, 1, 2} : WriteKey(k)
    \/ \E lock, pg \in BOOLEAN, sectors \in {{}, Sectors} \cup {{s} : s \in Sectors} : WriteFlashCr(lock, pg, sectors)
    \/ \E bits \in SUBSET {"eop", "busy"} : WriteSr(bits)
    \/ \E s \in Sectors, v \in Contents : Program(s, v)
    \/ \E v \in Inputs : PageSets(v) \/ \E register \in {"12r", "8r"} : WriteDac(v, register)

Spec == Init /\ [][Next]_pinsVars

-----------------------------------------------------------------------------
(* Properties.                                                               *)

\* A pin that is an output has the level of its latch, and the device on it was told so.
PinsDriven == \A x \in pins.out : (x \in pins.output <=> x \in pins.od) /\ (x \in pins.told <=> x \in pins.od)

\* Every edge a line was to catch is in PR by the next tick, nothing else is, and one that
\* may interrupt has its interrupt pending, or its handler runs.
EdgesCaught ==
    /\ exti.pr = edges.must
    /\ \A l \in exti.pr \cap exti.imr : IrqOf(l) \in nvic \cup edges.taken

\* An oscillator says it is ready when it is on and has warmed up, and the clock is one that is ready.
ClocksReady ==
    /\ \A o \in DOMAIN Warm : ReadyFlag(o) <=> clock.on[o] >= Warm[o]
    /\ clock.sw # "hsi" => clock.on[clock.sw] >= Warm[clock.sw]

\* The flash is what the program made of it, but for an erase that runs: the page does the
\* one that was asked for, and until then the flash is busy and takes nothing.
ErasesDone ==
    /\ flash.pending <=> flash.queue \cup flash.page # {}
    /\ flash.queue = {} \/ flash.page = {}
    /\ \A s \in Sectors : s \in flash.queue \cup flash.page \/ flash.cells[s] = flash.want[s]

\* A sample that is ready is of a conversion the program started and has waited for, and
\* was on the input since; the DAC puts out what was written last.
ConvertersHonest ==
    /\ analog.eoc => analog.asked /\ analog.waited >= Convert /\ analog.dr \in analog.since
    /\ analog.dor = analog.meant

BoardAgrees == PinsDriven /\ EdgesCaught /\ ClocksReady /\ ErasesDone /\ ConvertersHonest
=============================================================================
