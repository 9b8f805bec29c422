----------------------------- MODULE CoreClocks -----------------------------
(***************************************************************************)
(* The units of the core and the chip that measure time: the watchdogs      *)
(* (RaWdt of peripherals/ra_misc.rs), the SysTick timer (systick.rs,        *)
(* nvic.rs) and the cycle counter of the DWT with the trace enable that     *)
(* gates it (dwt.rs).  A watchdog counts ticks of the driver; the others     *)
(* read the instruction count when somebody looks.                         *)
(***************************************************************************)
EXTENDS Integers

CONSTANTS
    Clocks,      \* which of "watchdog", "systick" and "cycles" firmware uses
    Dog,         \* the watchdogs, WDT and IWDT
    Initial,     \* 1000000 ticks, the period before firmware sets one
    Periods,     \* 64, 256, 1024 or 4096 ticks, by TOPS
    Reloads,     \* what firmware writes to RVR
    ClockMaxLag, \* bound: instructions between two looks
    MaxCycles,   \* bound: cycles are counted modulo it
    ClockRude    \* what a careless driver does: "ungated", "restart"

VARIABLES
    dog,         \* down, reload and the flag of WDTSR of each watchdog
    asked,       \* WATCHDOG_RESET_EVENT
    idle,        \* history: ticks since each watchdog was refreshed
    missed,      \* history: a period ended since the driver last asked
    tick,        \* RVR, systick_period, 0 for none
    tickLag,     \* instructions since last_systick_trigger
    gap,         \* history: instructions since the last request of this period
    early,       \* history: a request came within a period of the last
    dwt,         \* CYCCNTENA, TRCENA, CYCCNT
    dwtLag,      \* instructions since last
    gated        \* history: instructions during which both gates were open

dogVars   == <<dog, asked, idle, missed>>
tickVars  == <<tick, tickLag, gap, early>>
cycleVars == <<dwt, dwtLag, gated>>
clockVars == <<dogVars, tickVars, cycleVars>>

ClockAssumption ==
    /\ Initial \in Nat \ {0} /\ Periods \subseteq Nat \ {0} /\ Reloads \subseteq Nat
    /\ ClockMaxLag \in Nat /\ MaxCycles \in Nat \ {0, 1}

Up(n) == IF n < ClockMaxLag THEN n + 1 ELSE n

ClockInit ==
    /\ dog = [d \in Dog |-> [down |-> Initial, reload |-> Initial, flag |-> FALSE]]
    /\ asked = FALSE /\ idle = [d \in Dog |-> 0] /\ missed = FALSE
    /\ tick = [rvr |-> 0, period |-> 0] /\ tickLag = 0 /\ gap = ClockMaxLag /\ early = FALSE
    /\ dwt = [ena |-> FALSE, trc |-> FALSE, cyc |-> 0] /\ dwtLag = 0 /\ gated = 0

-----------------------------------------------------------------------------
(* The watchdogs.                                                            *)

\* Mutant: a watchdog that bit begins its next period by itself.
BitesAgain(w) ==
    IF w.down = 1 THEN [w EXCEPT !.down = w.reload, !.flag = TRUE] ELSE [w EXCEPT !.down = @ - 1]

\* The count of one tick; at 0 it stays.
CountDown(w) ==
    IF w.down = 0 THEN w
    ELSE [w EXCEPT !.down = @ - 1, !.flag = @ \/ w.down = 1]

\* WasmSystem::tick reaches both watchdogs.
TickDogs ==
    /\ "watchdog" \in Clocks
    /\ dog' = [d \in Dog |-> CountDown(dog[d])]
    /\ asked' = (asked \/ \E d \in Dog : dog'[d].flag /\ dog[d].down = 1)
    /\ idle' = [d \in Dog |-> IF idle[d] < dog[d].reload THEN idle[d] + 1 ELSE idle[d]]
    /\ missed' = (missed \/ \E d \in Dog : idle[d] + 1 = dog[d].reload)
    /\ UNCHANGED <<tickVars, cycleVars>>

Serve(d, w) ==
    /\ "watchdog" \in Clocks
    /\ dog' = [dog EXCEPT ![d] = w] /\ idle' = [idle EXCEPT ![d] = 0]
    /\ UNCHANGED <<asked, missed, tickVars, cycleVars>>

\* WDTRR: any value refreshes.
WriteWdtrr(d) == Serve(d, [dog[d] EXCEPT !.down = dog[d].reload, !.flag = FALSE])

\* WDTCR: the period, from now.
WriteWdtcr(d, n) == Serve(d, [dog[d] EXCEPT !.down = n, !.reload = n])

\* is_watchdog_reset_requested: once per expiry.
AskReset ==
    /\ "watchdog" \in Clocks /\ asked
    /\ asked' = FALSE /\ missed' = FALSE
    /\ UNCHANGED <<dog, idle, tickVars, cycleVars>>

-----------------------------------------------------------------------------
(* SysTick.                                                                  *)

\* Mutant: the request is due one instruction early.
DueSoon(period, delta) == delta >= period
TickDue(period, delta) == delta > period

\* maybe_set_systick_intr_pending, with every tick of the driver.
LookSysTick ==
    /\ "systick" \in Clocks /\ tick.period # 0 /\ TickDue(tick.period, tickLag)
    /\ tickLag' = 0 /\ gap' = 0
    /\ early' = (early \/ gap <= tick.period)
    /\ UNCHANGED <<tick, dogVars, cycleVars>>

\* CSR: the period is taken from RVR here and nowhere else; the phase stays, and
\* a careless driver relies on a period that begins with the enable.
WriteCsr(enable) ==
    /\ "systick" \in Clocks
    /\ LET period == IF enable /\ tick.rvr # 0 THEN tick.rvr ELSE 0 IN
       /\ tick' = [tick EXCEPT !.period = period]
       /\ gap' = IF period = tick.period THEN gap
                 ELSE IF "restart" \in ClockRude THEN 0 ELSE ClockMaxLag
    /\ UNCHANGED <<tickLag, early, dogVars, cycleVars>>

WriteRvr(n) ==
    /\ "systick" \in Clocks /\ tick' = [tick EXCEPT !.rvr = n]
    /\ UNCHANGED <<tickLag, gap, early, dogVars, cycleVars>>

\* CVR: a new period begins.
WriteCvr ==
    /\ "systick" \in Clocks /\ tickLag' = 0
    /\ UNCHANGED <<tick, gap, early, dogVars, cycleVars>>

-----------------------------------------------------------------------------
(* The cycle counter.                                                        *)

\* sync: the whole time since the last look, by the gates as they are now.
Synced == IF dwt.ena /\ dwt.trc THEN (dwt.cyc + dwtLag) % MaxCycles ELSE dwt.cyc

Access(u, count) ==
    /\ "cycles" \in Clocks
    /\ dwt' = u /\ dwtLag' = 0 /\ gated' = count
    /\ UNCHANGED <<dogVars, tickVars>>

ReadCyccnt == dwtLag > 0 /\ Access([dwt EXCEPT !.cyc = Synced], gated)

\* Mutant: the cycles until now are not counted first.
WriteCtrlUnsynced(ena) == Access([dwt EXCEPT !.ena = ena], gated)

\* CTRL: what passed until now counts under the old enable.
WriteCtrl(ena) == Access([dwt EXCEPT !.cyc = Synced, !.ena = ena], gated)

WriteCyccnt(n) == Access([dwt EXCEPT !.cyc = n], n)

\* DEMCR: the trace enable is written without a look at the counter; a careless
\* driver writes it while the counter is enabled.
WriteDemcr(trc) ==
    /\ "cycles" \in Clocks /\ (dwt.ena => "ungated" \in ClockRude)
    /\ dwt' = [dwt EXCEPT !.trc = trc]
    /\ UNCHANGED <<dwtLag, gated, dogVars, tickVars>>

-----------------------------------------------------------------------------
\* One instruction.
ClockPass ==
    /\ IF "systick" \in Clocks
       THEN tickLag < ClockMaxLag /\ tickLag' = tickLag + 1 /\ gap' = Up(gap)
       ELSE UNCHANGED <<tickLag, gap>>
    /\ IF "cycles" \in Clocks
       THEN /\ dwtLag < ClockMaxLag /\ dwtLag' = dwtLag + 1
            /\ gated' = IF dwt.ena /\ dwt.trc THEN (gated + 1) % MaxCycles ELSE gated
       ELSE UNCHANGED <<dwtLag, gated>>
    /\ UNCHANGED <<dogVars, tick, early, dwt>>

ClockNext ==
    \/ ClockPass
    \/ TickDogs \/ AskReset
    \/ \E d \in Dog : WriteWdtrr(d) \/ \E n \in Periods : WriteWdtcr(d, n)
    \/ LookSysTick \/ WriteCvr
    \/ \E enable \in BOOLEAN : WriteCsr(enable)
    \/ \E n \in Reloads : WriteRvr(n)
    \/ ReadCyccnt
    \/ \E on \in BOOLEAN : WriteCtrl(on) \/ WriteDemcr(on)
    \/ \E n \in {0, 1} : WriteCyccnt(n)

ClockSpec == ClockInit /\ [][ClockNext]_clockVars

-----------------------------------------------------------------------------
(* Properties.                                                               *)

\* The driver is asked for a reset if and only if a watchdog was left alone for
\* its period since it was last asked, whatever the period was before.
WatchdogTells == asked = missed

\* Two requests of SysTick are more than a period apart.
TicksApart == ~early

\* The cycles counted are those during which counter and trace were enabled
\* (dwt.rs:5-7), whenever firmware looks.
CyclesGated == Synced = gated

ClocksKept == WatchdogTells /\ TicksApart /\ CyclesGated
=============================================================================
