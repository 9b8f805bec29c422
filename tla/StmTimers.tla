------------------------------ MODULE StmTimers -----------------------------
(***************************************************************************)
(* What measures time in the STM32 snapshot: a general timer (tim.rs), the  *)
(* window and the independent watchdog (wwdg.rs, iwdg.rs) and the real-time *)
(* clock (rtc.rs).  Each reads the instruction count when somebody looks    *)
(* and rebases on now.  Left out: the status bits of the IWDG, and the      *)
(* registers that are only kept.                                           *)
(***************************************************************************)
EXTENDS Integers

CONSTANTS
    Units,      \* which of "tim", "wwdg", "iwdg" and "rtc" firmware uses
    Top,        \* the largest count of a timer and a watchdog
    Cap,        \* 100, what one look catches up with at most
    Modes,      \* of "up", "down" and "centre" those it counts in
    Psc,        \* what firmware writes to PSC
    Values,     \* what it writes to CNT, ARR, CCR, WWDG and IWDG counts
    Prescalers, \* instructions per count of a watchdog
    SecondLen,  \* instructions per second of the RTC
    Floor,      \* 100, below which the RTC is not looked at
    Times,      \* what firmware writes to TR: <<hour, minute, second>> in BCD
    Alarms,     \* the alarms it sets: the same, -1 for any
    MaxLag,     \* bound: instructions between two looks
    MaxAge,     \* bound: instructions since a load
    TimerRude   \* what a careless program does: "arrbelow", "stalecapture", "stalewindow",
                \* "prelive", "rmvf", "inside", "two", "settime"

VARIABLES
    tim,        \* the timer, with one channel; lag is now - last_tick
    wwdg,
    iwdg,
    rtc,
    resets,     \* WATCHDOG_RESET_EVENT and the two flags of RCC_CSR
    ideal,      \* history: the timer as it would be, were it looked at all the time
    age,        \* history: instructions since a unit was loaded, and with what; for the
                \* timer those since it was started, and the counts it made
    wrong,      \* history: a watchdog asked for a reset before its time
    owed,       \* history: the alarms that came due since they were cleared
    looks,      \* history: whether looks have dropped nothing of what passed ("exact"), rests
                \* of a division ("slow"), or what exceeds Cap ("lost")
    setTo       \* history: what the clock was set to

stmTimerVars == <<tim, wwdg, iwdg, rtc, resets, ideal, age, wrong, owed, looks, setTo>>

Dogs == {"wwdg", "iwdg"}
NoAlarm == <<-1, -1, -1>>
Least(a, b) == IF a < b THEN a ELSE b

WwdgReset == [cnt |-> Top, wdga |-> FALSE, window |-> Top, pre |-> 1, ewif |-> FALSE, started |-> FALSE, lag |-> 0]
IwdgReset == [cnt |-> Top, unlocked |-> FALSE, pre |-> 1, rlr |-> Top, started |-> FALSE, lag |-> 0]
\* The clock starts where the program has set it.
RtcReset == [time : Times, hold : {TRUE}, en : {{}}, flag : {{}}, alarm : {[a \in {"A", "B"} |-> NoAlarm]}, lag : {0}]

Init ==
    /\ tim = [on |-> FALSE, mode |-> "up", cnt |-> 0, psc |-> 0, arr |-> Top, ccr |-> 0, capture |-> FALSE,
              cce |-> FALSE, sr |-> {}, ie |-> {}, irq |-> FALSE, lag |-> 0]
    /\ wwdg = WwdgReset
    /\ iwdg = IwdgReset
    /\ rtc \in RtcReset
    /\ resets = [asked |-> FALSE, cause |-> {}]
    /\ ideal = tim
    /\ age = [u \in Dogs \cup {"rtc", "tim"} |-> [n |-> 0, from |-> IF u \in Dogs THEN Top ELSE 0]]
    /\ wrong = FALSE /\ owed = {} /\ looks = "exact" /\ setTo = rtc.time

-----------------------------------------------------------------------------
(* The timer.                                                                *)

Flagged(t, new) == [t EXCEPT !.sr = @ \cup new, !.irq = @ \/ new \cap t.ie # {}]

Compared(t) == IF ~t.capture /\ t.cce /\ t.cnt = t.ccr THEN {"c"} ELSE {}

\* Mutant: the period of the old model, ARR instead of ARR + 1.
WrapsShort(t) == IF t.mode = "down" THEN t.cnt = 0 ELSE t.cnt + 1 >= t.arr

\* The centre-aligned modes count up.
Wraps(t) == IF t.mode = "down" THEN t.cnt = 0 ELSE t.cnt >= t.arr

OneTick(t) ==
    LET next == IF t.mode = "down" THEN IF Wraps(t) THEN t.arr ELSE t.cnt - 1
                ELSE IF Wraps(t) THEN 0 ELSE t.cnt + 1
        u == [t EXCEPT !.cnt = next]
    IN  Flagged(u, (IF Wraps(t) THEN {"u"} ELSE {}) \cup Compared(u))

\* PSC 0 and PSC 1 divide by one.
Prescaler(t) == IF t.psc = 0 THEN 1 ELSE t.psc
Ticks(t) == t.lag \div Prescaler(t)

\* advance: the rest of a division is dropped, as is what exceeds Cap.
Advanced(t) ==
    LET walk[n \in 0..Cap] == IF n = 0 THEN t ELSE OneTick(walk[n - 1]) IN
    IF Ticks(t) = 0 THEN t ELSE [(IF t.on THEN walk[Least(Ticks(t), Cap)] ELSE t) EXCEPT !.lag = 0]

\* What that leaves of the time that passed.
KeptBy(t) ==
    IF ~t.on \/ Ticks(t) = 0 THEN looks
    ELSE IF Ticks(t) > Cap \/ looks = "lost" THEN "lost"
    ELSE IF t.lag % Prescaler(t) # 0 THEN "slow" ELSE looks

\* The counts of a divided timer, from the last whole one before its start.
Counted(t, u) ==
    IF ~u.on \/ Prescaler(u) = 1 THEN [n |-> 0, from |-> 0]
    ELSE IF ~t.on THEN [n |-> u.lag, from |-> 0]
    ELSE [age["tim"] EXCEPT !.from = @ + Least(Ticks(t), Cap)]

\* A store, to a timer that has caught up and to the one that always has.  The comparison
\* begins anew when the timer is started.
Store(F(_)) ==
    LET u == F(Advanced(tim))
        starts == u.on /\ ~tim.on
    IN  /\ "tim" \in Units
        /\ tim' = u
        /\ looks' = IF starts THEN "exact" ELSE KeptBy(tim)
        /\ ideal' = IF looks # "exact" \/ looks' # "exact" THEN u
                    ELSE IF starts THEN [F(ideal) EXCEPT !.lag = u.lag] ELSE F(ideal)
        /\ age' = [age EXCEPT !["tim"] = Counted(tim, u)]
        /\ UNCHANGED <<wwdg, iwdg, rtc, resets, wrong, owed, setTo>>

\* tick, and a read of any register but CNT.
LookTim == tim.lag > 0 /\ Store(LAMBDA t : t)

\* CR1: an enable clears the count.
WriteCr1(on, mode) == Store(LAMBDA t : [t EXCEPT !.on = on, !.mode = mode, !.cnt = IF on /\ ~t.on THEN 0 ELSE @])

WriteSr(bits) == Store(LAMBDA t : [t EXCEPT !.sr = @ \cap bits])
WriteDier(ie) == Store(LAMBDA t : [t EXCEPT !.ie = ie])
WriteCcer(cce) == Store(LAMBDA t : [t EXCEPT !.cce = cce])
WriteCcmr(capture) == Store(LAMBDA t : [t EXCEPT !.capture = capture])
WriteCcr(n) == Store(LAMBDA t : [t EXCEPT !.ccr = n])

\* PSC holds at once, also for what has passed of a count.
WritePsc(n) ==
    /\ tim.on => n = tim.psc \/ "prelive" \in TimerRude
    /\ Store(LAMBDA t : [t EXCEPT !.psc = n])

WriteCnt(n) == (n <= tim.arr \/ "arrbelow" \in TimerRude) /\ Store(LAMBDA t : [t EXCEPT !.cnt = n])

\* ARR: a program that runs the timer sets no period the count is beyond.
WriteArr(n) ==
    /\ n >= Advanced(tim).cnt \/ "arrbelow" \in TimerRude
    /\ Store(LAMBDA t : [t EXCEPT !.arr = n])

GenerateUpdate == Store(LAMBDA t : Flagged([t EXCEPT !.cnt = 0], {"u"}))

\* Mutant: an overrun is told when the channel was never read, or not.
LatchAlways(t) == Flagged([t EXCEPT !.ccr = t.cnt, !.sr = @ \cup {"o"}], {"c"})

Latch(t) == Flagged([t EXCEPT !.ccr = t.cnt, !.sr = IF "c" \in t.sr THEN @ \cup {"o"} ELSE @], {"c"})

\* capture_trigger: the page's edge does not let the timer catch up first.
Capture ==
    /\ "tim" \in Units /\ tim.capture
    /\ tim.on => Ticks(tim) = 0 \/ "stalecapture" \in TimerRude
    /\ tim' = Latch(tim)
    /\ ideal' = IF looks # "exact" THEN tim'
                ELSE [Flagged(ideal, {"c"}) EXCEPT !.ccr = ideal.cnt,
                                                   !.sr = @ \cup (IF "c" \in ideal.sr THEN {"o"} ELSE {})]
    /\ UNCHANGED <<wwdg, iwdg, rtc, resets, age, wrong, owed, looks, setTo>>

TakeIrq == tim.irq /\ Store(LAMBDA t : [t EXCEPT !.irq = FALSE])

\* One count of a timer that is looked at all the time (RM0090, as tim.rs:99 quotes it).
Moved(t) ==
    LET cnt == (IF t.mode = "down" THEN t.cnt - 1 ELSE t.cnt + 1) % (t.arr + 1)
        u == [t EXCEPT !.cnt = cnt, !.lag = 0]
        over == cnt = IF t.mode = "down" THEN t.arr ELSE 0
    IN  Flagged(u, (IF over THEN {"u"} ELSE {}) \cup Compared(u))

-----------------------------------------------------------------------------
(* The watchdogs.                                                            *)

Ask(dog) == resets' = [asked |-> TRUE, cause |-> resets.cause \cup {dog}]
Loaded(u, n) == age' = [age EXCEPT ![u] = [n |-> 0, from |-> n]]

\* The count of a watchdog that counts once in pre instructions.
TrueCount(u, pre) == age[u].from - (age[u].n \div pre)

\* Wwdg::tick_counter.
LookWwdg ==
    LET ticks == wwdg.lag \div wwdg.pre
        left == wwdg.cnt - ticks
    IN  /\ "wwdg" \in Units /\ ticks > 0
        /\ IF ~wwdg.started
           THEN wwdg' = [wwdg EXCEPT !.lag = 0] /\ UNCHANGED <<resets, age, wrong>>
           ELSE IF left < 0
           THEN /\ wwdg' = [wwdg EXCEPT !.cnt = Top, !.wdga = FALSE, !.ewif = TRUE, !.started = ~wwdg.wdga, !.lag = 0]
                /\ IF wwdg.wdga THEN Ask("wwdg") ELSE UNCHANGED resets
                /\ wrong' = (wrong \/ (wwdg.wdga /\ TrueCount("wwdg", wwdg.pre) >= 0))
                /\ Loaded("wwdg", Top)
           ELSE /\ wwdg' = [wwdg EXCEPT !.cnt = left, !.ewif = @ \/ (left <= Top \div 2 /\ wwdg.cnt > Top \div 2), !.lag = 0]
                /\ UNCHANGED <<resets, age, wrong>>
        /\ UNCHANGED <<tim, ideal, iwdg, rtc, owed, looks, setTo>>

\* CR: a refresh above the window is a reset.  The count is the one of the last look;
\* a careful program looks at SR first, or serves the watchdog at a tick.
WriteWwdgCr(wdga, n) ==
    LET early == wdga /\ wwdg.started /\ wwdg.cnt > wwdg.window IN
    /\ "wwdg" \in Units /\ (wwdg.started => wwdg.lag < wwdg.pre \/ "stalewindow" \in TimerRude)
    /\ wwdg' = [wwdg EXCEPT !.cnt = n, !.wdga = wdga, !.started = TRUE, !.lag = 0]
    /\ IF early THEN Ask("wwdg") ELSE UNCHANGED resets
    /\ wrong' = (wrong \/ (early /\ TrueCount("wwdg", 2 * wwdg.pre - 1) < wwdg.window))
    /\ Loaded("wwdg", n)
    /\ UNCHANGED <<tim, ideal, iwdg, rtc, owed, looks, setTo>>

WriteCfr(window, pre) ==
    /\ "wwdg" \in Units /\ (wwdg.started => pre = wwdg.pre \/ "prelive" \in TimerRude)
    /\ wwdg' = [wwdg EXCEPT !.window = window, !.pre = pre]
    /\ UNCHANGED <<tim, ideal, iwdg, rtc, resets, age, wrong, owed, looks, setTo>>

ClearEwif ==
    /\ wwdg.ewif /\ wwdg' = [wwdg EXCEPT !.ewif = FALSE]
    /\ UNCHANGED <<tim, ideal, iwdg, rtc, resets, age, wrong, owed, looks, setTo>>

\* Mutant: the counter is 1 where the period has one more count.
ExpiresSoon(cnt, ticks) == cnt <= ticks + 1
Expires(cnt, ticks) == cnt <= ticks

\* Iwdg::tick_counter: it stops with the reset it asks for.
LookIwdg ==
    LET ticks == iwdg.lag \div iwdg.pre IN
    /\ "iwdg" \in Units /\ iwdg.started /\ ticks > 0
    /\ IF Expires(iwdg.cnt, ticks)
       THEN /\ iwdg' = [iwdg EXCEPT !.cnt = iwdg.rlr, !.started = FALSE, !.lag = 0]
            /\ Ask("iwdg")
            /\ wrong' = (wrong \/ TrueCount("iwdg", iwdg.pre) > 0)
            /\ UNCHANGED age
       ELSE /\ iwdg' = [iwdg EXCEPT !.cnt = @ - ticks, !.lag = 0]
            /\ UNCHANGED <<resets, age, wrong>>
    /\ UNCHANGED <<tim, ideal, wwdg, rtc, owed, looks, setTo>>

\* KR: 0x5555 unlocks, 0xAAAA refreshes, 0xCCCC starts; each but the first locks.
WriteKr(key) ==
    /\ "iwdg" \in Units
    /\ IF key = "unlock"
       THEN iwdg' = [iwdg EXCEPT !.unlocked = TRUE] /\ UNCHANGED age
       ELSE /\ iwdg' = [iwdg EXCEPT !.unlocked = FALSE, !.cnt = iwdg.rlr, !.started = @ \/ key = "start", !.lag = 0]
            /\ Loaded("iwdg", iwdg.rlr)
    /\ UNCHANGED <<tim, ideal, wwdg, rtc, resets, wrong, owed, looks, setTo>>

\* PR: what elapsed is counted anew; the HAL writes it just after the start.
WritePr(pre) ==
    /\ "iwdg" \in Units /\ iwdg.unlocked
    /\ iwdg.started => (iwdg.lag < pre /\ iwdg.cnt = age["iwdg"].from) \/ "prelive" \in TimerRude
    /\ iwdg' = [iwdg EXCEPT !.pre = pre]
    /\ UNCHANGED <<tim, ideal, wwdg, rtc, resets, age, wrong, owed, looks, setTo>>

WriteRlr(n) ==
    /\ "iwdg" \in Units /\ iwdg.unlocked
    /\ iwdg' = [iwdg EXCEPT !.rlr = n]
    /\ UNCHANGED <<tim, ideal, wwdg, rtc, resets, age, wrong, owed, looks, setTo>>

\* is_watchdog_reset_requested, by the page.
TakeReset ==
    /\ resets.asked /\ resets' = [resets EXCEPT !.asked = FALSE]
    /\ UNCHANGED <<tim, ideal, wwdg, iwdg, rtc, age, wrong, owed, looks, setTo>>

\* RCC_CSR, RMVF: firmware clears the causes when it has started, and not before.
ClearFlags ==
    /\ resets.cause # {} /\ (resets.asked => "rmvf" \in TimerRude)
    /\ resets' = [resets EXCEPT !.cause = {}]
    /\ UNCHANGED <<tim, ideal, wwdg, iwdg, rtc, age, wrong, owed, looks, setTo>>

-----------------------------------------------------------------------------
(* The real-time clock.                                                      *)

\* bcd_add of 1: the field does not return to 0 when it carries.
BcdNext(a, max) ==
    LET low == (a % 16) + 1
        high == a \div 16 + (IF low > 9 THEN 1 ELSE 0)
    IN  [val |-> high * 16 + (IF low > 9 THEN low - 10 ELSE low), carry |-> a + 1 > max \/ high > (max \div 16)]

\* bcd_inc_tr, of fields of seven bits, and six for the hour.
BcdIncTr(t) ==
    LET s == BcdNext(t[3] % 128, 89)
        m == IF s.carry THEN BcdNext(t[2] % 128, 89) ELSE [val |-> t[2] % 128, carry |-> FALSE]
        h == IF m.carry THEN BcdNext(t[1] % 64, 35).val ELSE t[1] % 64
    IN  <<h, m.val, s.val>>

BcdMatch(t, alarm) == \A i \in 1..3 : alarm[i] = -1 \/ alarm[i] = t[i]
Due(r) == {a \in r.en : BcdMatch(r.time, r.alarm[a])}

\* Mutant: an alarm that is already told is told again.
CheckAlarmAll(r) == [r EXCEPT !.flag = @ \cup r.en]

\* check_alarm: a flag that is set hides the other alarm.
CheckAlarm(r) == IF r.en \cap r.flag = {} THEN [r EXCEPT !.flag = @ \cup Due(r)] ELSE r

Second(r) == CheckAlarm([r EXCEPT !.time = BcdIncTr(r.time)])

\* advance_time, with every read.  An alarm is owed for every second that passed.
LookRtc ==
    LET secs == rtc.lag \div SecondLen
        walk[n \in 0..secs] == IF n = 0 THEN rtc ELSE Second(walk[n - 1])
    IN  /\ "rtc" \in Units /\ ~rtc.hold /\ rtc.lag > Floor /\ secs > 0
        /\ rtc' = [walk[Least(secs, Cap)] EXCEPT !.lag = 0]
        /\ owed' = owed \cup UNION {Due(walk[n]) : n \in 1..secs}
        /\ looks' = IF secs > Cap THEN "lost" ELSE looks
        /\ UNCHANGED <<tim, ideal, wwdg, iwdg, resets, age, wrong, setTo>>

\* A store that looks at the alarms; a careful program makes none in a second that is
\* an alarm's, in which the flag comes up at once.
RtcStore(r, due) ==
    /\ "rtc" \in Units /\ (Due(r) \subseteq r.flag \/ "inside" \in TimerRude)
    /\ rtc' = CheckAlarm(r) /\ owed' = due
    /\ UNCHANGED <<tim, ideal, wwdg, iwdg, resets, age, wrong, looks, setTo>>

\* CR: a program uses one alarm, for the flag of one hides the other.
WriteRtcCr(en) ==
    /\ {"A", "B"} \subseteq en => "two" \in TimerRude
    /\ RtcStore([rtc EXCEPT !.en = en], owed)

WriteAlarm(a, at) == RtcStore([rtc EXCEPT !.alarm[a] = at], owed)

\* ISR: the whole word is the program's, the bit that holds the clock too.  What passes
\* while the clock is held is counted when it is let go.
WriteIsr(hold, flag) ==
    /\ flag \subseteq rtc.flag
    /\ RtcStore([rtc EXCEPT !.hold = hold, !.flag = flag], owed \cap flag)

\* TR: the clock keeps its phase, and no alarm is looked at.  Seconds that nobody has
\* looked at would be added to the new time: a careful program reads the clock first.
WriteTr(t) ==
    /\ "rtc" \in Units /\ (rtc.lag < SecondLen \/ "settime" \in TimerRude)
    /\ rtc' = [rtc EXCEPT !.time = t] /\ setTo' = t
    /\ age' = [age EXCEPT !["rtc"].n = IF rtc.lag < SecondLen THEN rtc.lag ELSE 0]
    /\ looks' = "exact" /\ owed' = IF looks = "exact" THEN owed ELSE rtc.flag
    /\ UNCHANGED <<tim, ideal, wwdg, iwdg, resets, wrong>>

-----------------------------------------------------------------------------
Older(u, running) == IF u \in Units /\ running THEN [age[u] EXCEPT !.n = @ + 1] ELSE age[u]
Later(lag, running) == IF running THEN lag + 1 ELSE lag

\* One instruction.
Pass ==
    /\ \A lag \in {tim.lag, wwdg.lag, iwdg.lag, rtc.lag} : lag < MaxLag
    /\ \A u \in DOMAIN age : age[u].n < MaxAge
    /\ tim' = [tim EXCEPT !.lag = Later(@, "tim" \in Units)]
    /\ ideal' = IF "tim" \notin Units \/ ~ideal.on THEN ideal
                ELSE IF looks # "exact" THEN tim'
                ELSE IF ideal.lag + 1 < Prescaler(ideal) THEN [ideal EXCEPT !.lag = @ + 1] ELSE Moved(ideal)
    /\ wwdg' = [wwdg EXCEPT !.lag = Later(@, "wwdg" \in Units)]
    /\ iwdg' = [iwdg EXCEPT !.lag = Later(@, "iwdg" \in Units)]
    /\ rtc' = [rtc EXCEPT !.lag = Later(@, "rtc" \in Units)]
    /\ age' = [u \in DOMAIN age |->
                Older(u, CASE u = "wwdg" -> wwdg.started [] u = "iwdg" -> iwdg.started
                           [] u = "tim" -> tim.on /\ Prescaler(tim) > 1 [] OTHER -> TRUE)]
    /\ UNCHANGED <<resets, wrong, owed, looks, setTo>>

Next ==
    \/ Pass
    \/ LookTim \/ GenerateUpdate \/ Capture \/ TakeIrq
    \/ \E b \in BOOLEAN : WriteCcer(b) \/ WriteCcmr(b) \/ \E mode \in Modes : WriteCr1(b, mode)
    \/ \E bits \in {{}, {"u"}, {"c"}} : WriteSr({"u", "c", "o"} \ bits) \/ WriteDier(bits)
    \/ \E n \in Values : WriteCcr(n) \/ WriteCnt(n) \/ WriteArr(n) \/ WriteRlr(n) \/ \E b \in BOOLEAN : WriteWwdgCr(b, n)
    \/ \E n \in Psc : WritePsc(n)
    \/ LookWwdg \/ ClearEwif
    \/ \E pre \in Prescalers : WritePr(pre) \/ \E n \in Values : WriteCfr(n, pre)
    \/ LookIwdg \/ \E key \in {"unlock", "refresh", "start"} : WriteKr(key)
    \/ TakeReset \/ ClearFlags
    \/ LookRtc
    \/ \E en \in SUBSET {"A", "B"} : WriteRtcCr(en) \/ \E hold \in BOOLEAN : WriteIsr(hold, en)
    \/ \E a \in {"A", "B"}, at \in Alarms : WriteAlarm(a, at)
    \/ \E t \in Times : WriteTr(t)

Spec == Init /\ [][Next]_stmTimerVars

-----------------------------------------------------------------------------
(* Properties.                                                               *)

\* What is counted lies between one and two periods of the prescaler per count: what is
\* looked at often is slow, and never fast.
Paced(counts, lag, pre, u) ==
    LET t == age[u].n - lag IN counts * pre <= t /\ (looks # "lost" => t <= counts * (2 * pre - 1))

\* Count, flags and request of the timer are those of one that is looked at with every
\* instruction, as long as no look came within a count or more than Cap counts late; then
\* it is slow by less than a count a look, or more, and never fast.
TimerKeepsTime ==
    LET a == Advanced(tim) IN
    /\ looks = "exact" /\ Ticks(tim) <= Cap =>
           a.cnt = ideal.cnt /\ a.sr = ideal.sr /\ a.irq = ideal.irq /\ a.ccr = ideal.ccr
    /\ tim.on /\ Prescaler(tim) > 1 => Paced(age["tim"].from, tim.lag, Prescaler(tim), "tim")

\* A watchdog asks for a reset only when its program is late, or early for its window.
DogsInTime ==
    /\ ~wrong
    /\ wwdg.started => Paced(age["wwdg"].from - wwdg.cnt, wwdg.lag, wwdg.pre, "wwdg")
    /\ iwdg.started => Paced(age["iwdg"].from - iwdg.cnt, iwdg.lag, iwdg.pre, "iwdg")

\* A reset that is asked for has a cause the next program can read.
CauseKept == resets.asked => resets.cause # {}

\* The time shown is the time set and the seconds since: it is slow by less than a second a
\* look, unless seconds beyond Cap are lost, and never fast.  A minute that ends is excepted.
ClockShown ==
    LET plain(second) == 10 * (second \div 16) + (second % 16)
        due == plain(setTo[3]) + (age["rtc"].n \div SecondLen)
    IN  "rtc" \in Units /\ due < 60 =>
            /\ rtc.time[1] = setTo[1] /\ rtc.time[2] = setTo[2]
            /\ Paced(plain(rtc.time[3]) - plain(setTo[3]), rtc.lag, SecondLen, "rtc")

\* An alarm is told if and only if a second came that matched it since it was cleared.
AlarmsTold == looks # "lost" => rtc.flag = owed

TimersAgree == TimerKeepsTime /\ DogsInTime /\ CauseKept /\ ClockShown /\ AlarmsTold

\* Looks lose nothing (refuted: the rest of a division is, and what exceeds Cap).
NothingDropped == looks = "exact"

\* What a read of CNT returns is the count: it is the one read that does not catch up.
CountCurrent == tim.cnt = ideal.cnt

\* After the last second of a minute comes the first of the next.
MinutesCarry == [][rtc'.time # rtc.time /\ rtc.time[3] = 89 /\ rtc'.lag < rtc.lag => rtc'.time[3] < 89]_stmTimerVars
=============================================================================
