------------------------------ MODULE RtcClock ------------------------------
(***************************************************************************)
(* The RTC (peripherals/ra_rtc.rs): a BCD time of day that catches up with   *)
(* the instruction count when the driver ticks it or firmware reads it, and  *)
(* an alarm.  The date, which the code never advances, and the registers     *)
(* that only retain are left out.  A BCD byte is a number, tens in its high   *)
(* four bits.                                                                *)
(***************************************************************************)
EXTENDS Integers

CONSTANTS
    Second,    \* instructions in a second
    Times,     \* times firmware sets: <<hour, minute, second>>, each BCD
    Alarms,    \* what firmware compares with: [sec, min, hour], each enabled or not
    MaxWait,   \* bound: instructions between two looks
    MaxSet     \* bound: seconds after the time was set

VARIABLES
    rtc,       \* START, AIE, the three counters and the alarm
    rtcLag,    \* instructions since last_tick
    due,       \* history: the seconds of the day it should be
    since,     \* history: instructions since that second began
    seconds,   \* history: seconds since the time was set
    owed       \* history: alarms that matched and were not raised

rtcVars == <<rtc, rtcLag, due, since, seconds, owed>>
Day == 24 * 3600
Off == -1    \* an alarm field that is not enabled
NoAlarm == [sec |-> Off, min |-> Off, hour |-> Off]

\* The number a BCD byte stands for.
Value(b) == (b \div 16) * 10 + (b % 16)

\* The digits of a number below top.
Bcd(top) == {b \in Nat : b % 16 < 10 /\ Value(b) < top}

RtcAssumption ==
    /\ Second \in Nat \ {0} /\ MaxWait \in Nat /\ MaxSet \in Nat
    /\ \A t \in Times : t[1] \in Bcd(24) /\ t[2] \in Bcd(60) /\ t[3] \in Bcd(60)

SecondOfDay(h, m, s) == Value(h) * 3600 + Value(m) * 60 + Value(s)

RtcInit ==
    /\ rtc = [run |-> FALSE, aie |-> FALSE, sec |-> 0, min |-> 0, hour |-> 0, alarm |-> NoAlarm]
    /\ rtcLag = 0 /\ due = 0 /\ since = 0 /\ seconds = 0 /\ owed = 0

-----------------------------------------------------------------------------

\* Mutant: the tens are not carried.
BumpedUnits(b, top) == IF Value(b) + 1 >= top THEN 0 ELSE b + 1

\* bump: the next value of a field, 0 for a carry.
Bumped(b, top) ==
    LET v == Value(b) + 1 IN IF v >= top THEN 0 ELSE (v \div 10) * 16 + (v % 10)

\* One second of advance.
NextSecond(u) ==
    LET s == Bumped(u.sec, 60)
        m == IF s = 0 THEN Bumped(u.min, 60) ELSE u.min
    IN  [u EXCEPT !.sec = s, !.min = m,
                  !.hour = IF s = 0 /\ m = 0 THEN Bumped(@, 24) ELSE @]

Matches(u) == \A f \in {"sec", "min", "hour"} : u.alarm[f] = Off \/ u.alarm[f] = u[f]

\* last_tick: what is short of a second is left for the next look.
Fraction(time) == time % Second

Advanced(u, time) ==
    LET walk[i \in 0..(time \div Second)] == IF i = 0 THEN u ELSE NextSecond(walk[i - 1])
    IN  IF u.run THEN walk[time \div Second] ELSE u

\* advance raises the alarm for the second it arrives at.
AlarmRises == rtc.run /\ rtc.aie /\ rtcLag >= Second /\ Matches(Advanced(rtc, rtcLag))

-----------------------------------------------------------------------------

\* One instruction.
RtcPass ==
    LET ends == rtc.run /\ since + 1 = Second IN
    /\ rtcLag < MaxWait /\ (ends => seconds < MaxSet)
    /\ rtcLag' = rtcLag + 1
    /\ since' = IF ends \/ ~rtc.run THEN 0 ELSE since + 1
    /\ due' = IF ends THEN (due + 1) % Day ELSE due
    /\ seconds' = IF ends THEN seconds + 1 ELSE seconds
    /\ owed' = IF ends /\ rtc.aie /\ Matches(Advanced(rtc, rtcLag + 1)) THEN owed + 1 ELSE owed
    /\ UNCHANGED rtc

\* tick, or a read of any register.
RtcLook ==
    /\ rtcLag > 0
    /\ rtc' = Advanced(rtc, rtcLag)
    /\ rtcLag' = Fraction(rtcLag)
    /\ owed' = IF AlarmRises THEN owed - 1 ELSE owed
    /\ UNCHANGED <<due, since, seconds>>

\* Firmware changes bits of a register it has just read, in the same second.
JustRead == rtc.run => rtcLag < Second

\* RCR2 restarts the second; its RESET strobe clears the time.
WriteRcr2(start, reset) ==
    /\ JustRead
    /\ rtc' = IF reset THEN [rtc EXCEPT !.run = start, !.sec = 0, !.min = 0, !.hour = 0]
              ELSE [rtc EXCEPT !.run = start]
    /\ rtcLag' = 0 /\ since' = 0
    /\ due' = IF reset THEN 0 ELSE due
    /\ UNCHANGED <<seconds, owed>>

\* Firmware sets the time of a clock it has stopped.
WriteTime(t) ==
    /\ ~rtc.run
    /\ rtc' = [rtc EXCEPT !.hour = t[1], !.min = t[2], !.sec = t[3]]
    /\ due' = SecondOfDay(t[1], t[2], t[3]) /\ seconds' = 0
    /\ UNCHANGED <<rtcLag, since, owed>>

WriteAlarm(a, aie) ==
    /\ JustRead /\ (rtc.alarm # a \/ rtc.aie # aie)
    /\ rtc' = [rtc EXCEPT !.alarm = a, !.aie = aie]
    /\ UNCHANGED <<rtcLag, due, since, seconds, owed>>

RtcNext ==
    \/ RtcPass \/ RtcLook
    \/ \E start, reset \in BOOLEAN : WriteRcr2(start, reset)
    \/ \E t \in Times : WriteTime(t)
    \/ \E a \in Alarms, aie \in BOOLEAN : WriteAlarm(a, aie)

RtcSpec == RtcInit /\ [][RtcNext]_rtcVars

-----------------------------------------------------------------------------
(* Properties.                                                               *)

RtcRegisters ==
    [run : BOOLEAN, aie : BOOLEAN, sec : Bcd(60), min : Bcd(60), hour : Bcd(24), alarm : Alarms \cup {NoAlarm}]

RtcTypeOK == rtc \in RtcRegisters /\ rtcLag \in 0..MaxWait

\* Whoever looks reads the time that was set and the seconds that have passed
\* since, in BCD digits and through every carry, however time is cut into ticks
\* and reads.
ClockKeepsTime ==
    LET u == Advanced(rtc, rtcLag) IN
    /\ SecondOfDay(u.hour, u.min, u.sec) = due
    /\ \A f \in {"sec", "min", "hour"} : u[f] % 16 < 10
    /\ rtc.run => Fraction(rtcLag) = since

\* While no more than a second passes between two looks, the alarm is raised
\* once for every second that matches.
AlarmTold == owed = IF AlarmRises THEN 1 ELSE 0

\* The alarm of a match that lasts is raised when it begins, and not again.
AlarmIsAnEdge == [][owed' < owed => ~Matches(rtc)]_rtcVars
=============================================================================
