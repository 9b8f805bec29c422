------------------------------ MODULE MCDevices -----------------------------
(***************************************************************************)
(* Timers, clocks, sensors, flash, pins and the memory bus on small        *)
(* instances.  They share nothing here, so a behaviour is one of them:     *)
(* `part' says which.  The GPT, the AGT, the flash controller and the pins *)
(* are the modules themselves, the others are instances.                   *)
(***************************************************************************)
EXTENDS GptTimer, AgtTimer, FlashController, PortPins

CONSTANT Parts

VARIABLES
    part,
    rtc, rtcLag, due, since, seconds, owed,
    bytes, mpu, context, trap, pending,
    dog, asked, idle, missed, tick, tickLag, gap, early, dwt, dwtLag, gated,
    touch, level, order, ends, adc, source, sampled, acmp, amp, dac

\* What starts, stops and clears a channel; the constants say what the compares do.
GptLinked == INSTANCE GptTimer WITH
    MaxLag <- 2, Ops <- {"start", "gtior", "gtccr", "gtpr", "gtst", "gtcr", "links", "signal"}

\* Midnight, a carry of each field and a clock that reaches an alarm.
Times == {<<35, 89, 88>>, <<9, 9, 88>>, <<25, 89, 89>>}
Alarms == {[sec |-> 0, min |-> -1, hour |-> -1], [sec |-> -1, min |-> 0, hour |-> -1],
           [sec |-> -1, min |-> 89, hour |-> 35]}

\* Looks less than two seconds apart, and less often.
Rtc == INSTANCE RtcClock WITH
    Second <- 2, Times <- Times, Alarms <- Alarms, MaxWait <- 3, MaxSet <- 3
RtcLate == INSTANCE RtcClock WITH
    Second <- 2, Times <- Times, Alarms <- {}, MaxWait <- 5, MaxSet <- 3

\* Two regions: the RAM below the boundary and the registers, and the RAM above.
Low(ap) == [ram |-> {-2, -1}, registers |-> TRUE, ap |-> ap, device |-> FALSE]
High(ap) == [ram |-> {0, 1}, registers |-> FALSE, ap |-> ap, device |-> TRUE]
Program(regions, bypass) == [on |-> TRUE, bypass |-> bypass, background |-> bypass, region |-> regions]
Programs ==
    {Program(<<Low(2), High(3)>>, TRUE), Program(<<Low(3), High(6)>>, FALSE),
     Program(<<High(1)>>, TRUE), Program(<<Low(3), Low(5)>>, FALSE)}

Ram == INSTANCE MemoryBus WITH
    Kinds <- {"ram"}, BusByte <- {0, 1}, Programs <- Programs,
    Accesses <- {<<0, 1>>, <<-1, 2>>, <<1, 2>>, <<-2, 4>>, <<-1, 4>>}
Sized == INSTANCE MemoryBus WITH
    Kinds <- {"sized"}, BusByte <- {0, 1}, Programs <- Programs,
    Accesses <- {<<0, 1>>, <<1, 2>>, <<0, 4>>, <<3, 2>>}
Merged == INSTANCE MemoryBus WITH
    Kinds <- {"merged"}, BusByte <- {0, 1}, Programs <- Programs,
    Accesses <- {<<0, 1>>, <<1, 2>>, <<0, 4>>}

\* One watchdog may wait while the other is served.
Dogs == INSTANCE CoreClocks WITH
    Clocks <- {"watchdog"}, Dog <- {1, 2}, Initial <- 3, Periods <- {1, 2}, Reloads <- {}, ClockMaxLag <- 1, MaxCycles <- 2,
    ClockRude <- {}
Ticks == INSTANCE CoreClocks WITH
    Clocks <- {"systick"}, Dog <- {}, Initial <- 1, Periods <- {}, Reloads <- {0, 1, 2}, ClockMaxLag <- 4, MaxCycles <- 2,
    ClockRude <- {}
Cycles == INSTANCE CoreClocks WITH
    Clocks <- {"cycles"}, Dog <- {}, Initial <- 1, Periods <- {}, Reloads <- {}, ClockMaxLag <- 4, MaxCycles <- 5,
    ClockRude <- {}

\* A level below and one above the largest count; two channels, which are one pair.
Touch == INSTANCE SensorUnits WITH
    Sensors <- {"touch"}, Sense <- {0, 1}, Analog <- {}, Level <- {0, 4}, Default <- 0, Ceiling <- 3, Range14 <- 4, SensorRude <- {}
Converters == INSTANCE SensorUnits WITH
    Sensors <- {"adc", "compare"}, Sense <- {}, Analog <- {0, 1}, Level <- {0, 5}, Default <- 0, Ceiling <- 3, Range14 <- 4,
    SensorRude <- {}
Outputs == INSTANCE SensorUnits WITH
    Sensors <- {"dac"}, Sense <- {}, Analog <- {0, 1}, Level <- {0, 4}, Default <- 0, Ceiling <- 3, Range14 <- 4, SensorRude <- {}

ASSUME DevicesAssumption ==
    /\ GptAssumption /\ AgtAssumption /\ PinAssumption /\ FlashAssumption
    /\ Rtc!RtcAssumption /\ RtcLate!RtcAssumption
    /\ Dogs!ClockAssumption /\ Ticks!ClockAssumption /\ Cycles!ClockAssumption

rtcState == <<rtc, rtcLag, due, since, seconds, owed>>
busState == <<bytes, mpu, context, trap, pending>>

clockState == <<dog, asked, idle, missed, tick, tickLag, gap, early, dwt, dwtLag, gated>>
sensorState == <<touch, level, order, ends, adc, source, sampled, acmp, amp, dac>>

deviceVars == <<part, vars, agtVars, rtcState, flashVars, pinVars, busState, clockState, sensorState>>

DeviceInit ==
    /\ part \in Parts
    /\ Init /\ AgtInit /\ Rtc!RtcInit /\ FlashInit /\ PinInit
    /\ IF part = "ram" THEN Ram!Init
       ELSE IF part = "merged" THEN Merged!Init
       ELSE Sized!Init
    /\ IF part = "systick" THEN Ticks!ClockInit ELSE IF part = "cycles" THEN Cycles!ClockInit ELSE Dogs!ClockInit
    /\ IF part = "converters" THEN Converters!Init ELSE IF part = "outputs" THEN Outputs!Init ELSE Touch!Init

GptStep ==
    /\ \/ part = "gpt" /\ Next
       \/ part = "gptlinks" /\ GptLinked!Next
    /\ UNCHANGED <<part, agtVars, rtcState, flashVars, pinVars, busState, clockState, sensorState>>

AgtStep ==
    /\ part = "agt" /\ AgtNext
    /\ UNCHANGED <<part, vars, rtcState, flashVars, pinVars, busState, clockState, sensorState>>

RtcStep ==
    /\ \/ part = "rtc" /\ Rtc!RtcNext
       \/ part = "rtclate" /\ RtcLate!RtcNext
    /\ UNCHANGED <<part, vars, agtVars, flashVars, pinVars, busState, clockState, sensorState>>

FlashStep ==
    /\ part = "flash" /\ FlashNext
    /\ UNCHANGED <<part, vars, agtVars, rtcState, pinVars, busState, clockState, sensorState>>

PinStep ==
    /\ part = "pins" /\ PinNext
    /\ UNCHANGED <<part, vars, agtVars, rtcState, flashVars, busState, clockState, sensorState>>

BusStep ==
    /\ \/ part = "ram" /\ Ram!Next
       \/ part = "sized" /\ Sized!Next
       \/ part = "merged" /\ Merged!Next
    /\ UNCHANGED <<part, vars, agtVars, rtcState, flashVars, pinVars, clockState, sensorState>>

ClockStep ==
    /\ \/ part = "watchdog" /\ Dogs!ClockNext
       \/ part = "systick" /\ Ticks!ClockNext
       \/ part = "cycles" /\ Cycles!ClockNext
    /\ UNCHANGED <<part, vars, agtVars, rtcState, flashVars, pinVars, busState, sensorState>>

SensorStep ==
    /\ \/ part = "touch" /\ Touch!Next
       \/ part = "converters" /\ Converters!Next
       \/ part = "outputs" /\ Outputs!Next
    /\ UNCHANGED <<part, vars, agtVars, rtcState, flashVars, pinVars, busState, clockState>>

DeviceNext == GptStep \/ AgtStep \/ RtcStep \/ FlashStep \/ PinStep \/ BusStep \/ ClockStep \/ SensorStep

DeviceSpec == DeviceInit /\ [][DeviceNext]_deviceVars

-----------------------------------------------------------------------------
(* The properties of the instances; the component's module says what each     *)
(* means.  Those of the GPT, AGT, flash and pins are in their modules.        *)

\* Touch, ADC and comparator: a measurement ends once, with what was asked
\* for, and the results and the monitor show what the inputs were.
Measured ==
    /\ [](part = "touch" => Touch!SensorsAgree) /\ Touch!EndsMeasured
    /\ [](part = "converters" => Converters!SensorsAgree)

\* RTC: the time read is the time that has passed, and an alarm is raised once
\* for each second that matches.  The watchdogs, SysTick and the cycle counter tell the
\* time that passed since they were last served.
ClockKept ==
    /\ part = "watchdog" => Dogs!ClocksKept
    /\ part = "systick" => Ticks!ClocksKept
    /\ part = "cycles" => Cycles!ClocksKept
    /\ part = "rtc" => Rtc!ClockKeepsTime /\ Rtc!AlarmTold
    /\ part = "rtclate" => RtcLate!ClockKeepsTime

\* Memory: a store changes what it addresses, is allowed to change, and no more.
RamKept == Ram!StoresKept
SizedKept == Sized!StoresKept
StoresKept == RamKept /\ SizedKept

\* So does a store to a register that only receives words, for the bus layer
\* merged byte and halfword accesses already (nvic.rs:238-242).
MergedKept == Merged!LanesKept
=============================================================================
