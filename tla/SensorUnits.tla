----------------------------- MODULE SensorUnits ----------------------------
(***************************************************************************)
(* The analog units: touch sensing (RaCtsu of ra_ctsu.rs), the converters    *)
(* (RaAdc, RaDac and RaDac8 of ra_analog.rs), the comparator and the          *)
(* amplifiers (ra_opamp.rs).  A touch measurement ends with a later tick of   *)
(* the driver, a conversion at once.  What is measured comes from the page.   *)
(***************************************************************************)
EXTENDS Integers

CONSTANTS
    Sensors,      \* which of "touch", "adc", "compare" and "dac" firmware uses
    Sense,        \* touch channels
    Analog,       \* channels of the converters and the amplifiers
    Level,        \* what the page or firmware sets
    Default,      \* what a channel measures until then
    Ceiling,      \* 65535, the largest count of the touch counter
    Range14,      \* 2^14, the range of the converter
    SensorRude    \* what a careless driver does: "retarget", "powerlate", "reinit"

NoOrder == [rx |-> -1, tx |-> -1, mutual |-> FALSE]

VARIABLES
    touch,     \* CTSUCR0.STRT, CTSUCR1, CTSUMCH0 and 1, CTSUST.SOVF, the counter
    level,     \* the override of each touch channel or pair
    order,     \* history: the measurement firmware started and did not cancel
    ends,      \* history: CTSU_END events, modulo 2
    adc,       \* ADANSA and ADDR
    source,    \* the override of each analog channel
    sampled,   \* history: what each channel was when a scan last covered it
    acmp,      \* CMPCR, CMPMON and the two inputs
    amp,       \* AMPC and the inputs of the amplifiers
    dac        \* DADR of the 12-bit converter, DACS and DAM of the 8-bit one

touchVars == <<touch, level, order, ends>>
adcVars   == <<adc, source, sampled>>
compareVars == <<acmp, amp, dac>>
sensorVars == <<touchVars, adcVars, compareVars>>

Target == [rx : Sense, tx : Sense, mutual : BOOLEAN]

Init ==
    /\ touch = [strt |-> FALSE, pon |-> FALSE, running |-> FALSE, sovf |-> FALSE, sc |-> 0,
                at |-> [rx |-> 0, tx |-> 0, mutual |-> FALSE]]
    /\ level = [t \in Target |-> Default]
    /\ order = NoOrder /\ ends = 0
    /\ adc = [select |-> {}, addr |-> [c \in Analog |-> 0]]
    /\ source = [c \in Analog |-> Default] /\ sampled = [c \in Analog |-> 0]
    /\ acmp = [on |-> FALSE, mon |-> FALSE, p |-> 0, m |-> 0]
    /\ amp = [enabled |-> {}, input |-> [c \in Analog |-> 0]]
    /\ dac = [dadr |-> [c \in Analog |-> 0], dacs |-> [c \in Analog |-> 0], dam |-> {}]

-----------------------------------------------------------------------------
(* Touch sensing.                                                            *)

\* A single channel's count is looked up by the receiver alone.
Key(target) == IF target.mutual THEN target ELSE [target EXCEPT !.tx = 0]

Touched(t, o) ==
    /\ "touch" \in Sensors
    /\ touch' = t /\ order' = o
    /\ UNCHANGED <<level, ends, adcVars, compareVars>>

\* CTSUCR0.  INIT resets the block before STRT is looked at; the power is the one
\* set before, also where one store sets both.
WriteCtsucr0(init, strt) ==
    LET t == IF init THEN [touch EXCEPT !.running = FALSE, !.sovf = FALSE, !.sc = 0] ELSE touch
        starts == strt /\ ~touch.strt /\ touch.pon
    IN  /\ init /\ strt => ~touch.strt \/ "reinit" \in SensorRude
        /\ strt /\ ~touch.strt => touch.pon \/ "powerlate" \in SensorRude
        /\ Touched([t EXCEPT !.strt = strt, !.running = strt /\ (@ \/ starts)],
                   IF ~strt THEN NoOrder
                   ELSE IF ~touch.strt \/ init THEN touch.at ELSE order)

\* CTSUCR1 and the channels; a careful driver leaves them alone while it waits.
WriteTarget(pon, target) ==
    /\ touch.running => "retarget" \in SensorRude
    /\ Touched([touch EXCEPT !.pon = pon, !.at = target], order)

\* CTSUST: the overflow is cleared.
ClearSovf == touch.sovf /\ Touched([touch EXCEPT !.sovf = FALSE], order)

SetLevel(target, n) ==
    /\ "touch" \in Sensors /\ level' = [level EXCEPT ![Key(target)] = n]
    /\ UNCHANGED <<touch, order, ends, adcVars, compareVars>>

\* Mutant: the count of an overflow is cut to the counter's width.
CompletedCut(raw) == [touch EXCEPT !.running = FALSE, !.sovf = @ \/ raw > Ceiling, !.sc = raw % (Ceiling + 1)]

\* complete, for a channel or a pair that now has the count raw.
Completed(raw) ==
    [touch EXCEPT !.running = FALSE, !.sovf = @ \/ raw > Ceiling,
                  !.sc = IF raw > Ceiling THEN Ceiling ELSE raw]

TickCtsu ==
    /\ "touch" \in Sensors /\ touch.running
    /\ touch' = Completed(level[Key(touch.at)])
    /\ order' = NoOrder /\ ends' = 1 - ends
    /\ UNCHANGED <<level, adcVars, compareVars>>

-----------------------------------------------------------------------------
(* The converter.                                                            *)

\* No channel selected means the first.
Covered == IF adc.select = {} THEN {c \in Analog : c = 0} ELSE adc.select

\* ADST: the scan is over when the store returns.
WriteAdcsr ==
    /\ "adc" \in Sensors
    /\ adc' = [adc EXCEPT !.addr = [c \in Analog |-> IF c \in Covered THEN source[c] % Range14 ELSE adc.addr[c]]]
    /\ sampled' = [c \in Analog |-> IF c \in Covered THEN source[c] ELSE sampled[c]]
    /\ UNCHANGED <<source, touchVars, compareVars>>

WriteAdansa(select) ==
    /\ "adc" \in Sensors /\ adc' = [adc EXCEPT !.select = select]
    /\ UNCHANGED <<source, sampled, touchVars, compareVars>>

SetOverride(c, n) ==
    /\ "adc" \in Sensors /\ source' = [source EXCEPT ![c] = n]
    /\ UNCHANGED <<adc, sampled, touchVars, compareVars>>

\* ADDR is read as the word of two channels, which the bus shifts.
AdcRead(c) ==
    LET even == c - (c % 2)
        word == [half \in 0..1 |-> IF even + half \in Analog THEN adc.addr[even + half] ELSE 0]
    IN  word[c % 2]

-----------------------------------------------------------------------------
(* The comparator and the amplifiers.                                        *)

\* Mutant: moving the reference does not compare again.
EvaluatedLate(a) == IF a.m = acmp.m THEN [a EXCEPT !.mon = a.on /\ a.p > a.m] ELSE a

\* eval, after every store.
Evaluated(a) == [a EXCEPT !.mon = a.on /\ a.p > a.m]

WriteAcmplp(a) ==
    /\ "compare" \in Sensors /\ acmp' = Evaluated(a)
    /\ UNCHANGED <<amp, dac, touchVars, adcVars>>

WriteAmp(a) ==
    /\ "compare" \in Sensors /\ amp' = a
    /\ UNCHANGED <<acmp, dac, touchVars, adcVars>>

\* A read of the outputs: the word of a pair of channels carries only the first.
AmpOut(c) == IF c % 2 = 0 /\ c \in amp.enabled THEN amp.input[c] ELSE 0

-----------------------------------------------------------------------------
(* The digital-to-analog converters.                                         *)

WriteDac(d) ==
    /\ "dac" \in Sensors /\ dac' = d
    /\ UNCHANGED <<acmp, amp, touchVars, adcVars>>

\* A read of DADR: the bus asks for the word of both channels, which is the first's.
DadrRead(c) == IF c % 2 = 0 THEN dac.dadr[c] ELSE 0

\* output of the 8-bit converter, gated by its enable.
Output(c) == IF c \in dac.dam THEN dac.dacs[c] ELSE 0

-----------------------------------------------------------------------------
Next ==
    \/ \E init, strt \in BOOLEAN : WriteCtsucr0(init, strt)
    \/ \E pon \in BOOLEAN, target \in Target : WriteTarget(pon, target)
    \/ ClearSovf \/ TickCtsu
    \/ \E target \in Target, n \in Level : SetLevel(target, n)
    \/ WriteAdcsr
    \/ \E select \in SUBSET Analog : WriteAdansa(select)
    \/ \E c \in Analog, n \in Level : SetOverride(c, n) \/ WriteAcmplp([acmp EXCEPT !.p = n])
                                      \/ WriteAcmplp([acmp EXCEPT !.m = n])
                                      \/ WriteAmp([amp EXCEPT !.input[c] = n])
                                      \/ WriteDac([dac EXCEPT !.dadr[c] = n])
                                      \/ WriteDac([dac EXCEPT !.dacs[c] = n])
    \/ \E on \in BOOLEAN : WriteAcmplp([acmp EXCEPT !.on = on])
    \/ \E on \in SUBSET Analog : WriteAmp([amp EXCEPT !.enabled = on]) \/ WriteDac([dac EXCEPT !.dam = on])

Spec == Init /\ [][Next]_sensorVars

-----------------------------------------------------------------------------
(* Properties.                                                               *)

\* A measurement is under way exactly as long as firmware waits for one it
\* started: none is forgotten, none ends twice.
MeasuresWhatIsAsked == touch.running <=> order # NoOrder

\* What ends is what was started: the counter then holds the count of the channel
\* or pair firmware chose when it started, or the ceiling and the overflow flag.
EndOfMeasurement ==
    LET raw == level[Key(order)] IN
    ends' # ends => /\ order # NoOrder
                    /\ touch'.sc = IF raw > Ceiling THEN Ceiling ELSE raw
                    /\ raw > Ceiling => touch'.sovf

EndsMeasured == [][EndOfMeasurement]_sensorVars

\* The monitor shows the inputs as they are, and every channel's result what it
\* was when a scan last covered it, in fourteen bits, read as a word or as a halfword.
MonitorAgrees == acmp.mon <=> acmp.on /\ acmp.p > acmp.m
ResultsRead == \A c \in Analog : AdcRead(c) = sampled[c] % Range14

SensorsAgree == MeasuresWhatIsAsked /\ MonitorAgrees /\ ResultsRead

\* An enabled amplifier's output follows its input (ra_opamp.rs:5).
OutputsFollow == \A c \in amp.enabled : AmpOut(c) = amp.input[c]

\* A value written to the 12-bit converter reads back (ra_analog.rs:7).
DadrRetained == \A c \in Analog : DadrRead(c) = dac.dadr[c]
=============================================================================
