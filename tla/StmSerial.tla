----------------------------- MODULE StmSerial -----------------------------
(***************************************************************************)
(* Serial and audio ports of the STM32 snapshot: the SPI controller (spi.rs) *)
(* with the taps a page puts on it (spi_tap.rs), the same tap driven bit by  *)
(* bit through pins (sw_spi.rs), a USART (usart.rs), and the ports that play *)
(* and record samples (i2s.rs, sai.rs).  A byte has Bits bits.  Left out:    *)
(* the WAV parser, the generator of samples and registers only kept.         *)
(***************************************************************************)
EXTENDS Integers, Sequences, SequencesExt

CONSTANTS
    Lines,      \* which of "spi", "soft", "uart", "audio" firmware uses
    Taps,       \* the pins that select the taps of the SPI controller
    Bits,       \* 8
    Values,     \* what the page and firmware send
    Ports,      \* the audio ports it uses, of "i2s", "sai"
    Samples,    \* the samples of the WAV file
    Backlog,    \* 64: rx_buf of the USART
    MaxQueue,   \* bound: what waits for the page
    MaxShift,   \* bound: bits of one selection
    SerialRude  \* what a careless program does: "stale", "both"

VARIABLES
    pin,       \* the pins: TRUE is high
    spi,       \* the SPI controller
    tap,       \* SPI_TAP_EVENTS and SPI_TAP_MISO, which all taps of a controller share
    soft,      \* the software SPI
    uart,      \* the USART
    audio,     \* AUDIO_SOURCE, AUDIO_CAPTURE and the audio ports
    nvic,      \* the interrupts that are pending
    seen       \* history: what the lines carried

serialVars == <<pin, spi, tap, soft, uart, audio, nvic, seen>>

Idle == (2 ^ Bits) - 1          \* 0xFF
Uses(what) == what \in Lines

SpiReset == [rx |-> 0, ready |-> FALSE, ie |-> FALSE]
SoftReset == [cs |-> FALSE, clk |-> FALSE, mosi |-> 0, miso |-> 0, out |-> 0, in |-> 0, index |-> 0]
UartReset == [buf |-> <<>>, rxne |-> FALSE, ore |-> FALSE, ie |-> {}]
I2sReset == {"rxne", "txe"}
SaiReset == {"freq"}

Init ==
    /\ pin = [p \in Taps \cup {"dc", "cs", "clk", "mosi"} |-> FALSE]
    /\ spi = SpiReset
    /\ tap = [events |-> <<>>, miso |-> <<>>]
    /\ soft = SoftReset /\ uart = UartReset
    /\ audio = [source |-> <<>>, cursor |-> 0, capture |-> <<>>, ie |-> [p \in Ports |-> {}],
                sr |-> [p \in Ports |-> IF p = "sai" THEN SaiReset ELSE I2sReset]]
    /\ nvic = {}
    /\ seen = [wire |-> <<>>, bits |-> <<>>, back |-> <<>>, replies |-> <<>>, heard |-> <<>>, missed |-> FALSE,
               handler |-> FALSE, played |-> [p \in Ports |-> <<>>], recorded |-> <<>>]

-----------------------------------------------------------------------------
(* The taps: an event is a byte with the level of D/C, or an edge of CS.     *)

Edge(low) == <<"cs", IF low THEN 1 ELSE 0, FALSE>>

\* spi_tap_push_byte: the mask of the queue takes the level of D/C away.
ByteEvent(v) == <<"byte", v, FALSE>>
OnWire(v) == <<"byte", v, pin["dc"]>>

Pushed(t, e) == [t EXCEPT !.events = Append(@, e)]
Reply(t) == IF t.miso = <<>> THEN Idle ELSE Head(t.miso)
Popped(t) == [t EXCEPT !.miso = IF @ = <<>> THEN @ ELSE Tail(@)]
Room(n) == Len(tap.events) + n <= MaxQueue

TakeEvents ==
    /\ tap.events # <<>>
    /\ tap' = [tap EXCEPT !.events = <<>>] /\ seen' = [seen EXCEPT !.wire = <<>>]
    /\ UNCHANGED <<pin, spi, soft, uart, audio, nvic>>

PushMiso(v) ==
    /\ Uses("spi") \/ Uses("soft")
    /\ Len(tap.miso) < MaxQueue
    /\ tap' = [tap EXCEPT !.miso = Append(@, v)]
    /\ UNCHANGED <<pin, spi, soft, uart, audio, nvic, seen>>

-----------------------------------------------------------------------------
(* The SPI controller.                                                       *)

\* The callback of a CS pin comes with every write.
WriteSelect(p, high) ==
    /\ Uses("spi") /\ Room(1)
    /\ pin' = [pin EXCEPT ![p] = high]
    /\ tap' = Pushed(tap, Edge(~high))
    /\ seen' = [seen EXCEPT !.wire = Append(@, Edge(~high))]
    /\ UNCHANGED <<spi, soft, uart, audio, nvic>>

WriteDc(high) ==
    /\ Uses("spi") /\ pin' = [pin EXCEPT !["dc"] = high]
    /\ UNCHANGED <<spi, tap, soft, uart, audio, nvic, seen>>

\* One exchange with the tap: written, then read.
Exchanged(t, v) == Popped(Pushed(t, ByteEvent(v)))

\* DR, written: a frame of 16 bits is two bytes, the upper one first; with no CS low
\* the line idles.
WriteDr(frame) ==
    /\ Uses("spi") /\ Room(Len(frame))
    /\ IF \A p \in Taps : pin[p]
       THEN spi' = [spi EXCEPT !.rx = Idle] /\ UNCHANGED <<tap, seen>>
       ELSE /\ spi' = [spi EXCEPT !.rx = IF Len(frame) = 1 THEN Reply(tap)
                                         ELSE (Reply(tap) * (Idle + 1)) + Reply(Popped(tap))]
            /\ tap' = IF Len(frame) = 1 THEN Exchanged(tap, frame[1]) ELSE Exchanged(Exchanged(tap, frame[1]), frame[2])
            /\ seen' = [seen EXCEPT !.wire = @ \o [i \in 1..Len(frame) |-> OnWire(frame[i])]]
    /\ UNCHANGED <<pin, soft, uart, audio, nvic>>

ReadDr ==
    /\ Uses("spi") /\ spi' = [spi EXCEPT !.rx = 0]
    /\ UNCHANGED <<pin, tap, soft, uart, audio, nvic, seen>>

\* SR: every read turns TXE and RXNE around.
ReadSr ==
    /\ Uses("spi") /\ spi' = [spi EXCEPT !.ready = ~@]
    /\ nvic' = IF spi.ie /\ ~spi.ready THEN nvic \cup {"spi"} ELSE nvic
    /\ UNCHANGED <<pin, tap, soft, uart, audio, seen>>

WriteCr2(ie) ==
    /\ Uses("spi") /\ spi' = [spi EXCEPT !.ie = ie]
    /\ nvic' = IF ie /\ spi.ready THEN nvic \cup {"spi"} ELSE nvic
    /\ UNCHANGED <<pin, tap, soft, uart, audio, seen>>

-----------------------------------------------------------------------------
(* SPI over pins: bits go out on MOSI, and are taken when CLK rises.         *)

TopBit(v) == v \div (2 ^ (Bits - 1))
Shifted(v) == (2 * v) % (2 ^ Bits)

\* Mutant: bits of a byte that CS cut short stay.
ResetNot(s) == s
Reset(s) == [s EXCEPT !.clk = FALSE, !.mosi = 0, !.miso = 0, !.out = 0, !.in = 0, !.index = 0]

\* write_cs.
WriteCs(high) ==
    /\ Uses("soft") /\ Room(1)
    /\ ~high /\ (pin["clk"] \/ pin["mosi"]) => "stale" \in SerialRude
    /\ pin' = [pin EXCEPT !["cs"] = high]
    /\ soft' = [(IF soft.cs /\ ~high THEN Reset(soft) ELSE soft) EXCEPT !.cs = high]
    /\ tap' = IF soft.cs # high THEN Pushed(tap, Edge(~high)) ELSE tap
    /\ seen' = [seen EXCEPT !.wire = IF pin["cs"] # high THEN Append(@, Edge(~high)) ELSE @,
                            !.bits = IF pin["cs"] # high THEN <<>> ELSE @, !.back = IF pin["cs"] # high THEN <<>> ELSE @,
                            !.replies = IF pin["cs"] # high THEN <<>> ELSE @]
    /\ UNCHANGED <<spi, uart, audio, nvic>>

WriteMosi(high) ==
    /\ Uses("soft") /\ pin' = [pin EXCEPT !["mosi"] = high]
    /\ soft' = IF soft.cs THEN soft ELSE [soft EXCEPT !.mosi = IF high THEN 1 ELSE 0]
    /\ UNCHANGED <<spi, tap, uart, audio, nvic, seen>>

\* The byte that ends with the last of these bits.
ByteOf(bits) == FoldLeft(LAMBDA v, b : 2 * v + b, 0, SubSeq(bits, Len(bits) - Bits + 1, Len(bits)))

\* write_clk, and the program that reads MISO after it: an answer is loaded with the last
\* bit of its byte.
WriteClk(high) ==
    LET rise == ~soft.cs /\ ~soft.clk /\ high
        out == Shifted(soft.out) + soft.mosi
        full == soft.index + 1 = Bits
        bits == Append(seen.bits, IF pin["mosi"] THEN 1 ELSE 0)
        real == ~pin["cs"] /\ ~pin["clk"] /\ high
        ends == Len(bits) % Bits = 0
    IN  /\ Uses("soft") /\ Room(1) /\ Len(seen.bits) < MaxShift
        /\ pin' = [pin EXCEPT !["clk"] = high]
        /\ soft' = IF ~rise THEN [soft EXCEPT !.clk = IF soft.cs THEN @ ELSE high]
                   ELSE [soft EXCEPT !.clk = TRUE, !.miso = TopBit(soft.in), !.out = out,
                                     !.in = IF full THEN Reply(tap) ELSE Shifted(soft.in), !.index = IF full THEN 0 ELSE @ + 1]
        /\ tap' = IF rise /\ full THEN Exchanged(tap, out) ELSE tap
        /\ seen' = IF ~real THEN seen
                   ELSE [seen EXCEPT !.bits = bits, !.back = Append(@, soft'.miso),
                                     !.replies = IF ends THEN Append(@, Reply(tap)) ELSE @,
                                     !.wire = IF ends THEN Append(@, <<"byte", ByteOf(bits), pin["dc"]>>) ELSE @]
        /\ UNCHANGED <<spi, uart, audio, nvic>>

-----------------------------------------------------------------------------
(* The USART.  TXE and TC are always set.                                    *)

Raised(u) == IF "txe" \in u.ie \/ ("rxne" \in u.ie /\ u.rxne) THEN nvic \cup {"uart"} ELSE nvic

\* Mutant: RXNE falls with the first byte that is read.
EmptiedFirst(u) == [u EXCEPT !.rxne = FALSE]
\* read_dr: RXNE falls with the last byte.
Emptied(u) == [u EXCEPT !.rxne = @ /\ u.buf # <<>>]

\* rx_byte.
RxByte(v) ==
    /\ Uses("uart") /\ Len(seen.heard) <= Backlog
    /\ uart' = IF Len(uart.buf) < Backlog THEN [uart EXCEPT !.buf = Append(@, v), !.rxne = TRUE] ELSE [uart EXCEPT !.ore = TRUE]
    /\ seen' = IF Len(seen.heard) < Backlog THEN [seen EXCEPT !.heard = Append(@, v)] ELSE [seen EXCEPT !.missed = TRUE]
    /\ nvic' = Raised(uart')
    /\ UNCHANGED <<pin, spi, tap, soft, audio>>

UartReadDr ==
    /\ uart.rxne
    /\ uart' = Emptied([uart EXCEPT !.buf = IF @ = <<>> THEN @ ELSE Tail(@)])
    /\ nvic' = Raised(uart')
    /\ seen' = [seen EXCEPT !.heard = Tail(@), !.handler = FALSE]
    /\ UNCHANGED <<pin, spi, tap, soft, audio>>

UartWriteDr ==
    /\ Uses("uart") /\ nvic' = Raised(uart)
    /\ UNCHANGED <<pin, spi, tap, soft, uart, audio, seen>>

WriteCr1(ie) ==
    /\ Uses("uart") /\ uart' = [uart EXCEPT !.ie = ie] /\ nvic' = Raised(uart')
    /\ UNCHANGED <<pin, spi, tap, soft, audio, seen>>

-----------------------------------------------------------------------------
(* Audio: one source and one recording for all ports.                        *)

LoadWav ==
    /\ Uses("audio") /\ audio' = [audio EXCEPT !.source = Samples, !.cursor = 0]
    /\ seen' = [seen EXCEPT !.played = [p \in Ports |-> <<>>]]
    /\ UNCHANGED <<pin, spi, tap, soft, uart, nvic>>

\* audio_clear.
ClearAudio ==
    /\ Uses("audio") /\ audio' = [audio EXCEPT !.source = <<>>, !.cursor = 0, !.capture = <<>>]
    /\ seen' = [seen EXCEPT !.played = [p \in Ports |-> <<>>], !.recorded = <<>>]
    /\ UNCHANGED <<pin, spi, tap, soft, uart, nvic>>

TakeCapture ==
    /\ audio.capture # <<>>
    /\ audio' = [audio EXCEPT !.capture = <<>>] /\ seen' = [seen EXCEPT !.recorded = <<>>]
    /\ UNCHANGED <<pin, spi, tap, soft, uart, nvic>>

\* Interrupts: I2S fires before it clears RXNE.
Told(p, sr) == IF sr \cap audio.ie[p] # {} THEN nvic \cup {p} ELSE nvic

\* DR, read: the next sample, or the generator's.
Play(p) ==
    LET more == audio.cursor < Len(audio.source) IN
    /\ p \in Ports /\ Uses("audio")
    /\ "both" \in SerialRude \/ \A q \in Ports \ {p} : seen.played[q] = <<>>
    /\ audio' = [audio EXCEPT !.cursor = IF more THEN @ + 1 ELSE @,
                              !.sr[p] = IF p = "sai" THEN {"freq"} ELSE (@ \cup {"txe"}) \ {"rxne"}]
    /\ nvic' = Told(p, IF p = "sai" THEN {"freq"} ELSE audio.sr[p] \cup {"txe"})
    /\ seen' = IF more THEN [seen EXCEPT !.played[p] = Append(@, audio.source[audio.cursor + 1])] ELSE seen
    /\ UNCHANGED <<pin, spi, tap, soft, uart>>

\* DR, written; SAI then shows OVRUDR, MUTEDET and CNRDY and no request.
Record(p, v) ==
    /\ p \in Ports /\ Uses("audio") /\ Len(audio.capture) < MaxQueue
    /\ audio' = [audio EXCEPT !.capture = Append(@, v),
                              !.sr[p] = IF p = "sai" THEN {"ovrudr", "mutedet", "cnrdy"} ELSE @ \cup {"txe", "rxne"}]
    /\ nvic' = Told(p, audio'.sr[p])
    /\ seen' = [seen EXCEPT !.recorded = Append(@, v)]
    /\ UNCHANGED <<pin, spi, tap, soft, uart>>

\* CR2 of I2S, IM of SAI, which looks at its flags no more.
WriteEnables(p, ie) ==
    /\ p \in Ports /\ Uses("audio")
    /\ audio' = [audio EXCEPT !.ie[p] = ie]
    /\ nvic' = IF p = "sai" \/ audio.sr[p] \cap ie = {} THEN nvic ELSE nvic \cup {p}
    /\ UNCHANGED <<pin, spi, tap, soft, uart, seen>>

\* CLRFR.
ClearFlags(flags) ==
    /\ "sai" \in Ports /\ Uses("audio")
    /\ audio' = [audio EXCEPT !.sr["sai"] = @ \ flags] /\ nvic' = Told("sai", audio'.sr["sai"])
    /\ UNCHANGED <<pin, spi, tap, soft, uart, seen>>

TakeIrq(i) ==
    /\ i \in nvic /\ nvic' = nvic \ {i}
    /\ seen' = IF i = "uart" THEN [seen EXCEPT !.handler = TRUE] ELSE seen
    /\ UNCHANGED <<pin, spi, tap, soft, uart, audio>>

-----------------------------------------------------------------------------
Next ==
    \/ TakeEvents \/ ReadDr \/ ReadSr \/ UartReadDr \/ UartWriteDr \/ LoadWav \/ ClearAudio \/ TakeCapture
    \/ \E v \in Values : PushMiso(v) \/ WriteDr(<<v>>) \/ RxByte(v) \/ \E p \in Ports : Record(p, v)
    \/ \E v, w \in Values : WriteDr(<<v, w>>)
    \/ \E high \in BOOLEAN :
        \/ WriteDc(high) \/ WriteCs(high) \/ WriteMosi(high) \/ WriteClk(high) \/ WriteCr2(high)
        \/ \E p \in Taps : WriteSelect(p, high)
    \/ \E ie \in SUBSET {"rxne", "txe"} : WriteCr1(ie)
    \/ \E p \in Ports :
        \/ Play(p)
        \/ \E ie \in {{}, {"rxne"}, {"txe", "freq"}} : WriteEnables(p, ie)
    \/ \E flags \in {{"ovrudr", "mutedet"}} : ClearFlags(flags)
    \/ \E i \in nvic : TakeIrq(i)

Spec == Init /\ [][Next]_serialVars

-----------------------------------------------------------------------------
(* Properties.                                                               *)

\* What waits for the page is what the lines carried, the bytes and the edges between
\* them; a byte that CS cut short is none, and leaves nothing for the next.
EventsTold ==
    /\ [i \in 1..Len(tap.events) |-> <<tap.events[i][1], tap.events[i][2]>>]
            = [i \in 1..Len(seen.wire) |-> <<seen.wire[i][1], seen.wire[i][2]>>]
    /\ ~soft.cs => soft.index = Len(seen.bits) % Bits

\* Over pins a program reads back each answer, from the first bit, one byte after the
\* byte it answers.
AnswersFollow ==
    \A k \in 1..Len(seen.back) :
        IF k <= Bits THEN seen.back[k] = 0
        ELSE seen.back[k] = (seen.replies[(k - 1) \div Bits] \div (2 ^ (Bits - 1 - ((k - 1) % Bits)))) % 2

\* The USART gives every byte it took, in order, says when it missed one, and a byte that
\* waits with its interrupt enabled has it pending, or its handler runs.
BytesHeard ==
    /\ uart.buf = seen.heard /\ (uart.rxne <=> seen.heard # <<>>)
    /\ seen.missed => uart.ore
    /\ uart.rxne /\ "rxne" \in uart.ie => "uart" \in nvic \/ seen.handler

\* A port plays the samples of the file one after the other, and what was recorded waits
\* in its order.
AudioFlows ==
    /\ audio.capture = seen.recorded
    /\ \A p \in Ports : seen.played[p] = <<>> \/ seen.played[p] = SubSeq(audio.source, 1, audio.cursor)

SerialAgrees == EventsTold /\ AnswersFollow /\ BytesHeard /\ AudioFlows

\* A byte tells the level of D/C it was sent with.
LevelTold == tap.events = seen.wire

\* An interrupt of I2S is told for a flag that is set.
FlagBehindIrq == \A p \in Ports \cap {"i2s"} : p \in nvic => audio.sr[p] \cap audio.ie[p] # {}

\* A program that waits for RXNE before it reads, or for FREQ before it writes, goes on.
PortsProceed ==
    /\ "i2s" \in Ports => "rxne" \in audio.sr["i2s"]
    /\ "sai" \in Ports => "freq" \in audio.sr["sai"]
=============================================================================
