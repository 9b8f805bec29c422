------------------------------ MODULE UsbDevice -----------------------------
(***************************************************************************)
(* The USB function controller (peripherals/ra_usb.rs) between the driver,   *)
(* whose interrupt handler drains what arrives, and the virtual host         *)
(* (lib.rs), which may call between any two steps of the driver.  FIFO ports *)
(* select a pipe.  The setup registers, the pipe window's configuration and  *)
(* the retained control bits are left out.                                   *)
(***************************************************************************)
EXTENDS Integers, Sequences, FiniteSets

CONSTANTS
    Pipe,
    FifoPort,    \* CFIFO, D0FIFO, D1FIFO
    UsbByte,
    In, Out,     \* the pipes the driver writes, and those the host feeds
    HostCalls,   \* whether the host moves the device state
    Mps,         \* packet sizes PIPEMAXP is set to
    MaxQueued,   \* bound: bytes written and not collected, or received and not read
    UsbRude      \* what the driver or the host does against the protocol

VARIABLES
    sel,       \* the pipe each port selects, and whether it moves 16 bits
    mps,
    tx, rx,    \* the FIFO buffers of the pipes
    capture,   \* tx_capture: <<pipe, byte>>, for the host to collect
    brdy, bemp,
    dev,       \* device state: latched events, DVSQ, CTSQ, VBUS
    enb,       \* INTENB0
    irq,       \* USBFS_INT raised and not taken
    isr,       \* the handler: "off", "clear", "drain", and the pipes it saw ready
    wire,      \* history: bytes written per pipe, neither cleared nor collected
    before     \* history: DVSQ when the bus was last suspended

usbVars == <<sel, mps, tx, rx, capture, brdy, bemp, dev, enb, irq, isr, wire, before>>

Sources == {"brdy", "bemp", "dvst", "ctrt", "resm"}
DefaultMps == 2
None == -1

Init ==
    /\ sel = [f \in FifoPort |-> [pipe |-> 0, wide |-> FALSE]]
    /\ mps = [p \in Pipe |-> DefaultMps]
    /\ tx = [p \in Pipe |-> <<>>] /\ rx = [p \in Pipe |-> <<>>] /\ capture = <<>>
    /\ brdy = {} /\ bemp = {}
    /\ dev = [events |-> {}, dvsq |-> 0, prev |-> 0, ctsq |-> 0, vbsts |-> FALSE]
    /\ enb = {} /\ irq = FALSE /\ isr = [phase |-> "off", pipes |-> {}]
    /\ wire = [p \in Pipe |-> <<>>] /\ before = None

-----------------------------------------------------------------------------
\* raise_usb_int: what is latched and enabled; VBINT has no enable.
Requests(ready, empty, events) ==
    \/ "brdy" \in enb /\ ready # {}
    \/ "bemp" \in enb /\ empty # {}
    \/ (enb \cap {"ctrt", "dvst", "resm"}) \cap events # {}
    \/ "vbint" \in events

Raised(ready, empty) == irq \/ Requests(ready, empty, dev.events)

Packet(p) == mps[p]

\* The bytes a buffer ships on a port write: its full packets.
Ships(p, buffer) == (Len(buffer) \div Packet(p)) * Packet(p)
Tagged(p, bytes) == [i \in DOMAIN bytes |-> <<p, bytes[i]>>]

\* A FIFO write: bytes join the buffer, full packets leave it by themselves.
WriteFifo(f, bytes) ==
    LET p == sel[f].pipe
        buffer == tx[p] \o bytes
        n == Ships(p, buffer)
        shipped == IF n = 0 THEN {} ELSE {p}
    IN  /\ p \in In /\ Len(wire[p]) + Len(bytes) <= MaxQueued
        /\ Len(bytes) = 2 => sel[f].wide
        /\ tx' = [tx EXCEPT ![p] = SubSeq(buffer, n + 1, Len(buffer))]
        /\ capture' = capture \o Tagged(p, SubSeq(buffer, 1, n))
        /\ brdy' = brdy \cup shipped /\ bemp' = bemp \cup shipped
        /\ irq' = (irq \/ (p \in bemp' /\ Requests(brdy', bemp', dev.events)))
        /\ wire' = [wire EXCEPT ![p] = @ \o bytes]
        /\ UNCHANGED <<sel, mps, rx, dev, enb, isr, before>>

\* Mutant: the buffer of a short packet is not emptied.
FinalizedKept(p) == tx

Finalized(p) == [tx EXCEPT ![p] = <<>>]

\* FIFOCTR: BVAL ends a short packet, or one of no bytes.
WriteBval(f) ==
    LET p == sel[f].pipe IN
    /\ capture' = capture \o Tagged(p, tx[p])
    /\ tx' = Finalized(p)
    /\ brdy' = brdy \cup {p} /\ bemp' = bemp \cup {p}
    /\ irq' = Raised(brdy', bemp')
    /\ UNCHANGED <<sel, mps, rx, dev, enb, isr, wire, before>>

\* FIFOCTR: BCLR drops both directions.
WriteBclr(f) ==
    LET p == sel[f].pipe IN
    /\ tx' = [tx EXCEPT ![p] = <<>>] /\ rx' = [rx EXCEPT ![p] = <<>>]
    /\ wire' = [wire EXCEPT ![p] = SubSeq(@, 1, Len(@) - Len(tx[p]))]
    /\ UNCHANGED <<sel, mps, capture, brdy, bemp, dev, enb, irq, isr, before>>

\* How many bytes a read of the port takes.
Taken(f) == IF sel[f].wide THEN 2 ELSE 1

ReadFifo(f) ==
    LET p == sel[f].pipe
        n == IF Taken(f) > Len(rx[p]) THEN Len(rx[p]) ELSE Taken(f)
    IN  /\ isr.phase = "drain" /\ p \in isr.pipes /\ rx[p] # <<>>
        /\ rx' = [rx EXCEPT ![p] = SubSeq(@, n + 1, Len(@))]
        /\ UNCHANGED <<sel, mps, tx, capture, brdy, bemp, dev, enb, irq, isr, wire, before>>

WriteFifosel(f, p, wide) ==
    /\ sel' = [sel EXCEPT ![f] = [pipe |-> p, wide |-> wide]]
    /\ UNCHANGED <<mps, tx, rx, capture, brdy, bemp, dev, enb, irq, isr, wire, before>>

WritePipemaxp(p, size) ==
    /\ tx[p] = <<>>
    /\ mps' = [mps EXCEPT ![p] = size]
    /\ UNCHANGED <<sel, tx, rx, capture, brdy, bemp, dev, enb, irq, isr, wire, before>>

\* INTENB0: enabling raises nothing by itself.
WriteIntenb0(set) ==
    /\ "late" \in UsbRude \/ (enb = {} /\ brdy = {} /\ bemp = {} /\ dev.events = {})
    /\ enb' = set
    /\ UNCHANGED <<sel, mps, tx, rx, capture, brdy, bemp, dev, irq, isr, wire, before>>

\* DCPCTR with CCPL: the status stage completes as BEMP of pipe 0.
WriteCcpl ==
    /\ bemp' = bemp \cup {0}
    /\ irq' = Raised(brdy, bemp')
    /\ UNCHANGED <<sel, mps, tx, rx, capture, brdy, dev, enb, isr, wire, before>>

-----------------------------------------------------------------------------
(* The interrupt handler: it notes and clears the pipes that are ready,      *)
(* then drains them.  "drain" in UsbRude turns the two round.                *)

First == IF "drain" \in UsbRude THEN "drain" ELSE "clear"
Second == IF "drain" \in UsbRude THEN "clear" ELSE "drain"

IsrEnter ==
    /\ irq /\ isr.phase = "off"
    /\ irq' = FALSE
    /\ isr' = [phase |-> First, pipes |-> brdy]
    /\ UNCHANGED <<sel, mps, tx, rx, capture, brdy, bemp, dev, enb, wire, before>>

\* A status register written: what is written 0 is cleared.
Kept(flags, written) == flags \ written

IsrClear ==
    /\ isr.phase = "clear"
    /\ brdy' = Kept(brdy, isr.pipes) /\ bemp' = {}
    /\ dev' = [dev EXCEPT !.events = {}]
    /\ isr' = IF Second = "clear" THEN [phase |-> "off", pipes |-> {}] ELSE [isr EXCEPT !.phase = Second]
    /\ UNCHANGED <<sel, mps, tx, rx, capture, enb, irq, wire, before>>

IsrDrained ==
    /\ isr.phase = "drain" /\ \A p \in isr.pipes : rx[p] = <<>>
    /\ isr' = IF Second = "drain" THEN [phase |-> "off", pipes |-> {}] ELSE [isr EXCEPT !.phase = Second]
    /\ UNCHANGED <<sel, mps, tx, rx, capture, brdy, bemp, dev, enb, irq, wire, before>>

-----------------------------------------------------------------------------
(* The virtual host.  What it does to the device state always raises.        *)

RxInject(p, bytes) ==
    /\ Len(rx[p]) + Len(bytes) <= MaxQueued
    /\ rx' = [rx EXCEPT ![p] = @ \o bytes]
    /\ brdy' = brdy \cup {p}
    /\ irq' = Raised(brdy', bemp)
    /\ UNCHANGED <<sel, mps, tx, capture, bemp, dev, enb, isr, wire, before>>

HostTakes ==
    /\ capture # <<>>
    /\ capture' = <<>>
    /\ wire' = [p \in Pipe |-> LET n == Len(SelectSeq(capture, LAMBDA b : b[1] = p))
                               IN SubSeq(wire[p], n + 1, Len(wire[p]))]
    /\ UNCHANGED <<sel, mps, tx, rx, brdy, bemp, dev, enb, irq, isr, before>>

HostMoves(state) ==
    /\ dev' = state /\ irq' = TRUE
    /\ UNCHANGED <<sel, mps, tx, rx, capture, brdy, bemp, enb, isr, wire>>

Latches(event) == dev.events \cup {event}
Suspended == dev.dvsq >= 4

HostAttach == HostMoves([dev EXCEPT !.events = Latches("vbint"), !.vbsts = TRUE]) /\ UNCHANGED before

HostReset ==
    /\ HostMoves([dev EXCEPT !.events = Latches("dvst"), !.dvsq = 1])
    /\ before' = None

HostSetup == HostMoves([dev EXCEPT !.events = Latches("ctrt"), !.ctsq = 1]) /\ UNCHANGED before
HostStatusDone == HostMoves([dev EXCEPT !.events = Latches("ctrt"), !.ctsq = 0]) /\ UNCHANGED before

SuspendState(dvsq) == 4 + (dvsq % 4)

HostSuspend ==
    /\ ~Suspended \/ "twice" \in UsbRude
    /\ HostMoves([dev EXCEPT !.events = Latches("dvst"), !.prev = dev.dvsq, !.dvsq = SuspendState(@)])
    /\ before' = IF Suspended THEN before ELSE dev.dvsq

\* Mutant: the sub-state survives, not the state before.
RestoredState(state) == SuspendState(state.prev)

Restored(state) == state.prev

HostResume ==
    /\ before # None
    /\ HostMoves([dev EXCEPT !.events = Latches("resm") \cup {"dvst"}, !.dvsq = Restored(dev)])
    /\ before' = None

-----------------------------------------------------------------------------
Strings == {<<b>> : b \in UsbByte} \cup {<<a, b>> : a, b \in UsbByte}

Driver ==
    \/ \E f \in FifoPort :
        \/ \E bytes \in Strings : WriteFifo(f, bytes)
        \/ WriteBval(f) \/ WriteBclr(f) \/ ReadFifo(f)
        \/ \E p \in Pipe, wide \in BOOLEAN : WriteFifosel(f, p, wide)
    \/ \E p \in Pipe, size \in Mps : WritePipemaxp(p, size)
    \/ \E set \in {Sources, {"brdy"}} : WriteIntenb0(set)
    \/ WriteCcpl \/ IsrEnter \/ IsrClear \/ IsrDrained

HostStep ==
    \/ \E p \in Out, bytes \in Strings : RxInject(p, bytes)
    \/ HostTakes
    \/ HostCalls /\ (HostAttach \/ HostReset \/ HostSetup \/ HostStatusDone \/ HostSuspend \/ HostResume)

Next == Driver \/ HostStep

Spec == Init /\ [][Next]_usbVars

-----------------------------------------------------------------------------
(* Properties.                                                               *)

TypeOK ==
    /\ \A f \in FifoPort : sel[f].pipe \in Pipe
    /\ brdy \subseteq Pipe /\ bemp \subseteq Pipe /\ dev.dvsq \in 0..7
    /\ \A p \in Pipe : Len(tx[p]) < mps[p]

\* The bytes the driver writes for a pipe reach the host in order and once, each
\* as soon as its packet is full or ended.
TxExact ==
    \A p \in Pipe :
        [i \in DOMAIN SelectSeq(capture, LAMBDA b : b[1] = p) |->
            SelectSeq(capture, LAMBDA b : b[1] = p)[i][2]] \o tx[p] = wire[p]

\* Bytes that have arrived are never without somebody to read them: the pipe is
\* ready and the interrupt raised, or the handler has them before it.
RxNoticed ==
    "brdy" \in enb => \A p \in Pipe :
        rx[p] # <<>> => \/ irq /\ p \in brdy
                        \/ isr.phase # "off" /\ p \in isr.pipes

\* Resume brings back the state the bus was suspended in.
ResumeRestores == [][HostResume => dev'.dvsq = before]_usbVars
=============================================================================
