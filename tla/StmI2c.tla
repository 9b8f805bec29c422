------------------------------- MODULE StmI2c -------------------------------
(***************************************************************************)
(* An I2C controller of the STM32 snapshot (i2c.rs) with the devices the     *)
(* page can put on its bus: an EEPROM, a register file and a tap, whose      *)
(* bytes are the page's (ext_devices/).  Left out: the status bits nothing   *)
(* sets, and the devices of other buses.                                     *)
(***************************************************************************)
EXTENDS Integers, Sequences, SequencesExt

CONSTANTS
    Devices,    \* which of "eeprom", "regfile" and "tap" are on the bus
    Span,       \* the size of a device
    Wide,       \* whether the EEPROM wants two address bytes
    Bytes,      \* what the bus carries
    MaxQueue,   \* bound: the events and bytes that wait for the page and from it
    I2cRude     \* what a careless program or page does: "current", "pageset", "tapread"

VARIABLES
    i2c,        \* the registers and the state of the controller
    dev,        \* the devices
    toPage,     \* I2C_TAP_TX
    fromPage,   \* I2C_TAP_RX
    at,         \* history: the address of a device the next byte on the wire belongs to
    mirror,     \* history: what a device holds, as the wire had it
    pushed,     \* history: what the page pushed and no program has read
    ahead,      \* history: a byte was fetched that no program has read
    wrong       \* history: a program read another byte than the wire would have carried

i2cVars == <<i2c, dev, toPage, fromPage, at, mirror, pushed, ahead, wrong>>

Stores == Devices \ {"tap"}
Blank == [a \in 0..(Span - 1) |-> 0]
Reset(c) == [c EXCEPT !.sr1 = {}, !.busy = FALSE, !.dr = 0, !.device = "none", !.state = "idle", !.armed = FALSE]

\* A memory at power-on: it waits for the first byte of an address.
StoreReset == [mem |-> Blank, ptr |-> 0, address |-> TRUE, got |-> <<>>]

Init ==
    /\ i2c = [state |-> "idle", reads |-> FALSE, device |-> "none", sr1 |-> {}, busy |-> FALSE, dr |-> 0,
              armed |-> FALSE, pe |-> FALSE, ie |-> {}, irq |-> {}]
    /\ dev = [d \in Stores |-> StoreReset]
    /\ toPage = <<>> /\ fromPage = <<>>
    /\ at = [d \in Stores |-> 0] /\ mirror = [d \in Stores |-> Blank]
    /\ pushed = <<>> /\ ahead = FALSE /\ wrong = FALSE

-----------------------------------------------------------------------------
(* The devices.                                                              *)

Next1(a) == (a + 1) % Span

\* Mutant: the pointer stays when the last byte of a page is reached.
NextStuck(a) == IF a = Span - 1 THEN a ELSE a + 1
NextAddress(a) == Next1(a)

\* The address bytes: the high one counts halves of the device here.
Width(d) == IF d = "eeprom" /\ Wide THEN 2 ELSE 1
AddressOf(bytes) == (IF Len(bytes) = 2 THEN bytes[1] * (Span \div 2) + bytes[2] ELSE bytes[1]) % Span

\* reset, with every match of the address: the phase, and not the pointer.
Rearmed(s) == [s EXCEPT !.address = TRUE, !.got = <<>>]

\* write: first the address, then data.
Written(d, s, b) ==
    LET got == Append(s.got, b) IN
    IF ~s.address THEN [s EXCEPT !.mem[s.ptr] = b, !.ptr = NextAddress(@)]
    ELSE IF Len(got) >= Width(d) THEN [s EXCEPT !.got = got, !.ptr = AddressOf(got), !.address = FALSE]
    ELSE [s EXCEPT !.got = got]

\* read, of a device or of the tap's queue: an empty one reads 0xFF.
Fetched(s) == [s EXCEPT !.address = FALSE, !.ptr = NextAddress(@)]
TapByte == IF fromPage = <<>> THEN 255 ELSE Head(fromPage)

\* A read by the controller: the byte it puts in DR.
Fetch(d, s) ==
    IF d = "tap"
    THEN fromPage' = (IF fromPage = <<>> THEN <<>> ELSE Tail(fromPage)) /\ UNCHANGED dev
    ELSE dev' = [dev EXCEPT ![d] = Fetched(s)] /\ UNCHANGED fromPage
ByteOf(d, s) == IF d = "tap" THEN TapByte ELSE s.mem[s.ptr]

-----------------------------------------------------------------------------
(* The controller.                                                           *)

Events == {"sb", "addr"}
Buffers == {"rxne", "txe"}

\* fire_interrupts.
Fired(c) ==
    [c EXCEPT !.irq = @ \cup (IF (c.sr1 \cap Events # {} /\ "ev" \in c.ie) \/ (c.sr1 \cap Buffers # {} /\ "buf" \in c.ie)
                              THEN {"ev"} ELSE {})
                        \cup (IF "af" \in c.sr1 /\ "err" \in c.ie THEN {"er"} ELSE {})]

Tell(e) == Len(toPage) < MaxQueue /\ toPage' = Append(toPage, e)

\* CR1, START: a repeated start keeps the device's pointer.
Start ==
    /\ i2c.pe
    /\ i2c' = Fired([i2c EXCEPT !.state = "start", !.sr1 = {"sb"}, !.busy = TRUE, !.device = "none"])
    /\ Tell("start") /\ ahead' = FALSE
    /\ UNCHANGED <<dev, fromPage, at, mirror, pushed, wrong>>

\* CR1, STOP: after an address that nobody answered nothing is reset.
Stop ==
    /\ i2c.pe
    /\ i2c' = IF i2c.state \in {"active", "addr"} THEN Reset(i2c) ELSE i2c
    /\ Tell("stop") /\ ahead' = FALSE
    /\ UNCHANGED <<dev, fromPage, at, mirror, pushed, wrong>>

\* CR1, SWRST, and PE: the page is told of neither.
Enable(pe) ==
    /\ i2c' = [(IF i2c.pe /\ ~pe THEN Reset(i2c) ELSE i2c) EXCEPT !.pe = pe]
    /\ ahead' = (ahead /\ pe)
    /\ UNCHANGED <<dev, toPage, fromPage, at, mirror, pushed, wrong>>

SoftwareReset ==
    /\ i2c' = Reset(i2c) /\ ahead' = FALSE
    /\ UNCHANGED <<dev, toPage, fromPage, at, mirror, pushed, wrong>>

WriteCr2(ie) ==
    /\ i2c' = [i2c EXCEPT !.ie = ie]
    /\ UNCHANGED <<dev, toPage, fromPage, at, mirror, pushed, ahead, wrong>>

\* DR after START: the address.  A device that is read has its first byte fetched at
\* once; a careful program has set the pointer since it last read.
Address(d, reads) ==
    /\ i2c.state = "start"
    /\ d # "none" /\ reads => IF d = "tap" THEN "tapread" \in I2cRude \/ pushed = fromPage
                              ELSE dev[d].ptr = at[d] \/ "current" \in I2cRude
    /\ IF d = "none"
       THEN /\ i2c' = Fired([i2c EXCEPT !.sr1 = {"af"}, !.state = "idle"])
            /\ UNCHANGED <<dev, fromPage, ahead>>
       ELSE LET s == IF d = "tap" THEN 0 ELSE Rearmed(dev[d]) IN
            /\ i2c' = Fired([i2c EXCEPT !.device = d, !.sr1 = {"addr"}, !.state = "addr", !.reads = reads,
                                        !.dr = IF reads THEN ByteOf(d, s) ELSE @])
            /\ ahead' = reads
            /\ IF reads THEN Fetch(d, s)
               ELSE dev' = (IF d = "tap" THEN dev ELSE [dev EXCEPT ![d] = s]) /\ UNCHANGED fromPage
    /\ UNCHANGED <<toPage, at, mirror, pushed, wrong>>

ReadSr1 ==
    /\ i2c' = [i2c EXCEPT !.armed = "addr" \in i2c.sr1]
    /\ UNCHANGED <<dev, toPage, fromPage, at, mirror, pushed, ahead, wrong>>

\* SR2 after SR1: the address phase is over.
ReadSr2 ==
    /\ i2c.armed
    /\ LET reads == i2c.state = "addr" /\ i2c.reads IN
       i2c' = Fired([i2c EXCEPT !.armed = FALSE, !.state = IF @ = "addr" THEN "active" ELSE @,
                                !.sr1 = (@ \ {"addr"}) \cup {IF reads THEN "rxne" ELSE "txe"}])
    /\ UNCHANGED <<dev, toPage, fromPage, at, mirror, pushed, ahead, wrong>>

\* The byte a write puts on the wire, and where it belongs.
Noted(d, b) ==
    IF dev[d].address
    THEN /\ at' = [at EXCEPT ![d] = dev'[d].ptr] /\ UNCHANGED mirror
    ELSE /\ mirror' = [mirror EXCEPT ![d][at[d]] = b] /\ at' = [at EXCEPT ![d] = Next1(@)]

\* DR in a write.
WriteDr(b) ==
    /\ i2c.state = "active" /\ ~i2c.reads
    /\ i2c' = Fired([i2c EXCEPT !.sr1 = @ \cup {"txe"}])
    /\ IF i2c.device = "tap"
       THEN Tell(b) /\ UNCHANGED <<dev, at, mirror>>
       ELSE /\ dev' = [dev EXCEPT ![i2c.device] = Written(i2c.device, @, b)]
            /\ Noted(i2c.device, b)
            /\ UNCHANGED toPage
    /\ UNCHANGED <<fromPage, pushed, ahead, wrong>>

\* Mutant: the byte is not taken before the next one is fetched.
KeepsDr(c, b) == c
NewDr(c, b) == [c EXCEPT !.dr = b]

\* DR in a read: the byte that was fetched, and the next is fetched, wanted or not.
ReadDr ==
    /\ i2c.state = "active" /\ i2c.reads
    /\ LET d == i2c.device
           s == IF d = "tap" THEN 0 ELSE dev[d]
       IN  /\ i2c' = Fired(NewDr([i2c EXCEPT !.sr1 = @ \cup {"rxne"}], ByteOf(d, s)))
           /\ Fetch(d, s)
           /\ IF d = "tap"
              THEN /\ wrong' = (wrong \/ (i2c.dr # 255 /\ (pushed = <<>> \/ i2c.dr # Head(pushed))))
                   /\ pushed' = (IF pushed = <<>> \/ i2c.dr = 255 THEN pushed ELSE Tail(pushed))
                   /\ UNCHANGED at
              ELSE /\ wrong' = (wrong \/ i2c.dr # mirror[d][at[d]])
                   /\ at' = [at EXCEPT ![d] = Next1(@)]
                   /\ UNCHANGED pushed
    /\ UNCHANGED <<toPage, mirror, ahead>>

-----------------------------------------------------------------------------
(* The page.                                                                 *)

\* set: a register of the file changes; with luck between two transfers.
PageSets(a, b) ==
    /\ "regfile" \in Devices /\ (ahead => "pageset" \in I2cRude)
    /\ dev' = [dev EXCEPT !["regfile"].mem[a] = b] /\ mirror' = [mirror EXCEPT !["regfile"][a] = b]
    /\ UNCHANGED <<i2c, toPage, fromPage, at, pushed, ahead, wrong>>

PagePushes(b) ==
    /\ "tap" \in Devices /\ Len(pushed) < MaxQueue
    /\ fromPage' = Append(fromPage, b) /\ pushed' = Append(pushed, b)
    /\ UNCHANGED <<i2c, dev, toPage, at, mirror, ahead, wrong>>

PageTakes ==
    /\ toPage # <<>> /\ toPage' = <<>>
    /\ UNCHANGED <<i2c, dev, fromPage, at, mirror, pushed, ahead, wrong>>

TakeIrq ==
    /\ i2c.irq # {} /\ i2c' = [i2c EXCEPT !.irq = {}]
    /\ UNCHANGED <<dev, toPage, fromPage, at, mirror, pushed, ahead, wrong>>

Next ==
    \/ Start \/ Stop \/ SoftwareReset \/ \E pe \in BOOLEAN : Enable(pe)
    \/ \E ie \in {{}, {"ev"}, {"buf", "err"}} : WriteCr2(ie)
    \/ \E d \in Devices \cup {"none"}, reads \in BOOLEAN : Address(d, reads)
    \/ ReadSr1 \/ ReadSr2 \/ ReadDr \/ TakeIrq
    \/ \E b \in Bytes : WriteDr(b) \/ PagePushes(b) \/ \E a \in 0..(Span - 1) : PageSets(a, b)
    \/ PageTakes

Spec == Init /\ [][Next]_i2cVars

-----------------------------------------------------------------------------
(* Properties.                                                               *)

\* What a program reads is what it wrote at that address, or the page set or pushed.
BytesAsWired == ~wrong /\ \A d \in Stores : dev[d].mem = mirror[d]

\* The pointer of a device is where the wire left it, or one ahead: only by the byte
\* that was fetched and not read, in this transfer or at the end of the last.
PointerNear ==
    \A d \in Stores :
        /\ dev[d].ptr \in {at[d], Next1(at[d])}
        /\ ahead /\ i2c.device = d => dev[d].ptr = Next1(at[d]) /\ i2c.dr = mirror[d][at[d]]

I2cAgrees == BytesAsWired /\ PointerNear

\* A pointer survives a transfer: what is read next follows what was read last.
PointerKept == i2c.state = "idle" => \A d \in Stores : dev[d].ptr = at[d]

\* After a STOP the bus is free.
StopFrees == [][i2c.pe /\ toPage' = Append(toPage, "stop") => ~i2c'.busy]_i2cVars
=============================================================================
