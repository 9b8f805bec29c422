----------------------------- MODULE StmCapture -----------------------------
(***************************************************************************)
(* The DMA controllers of the STM32 snapshot (dma.rs) and the camera         *)
(* interface they serve (dcmi.rs).  A stream that is enabled queues one      *)
(* transfer; the core drains memory copies, the page the others, and marks   *)
(* the stream's number completed.  Left out: FCR, the widths (a transfer is  *)
(* counted in items), PINC, the crop registers of the camera.                *)
(***************************************************************************)
EXTENDS Integers, Sequences, SequencesExt

CONSTANTS
    Streams,    \* the streams firmware uses: <<controller, number>>
    Buffers,    \* the buffers in memory
    Wirings,    \* what it writes to PAR, M0AR and M1AR: "dcmi" is the camera's DR
    Controls,   \* what it writes to CR
    Camera,     \* whether it uses the camera
    Lengths,    \* what it writes to NDTR
    Width, Height,  \* of a frame of the camera
    Depth,      \* FIFO_DEPTH, 4
    PerTick,    \* PIXELS_PER_TICK, 16
    Frames,     \* bound: frames the page feeds
    DmaRude     \* what a careless program or page does: "unread", "abort", "capturefirst",
                \* "poll", "gap", "shared"

VARIABLES
    stream,     \* the registers of a stream
    queue,      \* pending_dma
    completed,  \* DMA_COMPLETED, per number
    intr,       \* DMA_STREAM_IRQ and FLAGS, per number
    dmaIrq,     \* the interrupts of streams that are pending
    memory,
    dcmi,
    fed,        \* DCMI_FRAME: the frame the page holds out, 0 for none
    owed,       \* history: per stream, what the transfer that runs is to leave behind, or
                \* that it ended and the program has not cleared the flag
    promised,   \* history: the streams whose interrupt is still to come
    seen, lost  \* history: the pixels of this frame that were read, and overrun

captureVars == <<stream, queue, completed, intr, dmaIrq, memory, dcmi, fed, owed, promised, seen, lost>>

Size == Width * Height
Numbers == {s[2] : s \in Streams}
Free == [size |-> 0, dst |-> "none", data |-> <<>>]
Over == [size |-> 0, dst |-> "over", data |-> <<>>]

DcmiReset == [on |-> FALSE, frame |-> 0, pos |-> 0, fifo |-> <<>>, ris |-> {}, sr |-> {}, ie |-> {}, irq |-> FALSE]

Init ==
    /\ \E w \in Wirings : stream = [s \in Streams |->
                  [en |-> FALSE, dir |-> "read", ct |-> FALSE, ie |-> FALSE, next |-> "none", ndtr |-> 0,
                   par |-> w[1], m0 |-> w[2], m1 |-> w[3], tc |-> FALSE]]
    /\ queue = <<>>
    /\ completed = [i \in Numbers |-> FALSE]
    /\ intr = [i \in Numbers |-> [irq |-> "none", on |-> FALSE]]
    /\ dmaIrq = {} /\ promised = {}
    /\ memory = [b \in Buffers |-> [i \in 1..Size |-> <<b, i>>]]
    /\ dcmi = DcmiReset
    /\ fed = 0
    /\ owed = [s \in Streams |-> Free]
    /\ seen = {} /\ lost = {}

-----------------------------------------------------------------------------
(* The streams.                                                              *)

\* data_addr: a write and a copy heed CT, a read always goes to M0AR.
DataAddr(r) == IF r.ct THEN r.m1 ELSE r.m0
Destination(r) == IF r.dir = "read" THEN r.m0 ELSE IF r.dir = "write" THEN r.par ELSE DataAddr(r)
Source(r) == IF r.dir = "write" THEN DataAddr(r) ELSE r.par

\* do_xfer: direction 3 queues nothing.
Queued(s, r) ==
    IF r.dir = "invalid" THEN queue
    ELSE Append(queue, [stream |-> s, dir |-> r.dir, src |-> Source(r), dst |-> Destination(r), size |-> r.ndtr,
                        peri |-> r.par])

Running(s) == owed[s] \notin {Free, Over}

\* A transfer of the queue is aimed at the camera: dma_pending_for_range.
Consumed == \E k \in 1..Len(queue) : queue[k].dir # "copy" /\ queue[k].peri = "dcmi"

\* What a transfer is to leave in its destination.
Outcome(r) ==
    IF r.dir = "read" THEN [size |-> r.ndtr, dst |-> Destination(r), data |-> [i \in 1..r.ndtr |-> i]]
    ELSE IF r.dir = "copy" THEN [size |-> r.ndtr, dst |-> Destination(r), data |-> SubSeq(memory[Source(r)], 1, r.ndtr)]
    ELSE IF r.dir = "write" THEN [size |-> 0, dst |-> "dcmi", data |-> <<>>]
    ELSE Free

\* Stream::write, CR.  With an interrupt enabled the request is pending before the
\* transfer has begun, NDTR is 0 at once, and the bit EN is gone at the second read.
WriteCr(s, cr) ==
    LET r == [stream[s] EXCEPT !.en = cr.en, !.dir = cr.dir, !.ct = cr.ct, !.ie = cr.ie] IN
    /\ cr.en /\ cr.dir = "copy" => Source(r) \in Buffers /\ Destination(r) \in Buffers
    /\ cr.en /\ cr.dir \in {"read", "write"} => r.par = "dcmi"
    /\ Running(s) => "abort" \in DmaRude /\ Len(queue) < 2
    /\ cr.en /\ completed[s[2]] => "unread" \in DmaRude
    /\ cr.en => "shared" \in DmaRude \/ \A o \in Streams \ {s} : o[2] = s[2] => ~Running(o)
    /\ cr.en /\ cr.dir = "read" /\ dcmi.on => "capturefirst" \in DmaRude
    /\ cr.en /\ cr.dir = "read" /\ Consumed => "poll" \in DmaRude
    /\ IF cr.en
       THEN /\ stream' = [stream EXCEPT ![s] = [r EXCEPT !.tc = FALSE, !.ndtr = 0, !.next = "off"]]
            /\ queue' = Queued(s, r)
            /\ intr' = [intr EXCEPT ![s[2]] = [irq |-> s, on |-> cr.ie]]
            /\ dmaIrq' = dmaIrq \cup (IF cr.ie THEN {s} ELSE {})
            /\ owed' = [owed EXCEPT ![s] = Outcome(r)]
            /\ promised' = IF cr.ie /\ cr.dir # "invalid" THEN promised \cup {s} ELSE promised \ {s}
       ELSE /\ stream' = [stream EXCEPT ![s] = r]
            /\ UNCHANGED <<queue, intr, dmaIrq, owed, promised>>
    /\ UNCHANGED <<completed, memory, dcmi, fed, seen, lost>>

\* PAR, M0AR and M1AR, which a program sets one after the other.
WriteAddresses(s, w) ==
    /\ stream' = [stream EXCEPT ![s].par = w[1], ![s].m0 = w[2], ![s].m1 = w[3]]
    /\ UNCHANGED <<queue, completed, intr, dmaIrq, memory, dcmi, fed, owed, promised, seen, lost>>

WriteNdtr(s, n) ==
    /\ stream' = [stream EXCEPT ![s].ndtr = n]
    /\ UNCHANGED <<queue, completed, intr, dmaIrq, memory, dcmi, fed, owed, promised, seen, lost>>

\* Stream::read, CR: the value is returned and the next one put in its place; an empty
\* write stream flips EN with every further read.
ReadCr(s) ==
    LET r == [stream[s] EXCEPT !.en = IF stream[s].next = "none" THEN @ ELSE stream[s].next = "on", !.next = "none"]
        flips == r.dir = "write" /\ r.ndtr = 0
    IN  /\ stream' = [stream EXCEPT ![s] = IF flips THEN [r EXCEPT !.next = IF r.en THEN "off" ELSE "on"] ELSE r]
        /\ stream' # stream
        /\ UNCHANGED <<queue, completed, intr, dmaIrq, memory, dcmi, fed, owed, promised, seen, lost>>

\* LISR and HISR of controller c: the ends of all four numbers of the register are taken
\* and latched here, whichever controller they came from.
ReadIsr(c, half) ==
    LET ended == {i \in Numbers : i \div 4 = half /\ completed[i]} IN
    /\ ended # {}
    /\ "shared" \in DmaRude
       \/ \A i \in ended : <<c, i>> \in Streams /\ owed[<<c, i>>] = Over /\ ~stream[<<c, i>>].tc
    /\ stream' = [s \in Streams |-> [stream[s] EXCEPT !.tc = @ \/ (s[1] = c /\ s[2] \in ended)]]
    /\ completed' = [i \in Numbers |-> completed[i] /\ i \notin ended]
    /\ UNCHANGED <<queue, intr, dmaIrq, memory, dcmi, fed, owed, promised, seen, lost>>

WriteIfcr(s) ==
    /\ stream[s].tc /\ stream' = [stream EXCEPT ![s].tc = FALSE]
    /\ owed' = IF Running(s) THEN owed ELSE [owed EXCEPT ![s] = Free]
    /\ UNCHANGED <<queue, completed, intr, dmaIrq, memory, dcmi, fed, promised, seen, lost>>

\* Mutant: the number's interrupt is taken, and its flags are not looked at.
PendsNever(i) == {}

Pends(i) == IF intr[i].on /\ intr[i].irq # "none" THEN {intr[i].irq} ELSE {}

\* mark_dma_completed.
Completed(t) ==
    LET i == t.stream[2] IN
    /\ completed' = [completed EXCEPT ![i] = TRUE]
    /\ intr' = [intr EXCEPT ![i] = [irq |-> "none", on |-> FALSE]]
    /\ dmaIrq' = dmaIrq \cup Pends(i)
    /\ promised' = promised \ Pends(i)
    /\ owed' = [owed EXCEPT ![t.stream] = IF \E k \in 1..Len(queue') : queue'[k].stream = t.stream THEN @ ELSE Over]

Stored(t, data) == [memory EXCEPT ![t.dst] = [i \in 1..Size |-> IF i <= t.size THEN data[i] ELSE @[i]]]

\* The core's drain, after the store that enabled the stream: of the copies the one
\* with the lowest number, and of those the first.
DrainCopy ==
    \E k \in 1..Len(queue) :
        LET t == queue[k] IN
        /\ t.dir = "copy"
        /\ \A j \in 1..Len(queue) : queue[j].dir = "copy" =>
              queue[j].stream[2] > t.stream[2] \/ (queue[j].stream[2] = t.stream[2] /\ j >= k)
        /\ queue' = RemoveAt(queue, k)
        /\ memory' = Stored(t, memory[t.src])
        /\ Completed(t)
        /\ UNCHANGED <<stream, dcmi, fed, seen, lost>>

-----------------------------------------------------------------------------
(* The camera.                                                               *)

Raised(d) == [d EXCEPT !.irq = @ \/ d.ris \cap d.ie # {}]

\* advance_pixel: one pixel off the sensor, the flags at the end of a line and of the frame.
Advance(d) ==
    LET p == d.pos + 1
        ends == (IF p % Width = 0 THEN {"line"} ELSE {}) \cup (IF p = Size THEN {"frame"} ELSE {})
    IN  [d EXCEPT !.pos = p, !.ris = @ \cup ends, !.sr = @ \cup ends, !.on = @ /\ p < Size]

Streaming(d) == d.on /\ d.frame # 0 /\ d.pos < Size

\* feed_next_pixel: the FIFO drops the oldest.
Fed(d) ==
    LET full == Len(d.fifo) >= Depth
        rest == IF full THEN Tail(d.fifo) ELSE d.fifo
    IN  [Advance(d) EXCEPT !.fifo = Append(rest, d.pos + 1), !.ris = IF full THEN @ \cup {"over"} ELSE @]

Overrun(d) == IF Len(d.fifo) >= Depth THEN {Head(d.fifo)} ELSE {}

\* The frame that is loaded, when capture starts and when a tick finds none.
Loaded(d) == [d EXCEPT !.frame = fed, !.pos = 0, !.fifo = <<>>]

\* DCMI CR.
WriteCapture(on) ==
    /\ IF on /\ ~dcmi.on
       THEN IF fed # 0
            THEN /\ dcmi' = [Loaded(dcmi) EXCEPT !.on = TRUE, !.sr = @ \cup {"vsync"}, !.ris = @ \cup {"frame"}]
                 /\ seen' = {} /\ lost' = {}
            ELSE dcmi' = [dcmi EXCEPT !.on = TRUE, !.frame = 0] /\ UNCHANGED <<seen, lost>>
       ELSE dcmi' = [dcmi EXCEPT !.on = on] /\ UNCHANGED <<seen, lost>>
    /\ UNCHANGED <<stream, queue, completed, intr, dmaIrq, memory, fed, owed, promised>>

WriteIer(ie) ==
    /\ dcmi' = Raised([dcmi EXCEPT !.ie = ie])
    /\ UNCHANGED <<stream, queue, completed, intr, dmaIrq, memory, fed, owed, promised, seen, lost>>

\* ICR: a write clears what it names, a read everything.
ClearFlags(flags) ==
    /\ dcmi' = [dcmi EXCEPT !.ris = @ \ flags, !.sr = @ \ flags]
    /\ UNCHANGED <<stream, queue, completed, intr, dmaIrq, memory, fed, owed, promised, seen, lost>>

ReadIcr ==
    /\ dcmi' = [dcmi EXCEPT !.ris = {}]
    /\ UNCHANGED <<stream, queue, completed, intr, dmaIrq, memory, fed, owed, promised, seen, lost>>

\* Mutant: the FIFO is filled while the transfer waits for the page.
NobodyConsumes == FALSE
Waits == Consumed

\* tick.
Tick ==
    LET start == IF dcmi.frame = 0 THEN Loaded(dcmi) ELSE dcmi
        walk[n \in 0..PerTick] ==
            IF n = 0 THEN [d |-> start, lost |-> IF dcmi.frame = 0 THEN {} ELSE lost]
            ELSE LET w == walk[n - 1] IN
                 IF w.d.pos >= Size THEN w ELSE [d |-> Fed(w.d), lost |-> w.lost \cup Overrun(w.d)]
        w == walk[PerTick]
    IN  /\ dcmi.on /\ ~Waits
        /\ dcmi.frame # 0 \/ fed # 0
        /\ dcmi' = Raised([w.d EXCEPT !.frame = IF w.d.pos >= Size THEN 0 ELSE @])
        /\ lost' = w.lost
        /\ seen' = IF dcmi.frame = 0 THEN {} ELSE seen
        /\ UNCHANGED <<stream, queue, completed, intr, dmaIrq, memory, fed, owed, promised>>

\* Mutant: the oldest pixel is looked at and stays.
PoppedNot(d) == d
Popped(d) == IF d.fifo = <<>> THEN d ELSE [d EXCEPT !.fifo = Tail(@)]

\* DR, read by the core; a careful program leaves it to the DMA.
ReadDr ==
    LET d == IF dcmi.fifo = <<>> /\ Streaming(dcmi) THEN Fed(dcmi) ELSE dcmi IN
    /\ d.fifo # <<>> /\ (Consumed => "poll" \in DmaRude)
    /\ dcmi' = Raised(Popped(d)) /\ seen' = seen \cup {Head(d.fifo)}
    /\ UNCHANGED <<stream, queue, completed, intr, dmaIrq, memory, fed, owed, promised, lost>>

FeedFrame ==
    /\ fed < Frames /\ fed' = fed + 1
    /\ UNCHANGED <<stream, queue, completed, intr, dmaIrq, memory, dcmi, owed, promised, seen, lost>>

\* dma_pop: what the FIFO holds, then the sensor.
DmaPop(d) ==
    IF d.fifo # <<>> THEN [px |-> Head(d.fifo), d |-> Popped(d)]
    ELSE IF d.frame # 0 /\ d.pos < Size THEN [px |-> d.pos + 1, d |-> Advance(d)]
    ELSE [px |-> 0, d |-> d]

\* The page takes a transfer, moves the data and says so, in one turn.  What is written
\* to DR the camera ignores.  A page with luck takes a capture when capture is on.
Serve(k) ==
    LET t == queue[k]
        pops[n \in 0..Size] ==
            IF n = 0 THEN [data |-> <<>>, d |-> dcmi]
            ELSE LET p == DmaPop(pops[n - 1].d) IN [data |-> Append(pops[n - 1].data, p.px), d |-> Raised(p.d)]
    IN  /\ t.dir # "copy"
        /\ t.dir = "read" => Streaming(dcmi) \/ "gap" \in DmaRude
        /\ IF t.dir = "read"
           THEN /\ memory' = Stored(t, pops[t.size].data)
                /\ dcmi' = pops[t.size].d
                /\ seen' = seen \cup {p \in Range(pops[t.size].data) : p # 0}
           ELSE UNCHANGED <<memory, dcmi, seen>>
        /\ queue' = RemoveAt(queue, k)
        /\ Completed(t)
        /\ UNCHANGED <<stream, fed, lost>>

TakeIrq(s) ==
    /\ s \in dmaIrq /\ dmaIrq' = dmaIrq \ {s}
    /\ UNCHANGED <<stream, queue, completed, intr, memory, dcmi, fed, owed, promised, seen, lost>>

TakeDcmiIrq ==
    /\ dcmi.irq /\ dcmi' = [dcmi EXCEPT !.irq = FALSE]
    /\ UNCHANGED <<stream, queue, completed, intr, dmaIrq, memory, fed, owed, promised, seen, lost>>

Next ==
    \/ \E s \in Streams :
        \/ \E cr \in Controls : WriteCr(s, cr)
        \/ \E w \in Wirings : WriteAddresses(s, w)
        \/ \E n \in Lengths : WriteNdtr(s, n)
        \/ ReadCr(s) \/ WriteIfcr(s) \/ TakeIrq(s)
    \/ \E c \in {s[1] : s \in Streams}, half \in {0, 1} : ReadIsr(c, half)
    \/ DrainCopy \/ \E k \in 1..Len(queue) : Serve(k)
    \/ /\ Camera
       /\ \/ \E on \in BOOLEAN : WriteCapture(on)
          \/ \E flags \in {{}, {"over", "frame"}} : WriteIer(flags) \/ ClearFlags(flags)
          \/ ReadIcr \/ Tick \/ ReadDr \/ FeedFrame \/ TakeDcmiIrq

Spec == Init /\ [][Next]_captureVars

-----------------------------------------------------------------------------
(* Properties.                                                               *)

\* The flags of a stream speak of the transfer the program started last, and only when
\* it has been moved.
TcHonest == \A s \in Streams : stream[s].tc \/ completed[s[2]] => ~Running(s)

\* The end of a transfer is in the flag of its stream, or will be at the next look, until
\* the program clears it, and no end is left for the next transfer of that number.
EndTold ==
    /\ \A s \in Streams : owed[s] = Over => stream[s].tc \/ completed[s[2]]
    /\ \A i \in Numbers : completed[i] => \E s \in Streams : s[2] = i /\ owed[s] = Over

\* A transfer with an interrupt enabled ends in an interrupt.
IrqFollows == promised \subseteq {s \in Streams : Running(s)}

\* Every pixel that left the sensor was read once, waits its turn, or was overrun.
PixelsAccounted ==
    /\ 1..dcmi.pos = seen \cup lost \cup Range(dcmi.fifo)
    /\ seen \cap lost = {}
    /\ \A i \in 1..Len(dcmi.fifo) :
        /\ dcmi.fifo[i] = dcmi.pos - Len(dcmi.fifo) + i
        /\ dcmi.fifo[i] \notin seen \cup lost

CaptureAgrees == TcHonest /\ EndTold /\ IrqFollows /\ PixelsAccounted

\* When a transfer ends its destination holds what it was to bring: a copy of the
\* source as it was, or the frame from its first pixel.
Landed ==
    \A s \in Streams :
        Running(s) /\ owed'[s] = Over /\ owed[s].dst \in Buffers =>
            SubSeq(memory'[owed[s].dst], 1, owed[s].size) = owed[s].data
TransferLands == [][Landed]_captureVars

\* An interrupt of a stream says that its transfer is over.
IrqMeansDone == \A s \in dmaIrq : ~Running(s)

\* The flag of the frame says that the frame is over.
FrameMeansOver == "frame" \in dcmi.ris /\ dcmi.frame # 0 => dcmi.pos = Size
=============================================================================
