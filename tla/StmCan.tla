------------------------------- MODULE StmCan -------------------------------
(***************************************************************************)
(* The two bxCAN controllers of the STM32 snapshot on their shared bus       *)
(* (peripherals/can.rs): a request is staged, every tick one staged frame    *)
(* wins and is delivered, and a page may put in a frame of its own.  An      *)
(* identifier is two bits, the upper one standing for STID[10:8]; the other  *)
(* 18 bits of an extended one are zero.  TSR is the set of its bits that are *)
(* one.  Left out: the error counters, which nothing sets, remote frames,    *)
(* the 16-bit filters and registers only kept.                               *)
(***************************************************************************)
EXTENDS Integers, Sequences, SequencesExt, FiniteSets

CONSTANTS
    Nodes,        \* {1, 2}; the page is node 0
    Mailboxes,    \* 0..2
    Messages,     \* what is sent: [id, ext]
    Filters,      \* what a filter bank may be: [list, id, mask, ext, fifo]
    Banks,        \* the banks of a node that are used
    Enables,      \* what IER is set to, of "tx", "rx0", "rx1"
    Depth,        \* 3
    MaxFrames,    \* bound: frames sent
    CanRude       \* what a careless program does: "queue", "loopback", "mixed", "again",
                  \* "listed", "tidy"

VARIABLES
    node,      \* the controllers
    staged,    \* CAN_STAGED
    nvic,      \* the interrupts that are pending, <<node, line>>
    taken,     \* history: those taken and not yet answered by a write to the registers
    count,     \* frames sent
    open,      \* history: <<node, mailbox>> of the requests that are not through
    private,   \* history: the nodes whose program asked for loopback
    inbox,     \* history: the frames each FIFO should hold
    lost       \* history: the FIFOs that missed a frame

canVars == <<node, staged, nvic, taken, count, open, private, inbox, lost>>

Fifos == {0, 1}
Nothing == [id |-> 0, ext |-> FALSE]
Off == [list |-> FALSE, id |-> 0, mask |-> 0, ext |-> FALSE, fifo |-> -1]

\* The bits of TSR of mailbox i as the code uses them, and those the manual calls TME.
Txrq(i) == i
TxOk(i) == 8 + i
Tme(i) == 16 + i
Rqcp(i) == 31 - 4 * i
ManualTme(i) == 26 + i

NodeReset ==
    [init |-> FALSE, tsr |-> {26, 27, 28}, lbkm |-> FALSE, ier |-> {},
     fmp |-> [k \in Fifos |-> 0], fovr |-> [k \in Fifos |-> FALSE],
     rx |-> [k \in Fifos |-> [s \in 1..Depth |-> Nothing]], bank |-> [b \in Banks |-> Off]]

Init ==
    /\ node = [n \in Nodes |-> NodeReset]
    /\ staged = <<>> /\ nvic = {} /\ taken = {} /\ count = 0 /\ open = {} /\ private = {}
    /\ inbox = [n \in Nodes |-> [k \in Fifos |-> <<>>]] /\ lost = {}

-----------------------------------------------------------------------------
\* fire_interrupts: the lines of node n that are pended.
Line(k) == IF k = 0 THEN "rx0" ELSE "rx1"
Fired(n, c) ==
    {<<n, "tx">> : x \in {y \in {1} : "tx" \in c.ier /\ c.tsr \cap ((16..18) \cup (24..26)) # {}}}
    \cup {<<n, Line(k)>> : k \in {j \in Fifos : Line(j) \in c.ier /\ c.fmp[j] > 0}}

\* The number an arbitration sorts by: an extended identifier has 18 more bits.
Raw(f) == IF f.ext THEN 4 * f.id ELSE f.id

\* What the wire compares: the upper bits first, a standard frame before an extended one.
OnWire(f) == 2 * f.id + (IF f.ext THEN 1 ELSE 0)

\* filter_pass: a list of 32 bits drops the three upper bits and has one entry.
Passes(f, b) ==
    /\ b.fifo >= 0
    /\ IF b.list THEN f.id % 2 = b.id % 2 /\ f.ext = b.ext
       ELSE {i \in {0, 1} : ((b.mask \div (2 ^ i)) % 2 = 1) /\ (((f.id \div (2 ^ i)) % 2) # ((b.id \div (2 ^ i)) % 2))} = {}

\* What the bank was meant to let pass.
Meant(f, b) ==
    b.fifo >= 0 /\ (IF b.list THEN f.id = b.id /\ f.ext = b.ext
                    ELSE \A i \in {0, 1} : (b.mask \div (2 ^ i)) % 2 = 1
                                           => (f.id \div (2 ^ i)) % 2 = (b.id \div (2 ^ i)) % 2)

Matching(f, c, Lets(_, _)) == {b \in Banks : Lets(f, c.bank[b])}
Lowest(S) == CHOOSE b \in S : \A d \in S : b <= d

\* Mutant: a full FIFO takes the frame into its last place.
PutOver(c, k, f) ==
    LET at == IF c.fmp[k] >= Depth THEN Depth ELSE c.fmp[k] + 1 IN
    [c EXCEPT !.rx[k][at] = [id |-> f.id, ext |-> f.ext], !.fmp[k] = at]

\* receive_frame, into the FIFO of the first bank that lets it pass.
Put(c, k, f) ==
    IF c.fmp[k] >= Depth THEN [c EXCEPT !.fovr[k] = TRUE]
    ELSE [c EXCEPT !.rx[k][c.fmp[k] + 1] = [id |-> f.id, ext |-> f.ext], !.fmp[k] = @ + 1]

Received(c, f) ==
    LET banks == Matching(f, c, Passes) IN
    IF banks = {} THEN c ELSE Put(c, c.bank[Lowest(banks)].fifo, f)

\* complete_tx, which sets RQCP in another bit than stage_mailbox clears.
Completed(c, i) == [c EXCEPT !.tsr = @ \cup {TxOk(i), Tme(i), Rqcp(i)}]

\* The FIFOs of a device that keeps to its manual.
Into(n, f) ==
    LET banks == Matching(f, node[n], Meant) IN
    IF banks = {} THEN {} ELSE {node[n].bank[Lowest(banks)].fifo}

Deliver(hearers, f) ==
    /\ inbox' = [n \in Nodes |-> [k \in Fifos |->
                    IF n \in hearers /\ k \in Into(n, f) /\ Len(inbox[n][k]) < Depth
                    THEN Append(inbox[n][k], [id |-> f.id, ext |-> f.ext]) ELSE inbox[n][k]]]
    /\ lost' = lost \cup {<<n, k>> \in hearers \X Fifos : k \in Into(n, f) /\ Len(inbox[n][k]) >= Depth}

-----------------------------------------------------------------------------
(* The registers.                                                            *)

Answers(n, lines) == taken' = taken \ {<<n, l>> : l \in lines}

\* Mutant: a request of another round is forgotten.
StageOnly(s, f) == <<f>>

\* stage_mailbox.
Stage(s, f) == Append(s, f)

\* Mutant: the mailbox still says it is empty.
RequestedEmpty(t, i) == (t \cup {Txrq(i)}) \ {TxOk(i), ManualTme(i)}

\* stage_mailbox, TSR: TXRQ stays set, what is left of the last request goes.
Requested(t, i) == (t \cup {Txrq(i)}) \ {TxOk(i), Tme(i), ManualTme(i)}

\* TIR with TXRQ; in initialisation mode nothing is sent.
Request(n, i, m) ==
    LET c == node[n]
        d == IF c.init THEN c ELSE [c EXCEPT !.tsr = Requested(@, i)]
    IN  /\ count < MaxFrames
        /\ <<n, i>> \in open => "again" \in CanRude
        /\ "mixed" \in CanRude \/ \A j \in 1..Len(staged) : staged[j].ext = m.ext
        /\ node' = [node EXCEPT ![n] = d]
        /\ IF c.init THEN UNCHANGED <<staged, nvic, open, count>>
           ELSE /\ staged' = Stage(staged, [node |-> n, box |-> i, id |-> m.id, ext |-> m.ext, loopback |-> c.lbkm])
                /\ nvic' = nvic \cup Fired(n, d)
                /\ open' = open \cup {<<n, i>>} /\ count' = count + 1
        /\ UNCHANGED <<taken, private, inbox, lost>>

\* Mutant: the controllers are served in their order.
NodeFirst(f, g) == f.node < g.node \/ (f.node = g.node /\ f.box <= g.box)

\* arbitrate_bus: the lowest identifier, then the lowest node, then the lowest mailbox.
Before(f, g) ==
    \/ Raw(f) < Raw(g)
    \/ Raw(f) = Raw(g) /\ f.node < g.node
    \/ Raw(f) = Raw(g) /\ f.node = g.node /\ f.box <= g.box

Winner(s) == CHOOSE j \in 1..Len(s) : \A k \in 1..Len(s) : Before(s[j], s[k]) /\ (Before(s[k], s[j]) => j <= k)

Arbitrate ==
    /\ staged # <<>>
    /\ LET j == Winner(staged)
           f == staged[j]
           hearers == IF f.loopback THEN {f.node} ELSE Nodes
           heard == [n \in Nodes |-> IF n \in hearers THEN Received(node[n], f) ELSE node[n]]
       IN  /\ node' = [heard EXCEPT ![f.node] = Completed(@, f.box)]
           /\ staged' = RemoveAt(SortSeq(staged, Before), 1)
           /\ nvic' = nvic \cup UNION {Fired(n, node'[n]) : n \in {m \in Nodes : m = f.node \/ node'[m].fmp # node[m].fmp}}
           /\ open' = open \ {<<f.node, f.box>>}
           /\ Deliver(IF f.node \in private THEN {f.node} ELSE Nodes, f)
    /\ UNCHANGED <<taken, count, private>>

\* can_inject.
Inject(m) ==
    /\ count < MaxFrames /\ count' = count + 1
    /\ node' = [n \in Nodes |-> Received(node[n], m)]
    /\ nvic' = nvic \cup UNION {Fired(n, node'[n]) : n \in {k \in Nodes : node'[k].fmp # node[k].fmp}}
    /\ Deliver(Nodes, m)
    /\ UNCHANGED <<staged, taken, open, private>>

\* release_fifo, which moves no frame.
Released(c, k) == IF c.fmp[k] > 0 THEN [c EXCEPT !.fmp[k] = @ - 1] ELSE c

\* RF0R and RF1R with RFOM, by a program that has read the first frame.
Release(n, k) ==
    /\ node[n].fmp[k] > 0
    /\ node[n].fmp[k] > 1 => "queue" \in CanRude
    /\ node' = [node EXCEPT ![n] = Released(@, k)]
    /\ nvic' = nvic \cup Fired(n, node'[n])
    /\ inbox' = [inbox EXCEPT ![n][k] = Tail(@)]
    /\ Answers(n, {"tx", "rx0", "rx1"})
    /\ UNCHANGED <<staged, count, open, private, lost>>

\* The same, by a program that has read nothing: the newest frame goes.
Drop(n, k) ==
    /\ node[n].fmp[k] > 1
    /\ node' = [node EXCEPT ![n] = Released(@, k)]
    /\ nvic' = nvic \cup Fired(n, node'[n])
    /\ inbox' = [inbox EXCEPT ![n][k] = Front(@)]
    /\ Answers(n, {"tx", "rx0", "rx1"})
    /\ UNCHANGED <<staged, count, open, private, lost>>

WriteIer(n, e) ==
    /\ node' = [node EXCEPT ![n].ier = e]
    /\ nvic' = nvic \cup Fired(n, node'[n])
    /\ Answers(n, {"tx", "rx0", "rx1"})
    /\ UNCHANGED <<staged, count, open, private, inbox, lost>>

\* MCR: INRQ is acknowledged at once.
WriteMcr(n, inrq) ==
    /\ node' = [node EXCEPT ![n].init = inrq]
    /\ UNCHANGED <<staged, nvic, taken, count, open, private, inbox, lost>>

\* TSR: a one clears TXRQ, TXOK and TME, no other bit.
WriteTsr(n, ones) ==
    /\ "tidy" \in CanRude \/ ones \subseteq {TxOk(i) : i \in Mailboxes}
    /\ node' = [node EXCEPT ![n].tsr = @ \ (ones \cap ((0..2) \cup (8..10) \cup (16..18)))]
    /\ UNCHANGED <<staged, nvic, taken, count, open, private, inbox, lost>>

\* BTR keeps bits 29:0, so LBKM is lost.
WriteBtr(n, lbkm) ==
    /\ lbkm => "loopback" \in CanRude
    /\ open = {}
    /\ private' = IF lbkm THEN private \cup {n} ELSE private \ {n}
    /\ node' = [node EXCEPT ![n].lbkm = FALSE]
    /\ UNCHANGED <<staged, nvic, taken, count, open, inbox, lost>>

\* FM1R, FFA1R, FA1R and the bank's registers, written while the FIFOs are empty.
WriteBank(n, b, f) ==
    /\ open = {} /\ \A k \in Fifos : node[n].fmp[k] = 0
    /\ f.list => "listed" \in CanRude \/ f.id < 2
    /\ node' = [node EXCEPT ![n].bank[b] = f]
    /\ UNCHANGED <<staged, nvic, taken, count, open, private, inbox, lost>>

\* FMR with FINIT.
WriteFmr(n) ==
    /\ node' = [node EXCEPT ![n].bank = [b \in Banks |-> Off]]
    /\ UNCHANGED <<staged, nvic, taken, count, open, private, inbox, lost>>

TakeIrq(line) ==
    /\ line \in nvic
    /\ nvic' = nvic \ {line} /\ taken' = taken \cup {line}
    /\ UNCHANGED <<node, staged, count, open, private, inbox, lost>>

Next ==
    \/ Arbitrate \/ \E m \in Messages : Inject(m)
    \/ \E n \in Nodes :
        \/ \E i \in Mailboxes, m \in Messages : Request(n, i, m)
        \/ \E k \in Fifos : Release(n, k) \/ Drop(n, k)
        \/ \E e \in Enables : WriteIer(n, e)
        \/ \E on \in BOOLEAN : WriteMcr(n, on) \/ WriteBtr(n, on)
        \/ \E ones \in SUBSET node[n].tsr : WriteTsr(n, ones)
        \/ \E b \in Banks, f \in Filters : WriteBank(n, b, f)
        \/ WriteFmr(n)
    \/ \E line \in nvic : TakeIrq(line)

Spec == Init /\ [][Next]_canVars

-----------------------------------------------------------------------------
(* Properties.                                                               *)

\* A request that is not through has its one frame on the stage and no bit that says it
\* is through; a mailbox that sent says it is empty until the next request.
RequestsStaged ==
    /\ open = {<<staged[j].node, staged[j].box>> : j \in 1..Len(staged)} /\ Len(staged) = Cardinality(open)
    /\ \A n \in Nodes, i \in Mailboxes : LET t == node[n].tsr IN
        /\ Tme(i) \in t <=> Txrq(i) \in t /\ <<n, i>> \notin open
        /\ <<n, i>> \in open => TxOk(i) \notin t /\ ManualTme(i) \notin t

\* The manual's bit for an empty mailbox (refuted: that of mailbox 0 never comes back).
EmptyAsDocumented ==
    \A n \in Nodes, i \in Mailboxes : <<n, i>> \notin open => ManualTme(i) \in node[n].tsr

\* A transmit interrupt has a mailbox that sent (refuted: bit 26 is one after reset).
InterruptMeansSent ==
    \A n \in Nodes : <<n, "tx">> \in nvic => \E i \in Mailboxes : Txrq(i) \in node[n].tsr

\* The frames a program finds are those the bus brought and its filters let pass, in
\* their order, and a FIFO that missed one says so.
FramesFound ==
    /\ \A n \in Nodes, k \in Fifos : SubSeq(node[n].rx[k], 1, node[n].fmp[k]) = inbox[n][k]
    /\ \A <<n, k>> \in lost : node[n].fovr[k]

\* A frame that waits and a mailbox that sent have their interrupt pending while it is
\* enabled, or its handler runs.
WaitingTold ==
    \A n \in Nodes :
        /\ \A k \in Fifos : node[n].fmp[k] > 0 /\ Line(k) \in node[n].ier => <<n, Line(k)>> \in nvic \cup taken
        /\ "tx" \in node[n].ier /\ (\E i \in Mailboxes : Tme(i) \in node[n].tsr) => <<n, "tx">> \in nvic \cup taken

CanAgrees == RequestsStaged /\ FramesFound /\ WaitingTold

\* The frame that wins is one the wire would let win.
InOrder ==
    staged' # staged /\ open' # open /\ Len(staged') < Len(staged) =>
        \E j \in 1..Len(staged) :
            /\ <<staged[j].node, staged[j].box>> \in open \ open'
            /\ \A k \in 1..Len(staged) : OnWire(staged[j]) <= OnWire(staged[k])
WireOrder == [][InOrder]_canVars
=============================================================================
