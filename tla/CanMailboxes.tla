---------------------------- MODULE CanMailboxes ----------------------------
(***************************************************************************)
(* The CAN controller (peripherals/ra_can.rs) in self-test loopback: what it *)
(* sends it receives, through the receive FIFO or the first receive mailbox. *)
(* A frame is its identifier.  Mailbox Port is also the write port of the    *)
(* transmit FIFO.  Time stamps, the mailbox search and the events, which     *)
(* EventRouting takes up, are left out.                                      *)
(***************************************************************************)
EXTENDS Integers, Sequences, FiniteSets
LOCAL INSTANCE FiniteSetsExt

CONSTANTS
    Mailbox,     \* 0..31
    Port,        \* 24
    CanFrame,    \* what is sent
    Depth,       \* CAN_FIFO_DEPTH
    Filters,     \* what FIDCR may select: a set of frames, {} for all
    Enables,     \* what RFCR.RFE is set to
    TxEnables,   \* what TFCR.TFE is set to
    Modes,       \* what CTLR.CANM is set to; 0 is operation
    Storm,       \* the errors a jig injects at once: <<receive, transmit>>
    Warning, Passive, BusOff,   \* 96, 128 and 255
    CanRude      \* what the driver or the page does against the flags

VARIABLES
    box,      \* the mailboxes
    can,      \* the rest of the controller
    rxFifo, txFifo,
    held,     \* history: the head of rxFifo as the driver has read it
    asked,    \* history: mailboxes with a request that nothing has answered
    lost      \* history: where a frame was lost since the driver last looked

canVars == <<box, can, rxFifo, txFifo, held, asked, lost>>
None == -1
Fifo == -1
NoBox == -2

Init ==
    /\ box = [m \in Mailbox |-> [rx |-> FALSE, sent |-> FALSE, newdata |-> FALSE, msglost |-> FALSE,
                                 trmabt |-> FALSE, frame |-> 0]]
    /\ can = [mode |-> 0, loop |-> FALSE, rfe |-> FALSE, tfe |-> FALSE, filter |-> {}, pending |-> None,
              rfmlf |-> FALSE, nmlst |-> FALSE, rec |-> 0, tec |-> 0, flags |-> {}]
    /\ rxFifo = <<>> /\ txFifo = <<>>
    /\ held = None /\ asked = {} /\ lost = {}

-----------------------------------------------------------------------------
(* Reception, on a bus b == [box, can, rx, lost].                             *)

Bus == [box |-> box, can |-> can, rx |-> rxFifo, lost |-> lost]

\* fidcr_match.
Passes(b, frame) == b.can.filter = {} \/ frame \in b.can.filter

\* Mutant: a full FIFO drops its head.
QueuedOldest(b, frame) ==
    IF Len(b.rx) < Depth THEN [b EXCEPT !.rx = Append(@, frame)]
    ELSE [b EXCEPT !.rx = Append(Tail(@), frame), !.can.rfmlf = TRUE, !.lost = @ \cup {Fifo}]

Queued(b, frame) ==
    IF Len(b.rx) < Depth THEN [b EXCEPT !.rx = Append(@, frame)]
    ELSE [b EXCEPT !.can.rfmlf = TRUE, !.lost = @ \cup {Fifo}]

Boxed(b, m, frame) ==
    [b EXCEPT !.box[m].frame = frame, !.box[m].newdata = TRUE,
              !.box[m].msglost = @ \/ b.box[m].newdata,
              !.lost = IF b.box[m].newdata THEN @ \cup {m} ELSE @]

Receivers(b) == {m \in Mailbox : b.box[m].rx}

\* loopback_receive: the FIFO, else the first receive mailbox, else nowhere.
Received(b, frame) ==
    IF b.can.rfe /\ Passes(b, frame) THEN Queued(b, frame)
    ELSE IF Receivers(b) # {} THEN Boxed(b, Min(Receivers(b)), frame)
    ELSE [b EXCEPT !.can.nmlst = TRUE, !.lost = @ \cup {NoBox}]

Looped(b, frame) == IF b.can.loop THEN Received(b, frame) ELSE b

\* Mutant: SENTDATA is not set.
DeliveredQuietly(b, m) == Looped([b EXCEPT !.can.pending = None], b.box[m].frame)

\* deliver_tx.
Delivered(b, m) == Looped([b EXCEPT !.can.pending = None, !.box[m].sent = TRUE], b.box[m].frame)

\* This step ends a request and says how.
Settled(m) == can.pending = m /\ can'.pending # m /\ (box'[m].sent \/ box'[m].trmabt)

\* tick: the requested mailbox, then one frame of the transmit FIFO.
Tick ==
    LET m == can.pending
        b == IF m = None THEN Bus ELSE Delivered(Bus, m)
        ships == can.tfe /\ txFifo # <<>>
        after == IF ships THEN Looped(b, Head(txFifo)) ELSE b
    IN  /\ can.mode = 0 /\ (m # None \/ ships)
        /\ box' = after.box /\ can' = after.can /\ rxFifo' = after.rx /\ lost' = after.lost
        /\ txFifo' = IF ships THEN Tail(txFifo) ELSE txFifo
        /\ asked' = {a \in asked : ~Settled(a)}
        /\ UNCHANGED held

-----------------------------------------------------------------------------
(* The driver.                                                               *)

\* abort_pending.
Aborted(b) ==
    IF b.can.pending = None THEN b
    ELSE [b EXCEPT !.can.pending = None, !.box[b.can.pending].trmabt = TRUE]

\* A receive mailbox that becomes a transmit mailbox, and back.
TurnedTx(u) == IF u.rx THEN [u EXCEPT !.rx = FALSE, !.newdata = FALSE, !.msglost = FALSE] ELSE u
TurnedRx(u) == IF u.rx THEN u ELSE [u EXCEPT !.rx = TRUE, !.sent = FALSE, !.trmabt = FALSE]

\* MCTL of a transmit mailbox: a request, or none, which aborts; flags written 0 are cleared.
WriteMctlTx(m, request, keepSent, keepAbort) ==
    LET b == [Bus EXCEPT !.box[m] = TurnedTx(@)]
        asking == IF request THEN [b EXCEPT !.can.pending = m]
                  ELSE IF can.pending = m THEN Aborted(b) ELSE b
    IN  /\ request => can.pending \in {None, m} \/ "second" \in CanRude
        /\ box' = [asking.box EXCEPT ![m].sent = @ /\ keepSent, ![m].trmabt = @ /\ keepAbort]
        /\ can' = asking.can
        /\ asked' = IF request THEN asked \cup {m} ELSE asked \ {m}
        /\ lost' = lost \ {m}
        /\ UNCHANGED <<rxFifo, txFifo, held>>

\* MCTL of a receive mailbox; turned to receive, a requested one is forgotten.
WriteMctlRx(m, keepNew, keepLost) ==
    LET u == TurnedRx(box[m]) IN
    /\ box' = [box EXCEPT ![m] = [u EXCEPT !.newdata = @ /\ keepNew, !.msglost = @ /\ keepLost]]
    /\ can' = [can EXCEPT !.pending = IF ~box[m].rx /\ @ = m THEN None ELSE @]
    /\ asked' = asked \ {m}
    /\ lost' = IF keepLost THEN lost ELSE lost \ {m}
    /\ UNCHANGED <<rxFifo, txFifo, held>>

WriteFrame(m, frame) ==
    /\ box' = [box EXCEPT ![m].frame = frame]
    /\ UNCHANGED <<can, rxFifo, txFifo, held, asked, lost>>

\* CTLR: leaving operation aborts; the halt of a controller off the bus lets it recover.
WriteCtlr(mode) ==
    LET b == [Bus EXCEPT !.can.mode = mode]
        left == IF can.mode = 0 /\ mode # 0 THEN Aborted(b) ELSE b
        recovers == mode = 2 /\ "boef" \in can.flags
    IN  /\ box' = left.box
        /\ can' = IF recovers THEN [left.can EXCEPT !.flags = @ \ {"boef"}, !.rec = 0, !.tec = 0]
                  ELSE left.can
        /\ asked' = {a \in asked : ~Settled(a)}
        /\ UNCHANGED <<rxFifo, txFifo, held, lost>>

WriteTcr(on) == can' = [can EXCEPT !.loop = on] /\ UNCHANGED <<box, rxFifo, txFifo, held, asked, lost>>
WriteFidcr(set) == can' = [can EXCEPT !.filter = set] /\ UNCHANGED <<box, rxFifo, txFifo, held, asked, lost>>
WriteTfcr(on) == can' = [can EXCEPT !.tfe = on] /\ UNCHANGED <<box, rxFifo, txFifo, held, asked, lost>>

\* RFCR: the enable, and RFMLF written 0.
WriteRfcr(on, keep) ==
    /\ can' = [can EXCEPT !.rfe = on, !.rfmlf = @ /\ keep]
    /\ lost' = IF keep THEN lost ELSE lost \ {Fifo}
    /\ UNCHANGED <<box, rxFifo, txFifo, held, asked>>

\* TFPCR: the write port joins the transmit FIFO; a full one ignores it.
PushTx ==
    /\ can.tfe /\ Len(txFifo) < Depth
    /\ txFifo' = Append(txFifo, box[Port].frame)
    /\ UNCHANGED <<box, can, rxFifo, held, asked, lost>>

\* The driver reads the head through mailbox 24, then pops it with RFPCR.
ReadHead ==
    /\ can.rfe /\ rxFifo # <<>> /\ held = None
    /\ held' = Head(rxFifo)
    /\ UNCHANGED <<box, can, rxFifo, txFifo, asked, lost>>

PopRx ==
    /\ held # None
    /\ rxFifo' = IF rxFifo = <<>> THEN <<>> ELSE Tail(rxFifo)
    /\ held' = None
    /\ UNCHANGED <<box, can, txFifo, asked, lost>>

-----------------------------------------------------------------------------
(* Attached parts and the error jig.                                         *)

\* component_take_rx_fifo.
ComponentTake ==
    /\ rxFifo # <<>> /\ (held = None \/ "take" \in CanRude)
    /\ rxFifo' = Tail(rxFifo)
    /\ UNCHANGED <<box, can, txFifo, held, asked, lost>>

\* component_send: the mailbox is made a transmit mailbox and delivered at once.
ComponentSend(m, frame) ==
    LET staged == [Bus EXCEPT !.box[m].rx = FALSE, !.box[m].frame = frame]
        b == Delivered(staged, m)
    IN  /\ can.mode = 0
        /\ "send" \in CanRude \/ (can.pending \in {None, m} /\ ~box[m].rx)
        /\ box' = b.box /\ can' = b.can /\ rxFifo' = b.rx /\ lost' = b.lost
        /\ asked' = asked \ {m}
        /\ UNCHANGED <<txFifo, held>>

\* The transmit counter stops at its limit, where the controller leaves the bus.
TransmitErrors(tec, n) == IF tec + n > BusOff THEN BusOff ELSE tec + n

\* inject_errors.
InjectErrors(errors) ==
    LET rec == IF can.rec + errors[1] > BusOff THEN BusOff ELSE can.rec + errors[1]
        tec == TransmitErrors(can.tec, errors[2])
        worst == IF rec > tec THEN rec ELSE tec
        raised == {f \in {"boef", "ewf", "epf"} :
                     \/ f = "boef" /\ can.tec + errors[2] > BusOff
                     \/ f = "ewf" /\ worst >= Warning
                     \/ f = "epf" /\ worst >= Passive}
    IN  /\ can' = [can EXCEPT !.rec = rec, !.tec = tec, !.flags = @ \cup raised]
        /\ UNCHANGED <<box, rxFifo, txFifo, held, asked, lost>>

\* EIFR: flags written 0 are cleared.
WriteEifr(cleared) ==
    /\ can' = [can EXCEPT !.flags = @ \ cleared]
    /\ UNCHANGED <<box, rxFifo, txFifo, held, asked, lost>>

Next ==
    \/ Tick
    \/ \E m \in Mailbox :
        \/ \E p, q, r \in BOOLEAN : WriteMctlTx(m, p, q, r)
        \/ \E p, q \in BOOLEAN : WriteMctlRx(m, p, q)
        \/ \E frame \in CanFrame : WriteFrame(m, frame) \/ ComponentSend(m, frame)
    \/ \E mode \in Modes : WriteCtlr(mode)
    \/ \E on \in BOOLEAN : WriteTcr(on)
    \/ \E on \in TxEnables : WriteTfcr(on)
    \/ \E set \in Filters : WriteFidcr(set)
    \/ \E on \in Enables, keep \in BOOLEAN : WriteRfcr(on, keep)
    \/ PushTx \/ ReadHead \/ PopRx \/ ComponentTake
    \/ \E errors \in Storm : InjectErrors(errors)
    \/ \E flag \in can.flags : WriteEifr({flag})

Spec == Init /\ [][Next]_canVars

-----------------------------------------------------------------------------
(* Properties.                                                               *)

TypeOK ==
    /\ Len(rxFifo) <= Depth /\ Len(txFifo) <= Depth
    /\ can.pending \in Mailbox \cup {None} /\ can.mode \in Modes
    /\ can.rec \in 0..BusOff /\ can.tec \in 0..BusOff

\* A request to transmit stays the pending one until SENTDATA, TRMABT or the
\* driver itself ends it: none is forgotten.
RequestsAnswered == asked = IF can.pending = None THEN {} ELSE {can.pending}

\* The flags of a mailbox are those of its direction: what the driver of one
\* direction would never clear is not left behind by the other.
FlagsFitDirection ==
    \A m \in Mailbox :
        /\ box[m].rx => ~box[m].sent /\ ~box[m].trmabt
        /\ ~box[m].rx => ~box[m].newdata /\ ~box[m].msglost

\* A frame lost since the driver last cleared the flags of that place is told
\* there: RFMLF, the MSGLOST of the mailbox, or NMLST.
LossesTold ==
    /\ Fifo \in lost => can.rfmlf
    /\ NoBox \in lost => can.nmlst
    /\ \A m \in Mailbox \cap lost : box[m].msglost

\* The head of the receive FIFO gives way only to who has read it: the driver,
\* which reads and pops in two steps, or an attached part, which does both.
HeadTakenAsRead ==
    [][rxFifo # <<>> /\ (rxFifo' = <<>> \/ Head(rxFifo') # Head(rxFifo))
        => held = Head(rxFifo) \/ ComponentTake]_canVars
=============================================================================
