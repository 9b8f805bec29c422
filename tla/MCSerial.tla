------------------------------ MODULE MCSerial ------------------------------
(***************************************************************************)
(* The serial peripherals on small instances.  They share nothing here, so *)
(* a behaviour is one of them: `part' says which, and the state space is   *)
(* the sum of theirs and not the product.  The SPI bus with its card and   *)
(* the I2C fabric are the modules themselves, the rest are instances.      *)
(***************************************************************************)
EXTENDS SpiBus, I2cFabric, TLC

CONSTANT Parts

VARIABLES
    part,
    box, can, rxFifo, txFifo, held, asked, lost,
    sel, mps, tx, rx, capture, brdy, bemp, dev, enb, irq, isr, wire, before,
    sci, jig, rxi, unread,
    ssi, txWords, rxWords, txi, ssiRxi, wanted, foreign

Enabled == {[ice |-> TRUE, rst |-> FALSE]}
Addresses == (0 :> {{0}, {0, 2}}) @@ (1 :> {{0}})
Errors == {<<1, 0>>, <<0, 2>>}

CanFifo == INSTANCE CanMailboxes WITH
    Mailbox <- {0}, Port <- 0, CanFrame <- {0, 1}, Depth <- 2, Filters <- {{1}}, Enables <- {TRUE, FALSE}, TxEnables <- {FALSE},
    Modes <- {0}, Storm <- {}, Warning <- 1, Passive <- 2, BusOff <- 3, CanRude <- {}
CanBox == INSTANCE CanMailboxes WITH
    Mailbox <- {0, 1}, Port <- 0, CanFrame <- {0, 1}, Depth <- 1, Filters <- {{}}, Enables <- {FALSE}, TxEnables <- {TRUE, FALSE},
    Modes <- {0, 2}, Storm <- {}, Warning <- 1, Passive <- 2, BusOff <- 3, CanRude <- {}
CanErr == INSTANCE CanMailboxes WITH
    Mailbox <- {0}, Port <- 0, CanFrame <- {0}, Depth <- 1, Filters <- {{}}, Enables <- {FALSE}, TxEnables <- {FALSE},
    Modes <- {0, 2}, Storm <- Errors, Warning <- 1, Passive <- 2, BusOff <- 3, CanRude <- {}
UsbTx == INSTANCE UsbDevice WITH
    Pipe <- {0, 1}, FifoPort <- {0}, UsbByte <- {1, 2}, In <- {1}, Out <- {}, HostCalls <- FALSE,
    Mps <- {2, 3}, MaxQueued <- 3, UsbRude <- {}
UsbRx == INSTANCE UsbDevice WITH
    Pipe <- {0, 1}, FifoPort <- {0}, UsbByte <- {1, 2}, In <- {}, Out <- {0, 1}, HostCalls <- FALSE,
    Mps <- {2}, MaxQueued <- 2, UsbRude <- {}
UsbHost == INSTANCE UsbDevice WITH
    Pipe <- {0}, FifoPort <- {0}, UsbByte <- {1}, In <- {}, Out <- {}, HostCalls <- TRUE,
    Mps <- {2}, MaxQueued <- 1, UsbRude <- {}
Sci == INSTANCE SciPort WITH
    SciByte <- {1, 2}, Synchronous <- {TRUE, FALSE}
Ssi == INSTANCE SsiFifo WITH
    SsiDepth <- 2, Modulus <- 4

ASSUME SerialAssumption == I2cAssumption /\ Careful /\ OneMaster /\ SpiAssumption /\ Polite

canState == <<box, can, rxFifo, txFifo, held, asked, lost>>
usbState == <<sel, mps, tx, rx, capture, brdy, bemp, dev, enb, irq, isr, wire, before>>
sciState == <<sci, jig, rxi, unread>>
ssiState == <<ssi, txWords, rxWords, txi, ssiRxi, wanted, foreign>>

serialVars == <<part, i2cVars, spiVars, canState, usbState, sciState, ssiState>>

SerialInit ==
    /\ part \in Parts
    /\ Init
    /\ I2cInit
    /\ IF part = "canfifo" THEN CanFifo!Init
       ELSE IF part = "canbox" THEN CanBox!Init
       ELSE CanErr!Init
    /\ IF part = "usbtx" THEN UsbTx!Init
       ELSE IF part = "usbrx" THEN UsbRx!Init
       ELSE UsbHost!Init
    /\ Sci!Init
    /\ Ssi!Init

I2cStep ==
    /\ part = "i2c" /\ I2cNext
    /\ UNCHANGED <<part, spiVars, canState, usbState, sciState, ssiState>>

SdStep ==
    /\ part = "sd" /\ Next
    /\ UNCHANGED <<part, i2cVars, canState, usbState, sciState, ssiState>>

CanStep ==
    /\ \/ part = "canfifo" /\ CanFifo!Next
       \/ part = "canbox" /\ CanBox!Next
       \/ part = "canerr" /\ CanErr!Next
    /\ UNCHANGED <<part, i2cVars, spiVars, usbState, sciState, ssiState>>

UsbStep ==
    /\ \/ part = "usbtx" /\ UsbTx!Next
       \/ part = "usbrx" /\ UsbRx!Next
       \/ part = "usbhost" /\ UsbHost!Next
    /\ UNCHANGED <<part, i2cVars, spiVars, canState, sciState, ssiState>>

SciStep ==
    /\ part = "sci" /\ Sci!Next
    /\ UNCHANGED <<part, i2cVars, spiVars, canState, usbState, ssiState>>

SsiStep ==
    /\ part = "ssi" /\ Ssi!Next
    /\ UNCHANGED <<part, i2cVars, spiVars, canState, usbState, sciState>>

SerialNext == I2cStep \/ SdStep \/ CanStep \/ UsbStep \/ SciStep \/ SsiStep

\* Firmware that polls the card keeps running.
SdPolls == part = "sd" /\ (Send \/ Take) /\ UNCHANGED <<part, i2cVars, canState, usbState, sciState, ssiState>>

SerialSpec == SerialInit /\ [][SerialNext]_serialVars /\ WF_serialVars(SdPolls)

-----------------------------------------------------------------------------
(* The properties, each of the instances it is about; the component's module *)
(* says what it means.  Those of the card and of the fabric are in theirs.      *)

\* CAN: a request to transmit is pending until it is answered, the flags of a
\* mailbox are those of its direction, a frame lost is told where it was lost, and the
\* head of the receive FIFO gives way to who has read it.
FramesAccounted ==
    /\ [](part = "canbox" => CanBox!RequestsAnswered /\ CanBox!FlagsFitDirection /\ CanBox!LossesTold)
    /\ [](part = "canfifo" => CanFifo!LossesTold)
    /\ CanFifo!HeadTakenAsRead

\* USB: what the driver writes reaches the host in order and once, bytes that have
\* arrived have somebody to read them, and resume brings back the state before the
\* suspension.
BytesArrive ==
    /\ [](part = "usbtx" => UsbTx!TxExact)
    /\ [](part = "usbrx" => UsbRx!RxNoticed)
    /\ UsbHost!ResumeRestores

\* What is received is kept: a byte of SCI keeps RDRF set until the driver clears it,
\* the SSI driver reads the pattern without a gap, and an unread byte of I2C or of
\* synchronous SCI is not overwritten.
InputKept ==
    /\ [](Sci!ReceivedStays /\ Ssi!PatternUnbroken)
    /\ NothingOverwritten /\ Sci!UnreadKept
=============================================================================
