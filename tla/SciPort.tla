------------------------------- MODULE SciPort ------------------------------
(***************************************************************************)
(* One SCI channel (peripherals/ra_sci.rs) as a UART and as a clock-         *)
(* synchronous master.  Bytes arrive from the page at any time; a byte       *)
(* written to TDR has left before the store returns.  rx_buf, which nothing  *)
(* reads, and the console are left out.                                      *)
(***************************************************************************)
EXTENDS Integers

CONSTANTS
    SciByte,
    Synchronous   \* what SMR.CM is set to

VARIABLES
    sci,      \* SMR.CM, the enables of SCR, RDR and the flags of SSR
    jig,      \* the loopback of the channel
    rxi,      \* SCIn_RXI raised and not taken
    unread    \* history: the bytes received since the driver last cleared RDRF

sciVars == <<sci, jig, rxi, unread>>
PullUp == 255

Init ==
    /\ sci = [sync |-> FALSE, te |-> FALSE, rie |-> FALSE, rdr |-> 0, rdrf |-> FALSE, orer |-> FALSE]
    /\ jig = FALSE /\ rxi = FALSE /\ unread = 0

\* update_irq after a change of the flags.
Raises(u) == u.rie /\ u.rdrf

Becomes(u) == sci' = u /\ rxi' = (rxi \/ Raises(u))

\* A synchronous transfer samples MISO; an unread byte stays.
Sampled(u, byte) ==
    IF u.rdrf THEN [u EXCEPT !.orer = TRUE] ELSE [u EXCEPT !.rdr = byte, !.rdrf = TRUE]

\* What the store to TDR leaves in SSR: TDRE and the bit below it.
AfterTransmit(u) == [u EXCEPT !.rdrf = TRUE]

WriteTdr(byte) ==
    /\ \/ /\ sci.sync /\ sci.te
          /\ Becomes(AfterTransmit(Sampled(sci, IF jig THEN byte ELSE PullUp)))
          /\ unread' = 1
       \/ /\ sci.sync /\ ~sci.te
          /\ UNCHANGED <<sci, rxi, unread>>
       \/ /\ ~sci.sync
          /\ Becomes(AfterTransmit(sci))
          /\ UNCHANGED unread
    /\ UNCHANGED jig

RxByte(byte) ==
    /\ Becomes([sci EXCEPT !.rdr = byte, !.rdrf = TRUE])
    /\ unread' = IF unread < 2 THEN unread + 1 ELSE unread
    /\ UNCHANGED jig

WriteScr(te, rie) ==
    /\ Becomes([sci EXCEPT !.te = te, !.rie = rie])
    /\ UNCHANGED <<jig, unread>>

WriteSmr(sync) == sci' = [sci EXCEPT !.sync = sync] /\ UNCHANGED <<jig, rxi, unread>>

\* SSR: a flag written 0 is cleared; the driver has read RDR before.
WriteSsr(keepRdrf, keepOrer) ==
    /\ sci' = [sci EXCEPT !.rdrf = @ /\ keepRdrf, !.orer = @ /\ keepOrer]
    /\ unread' = IF keepRdrf THEN unread ELSE 0
    /\ UNCHANGED <<jig, rxi>>

TakeRxi == rxi /\ rxi' = FALSE /\ UNCHANGED <<sci, jig, unread>>
SetLoopback(on) == jig' = on /\ UNCHANGED <<sci, rxi, unread>>

Next ==
    \/ \E byte \in SciByte : WriteTdr(byte) \/ RxByte(byte)
    \/ \E te, rie \in BOOLEAN : WriteScr(te, rie)
    \/ \E sync \in Synchronous : WriteSmr(sync)
    \/ \E p, q \in BOOLEAN : WriteSsr(p, q)
    \/ TakeRxi
    \/ \E on \in BOOLEAN : SetLoopback(on)

Spec == Init /\ [][Next]_sciVars

-----------------------------------------------------------------------------
(* Properties.                                                               *)

TypeOK == sci.rdr \in SciByte \cup {0, PullUp} /\ unread \in 0..2

\* A received byte keeps RDRF set until the driver clears it.
ReceivedStays == unread > 0 => sci.rdrf

\* A synchronous transfer never overwrites the byte the driver has not read.
UnreadKept ==
    [][sci.sync /\ sci.te /\ sci.rdrf /\ sci'.rdr # sci.rdr => \E byte \in SciByte : RxByte(byte)]_sciVars

\* RDRF stands for a received byte.
RdrfMeansReceived == sci.rdrf => unread > 0

\* A UART byte that replaces one the driver has not read is told in ORER.
OverrunTold == unread > 1 => sci.orer
=============================================================================
