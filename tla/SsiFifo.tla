------------------------------- MODULE SsiFifo ------------------------------
(***************************************************************************)
(* One SSI channel (peripherals/ra_ssi.rs): the tick empties the transmit    *)
(* FIFO and adds one word of a counting pattern to the receive FIFO, and     *)
(* raises an interrupt on an edge it sees at the tick.  An attached part     *)
(* takes and adds words between ticks.                                       *)
(***************************************************************************)
EXTENDS Integers, Sequences

CONSTANTS
    SsiDepth,    \* FIFO_DEPTH
    Modulus      \* bound: the pattern counter and the driver's words wrap here

VARIABLES
    ssi,      \* REN, TEN, RIE, TIE, rx_next, was_tde, was_rdf
    txWords, rxWords,
    txi, ssiRxi,   \* events raised and not taken
    wanted,   \* history: the pattern word the driver reads next
    foreign   \* history: an attached part has put samples into the receive FIFO

ssiVars == <<ssi, txWords, rxWords, txi, ssiRxi, wanted, foreign>>
Sample == -1

Init ==
    /\ ssi = [ren |-> FALSE, ten |-> FALSE, rie |-> FALSE, tie |-> FALSE, next |-> 0,
              wasTde |-> TRUE, wasRdf |-> FALSE]
    /\ txWords = 0 /\ rxWords = <<>>
    /\ txi = FALSE /\ ssiRxi = FALSE /\ wanted = 0 /\ foreign = FALSE

\* Mutant: the pattern goes on while the FIFO is full.
CountedOn(full) == (ssi.next + 1) % Modulus

\* rx_next after a tick with REN.
Counted(full) == IF full THEN ssi.next ELSE (ssi.next + 1) % Modulus

Tick ==
    LET full == Len(rxWords) >= SsiDepth
        rx == IF ssi.ren /\ ~full THEN Append(rxWords, ssi.next) ELSE rxWords
        tx == IF ssi.ten THEN 0 ELSE txWords
        tde == tx = 0
        rdf == rx # <<>>
    IN  /\ txWords' = tx /\ rxWords' = rx
        /\ ssi' = [ssi EXCEPT !.next = IF ssi.ren THEN Counted(full) ELSE @,
                              !.wasTde = tde, !.wasRdf = rdf]
        /\ txi' = (txi \/ (ssi.tie /\ tde /\ ~ssi.wasTde))
        /\ ssiRxi' = (ssiRxi \/ (ssi.rie /\ rdf /\ ~ssi.wasRdf))
        /\ UNCHANGED <<wanted, foreign>>

WriteSsicr(ren, ten) ==
    /\ ssi' = [ssi EXCEPT !.ren = ren, !.ten = ten]
    /\ UNCHANGED <<txWords, rxWords, txi, ssiRxi, wanted, foreign>>

\* SSIFCR: the enables, and the two reset strobes.
WriteSsifcr(rie, tie, rfrst, tfrst) ==
    /\ ssi' = [ssi EXCEPT !.rie = rie, !.tie = tie, !.next = IF rfrst THEN 0 ELSE @]
    /\ rxWords' = IF rfrst THEN <<>> ELSE rxWords
    /\ txWords' = IF tfrst THEN 0 ELSE txWords
    /\ wanted' = IF rfrst THEN 0 ELSE wanted
    /\ foreign' = (foreign /\ ~rfrst)
    /\ UNCHANGED <<txi, ssiRxi>>

\* SSIFTDR: a full FIFO drops the word.
WriteSsiftdr ==
    /\ txWords' = IF txWords < SsiDepth THEN txWords + 1 ELSE txWords
    /\ UNCHANGED <<ssi, rxWords, txi, ssiRxi, wanted, foreign>>

ReadSsifrdr ==
    /\ rxWords # <<>>
    /\ rxWords' = Tail(rxWords)
    /\ wanted' = IF Head(rxWords) = Sample THEN wanted ELSE (Head(rxWords) + 1) % Modulus
    /\ UNCHANGED <<ssi, txWords, txi, ssiRxi, foreign>>

\* component_exchange: everything out, n samples in as far as they fit.
ComponentExchange(n) ==
    LET room == SsiDepth - Len(rxWords)
        fits == IF ~ssi.ren THEN 0 ELSE IF n < room THEN n ELSE room
    IN  /\ txWords' = 0
        /\ rxWords' = rxWords \o [i \in 1..fits |-> Sample]
        /\ foreign' = (foreign \/ fits > 0)
        /\ UNCHANGED <<ssi, txi, ssiRxi, wanted>>

Take == (txi \/ ssiRxi) /\ txi' = FALSE /\ ssiRxi' = FALSE /\ UNCHANGED <<ssi, txWords, rxWords, wanted, foreign>>

Next ==
    \/ Tick
    \/ \E ren, ten \in BOOLEAN : WriteSsicr(ren, ten)
    \/ \E rie, tie, rfrst, tfrst \in BOOLEAN : WriteSsifcr(rie, tie, rfrst, tfrst)
    \/ WriteSsiftdr \/ ReadSsifrdr \/ Take
    \/ \E n \in 0..1 : ComponentExchange(n)

Spec == Init /\ [][Next]_ssiVars

-----------------------------------------------------------------------------
(* Properties.                                                               *)

TypeOK == txWords \in 0..SsiDepth /\ Len(rxWords) <= SsiDepth /\ ssi.next \in 0..(Modulus - 1)

\* The driver reads the pattern without a gap and without a repetition, however
\* long the FIFO was full and whatever samples a part put between its words.
PatternUnbroken ==
    LET own == SelectSeq(rxWords, LAMBDA w : w # Sample)
    IN  \A i \in DOMAIN own : own[i] = (wanted + i - 1) % Modulus

\* A tick that empties the transmit FIFO tells the driver.
EmptyTold ==
    [][Tick /\ ssi.tie /\ txWords > 0 /\ txWords' = 0 => txi']_ssiVars

\* Data that arrives in an empty receive FIFO tells the driver.
ArrivalTold == [][Tick /\ ssi.rie /\ rxWords = <<>> /\ rxWords' # <<>> => ssiRxi']_ssiVars

\* Words leave the transmit FIFO only while TEN is set or by TFRST.
SentWhileEnabled ==
    [][txWords' < txWords => ssi.ten \/ \E p, q, r \in BOOLEAN : WriteSsifcr(p, q, r, TRUE)]_ssiVars
=============================================================================
