------------------------------ MODULE PortPins ------------------------------
(***************************************************************************)
(* The pins of a port and their PFS words (peripherals/ra_port.rs), with the *)
(* SoftwareSerial wire from one output to one input and the LED-matrix trace *)
(* the page decodes.  Inputs the page sets are left out.  A register's half   *)
(* is the set of its bits that are 1.  A PFS word is [out, dir, gpt]: PODR,   *)
(* PDR and whether PSEL routes a GPT output to the pin; what else it holds is *)
(* only retained.                                                            *)
(***************************************************************************)
EXTENDS Integers, TLAPS

CONSTANTS
    Pin,
    Tx, Rx,     \* the two ends of the wire
    Pwm,        \* pins with a GPT channel behind them
    Half        \* what firmware writes to half of a register

PinAssumption == Tx \in Pin /\ Rx \in Pin \ {Tx} /\ Pwm \subseteq Pin /\ Half \subseteq SUBSET Pin

VARIABLES
    pdr, podr, pidr,
    pfs,        \* the PFS word of each pin
    gpt,        \* the GPT outputs that are high (GPT_OUT)
    frame,      \* the newest snapshot of MATRIX_TRACE
    edges,      \* edges of the RX pin's IRQ line, odd or even
    falling     \* whether the last edge fell

pinVars == <<pdr, podr, pidr, pfs, gpt, frame, edges, falling>>

ResetWord == [out |-> FALSE, dir |-> FALSE, gpt |-> FALSE]

PinInit ==
    /\ pdr = {} /\ podr = {} /\ pidr = {}
    /\ pfs = [p \in Pin |-> ResetWord] /\ gpt = {}
    /\ frame = [dir |-> {}, out |-> {}] /\ edges = 0 /\ falling = TRUE

-----------------------------------------------------------------------------
(* What every change of an output brings about.                              *)

\* The pins whose output changes.
Changed(new) == {p \in Pin : (p \in podr) # (p \in new)}

\* drive_wire: the RX pin follows, with an edge of its IRQ line.
Drive(new) ==
    IF Tx \notin Changed(new) THEN UNCHANGED <<pidr, edges, falling>>
    ELSE /\ pidr' = IF Tx \in new THEN pidr \cup {Rx} ELSE pidr \ {Rx}
         /\ edges' = 1 - edges
         /\ falling' = (Tx \notin new)

\* Outputs and directions change, and the trace records both.
Settle(dir, new) ==
    /\ pdr' = dir /\ podr' = new
    /\ Drive(new)
    /\ frame' = [dir |-> dir, out |-> new]

With(S, p, on) == IF on THEN S \cup {p} ELSE S \ {p}

\* Mutant: a level set through a PFS word does not reach the wire.
SyncQuiet(p, w) ==
    /\ pdr' = With(pdr, p, w.dir) /\ podr' = With(podr, p, w.out)
    /\ frame' = [dir |-> pdr', out |-> podr']
    /\ UNCHANGED <<pidr, edges, falling>>

\* pfs_sync_pin
Sync(p, w) == Settle(With(pdr, p, w.dir), With(podr, p, w.out))

\* Reads of a routed pin give the level of its channel (routed_gpt).
Routed == {p \in Pwm : pfs[p].gpt}
Seen(S) == (S \ Routed) \cup (gpt \cap Routed)

-----------------------------------------------------------------------------
(* Firmware.                                                                 *)

\* PCNTR1 by halves: PDR below, PODR above.
WritePdr(S) == Settle(S, podr) /\ UNCHANGED <<pfs, gpt>>
WritePodr(S) == Settle(pdr, S) /\ UNCHANGED <<pfs, gpt>>

\* PCNTR3, or PCNTR4 which acts at once too: POSR below, PORR above, sets first.
WritePcntr3(set, clear) ==
    Settle(pdr, (podr \cup set) \ clear) /\ UNCHANGED <<pfs, gpt>>

\* PCNTR1 read and written back with other directions.
RmwPdr(S) == Settle(S, Seen(podr)) /\ UNCHANGED <<pfs, gpt>>

WritePfs(p, w) ==
    /\ pfs' = [pfs EXCEPT ![p] = w] /\ Sync(p, w)
    /\ UNCHANGED gpt

\* A PFS word read and written back with another function of the pin.
RmwPfs(p, on) == WritePfs(p, [pfs[p] EXCEPT !.gpt = on])

\* The channel behind a pin (external to this module).
GptOut(p, high) ==
    /\ gpt' = With(gpt, p, high)
    /\ UNCHANGED <<pdr, podr, pidr, pfs, frame, edges, falling>>

PinNext ==
    \/ \E S \in Half : WritePdr(S) \/ WritePodr(S) \/ RmwPdr(S)
    \/ \E set, clear \in Half : WritePcntr3(set, clear)
    \/ \E p \in Pin, out, dir, on \in BOOLEAN :
          WritePfs(p, [out |-> out, dir |-> dir, gpt |-> on]) \/ RmwPfs(p, on)
    \/ \E p \in Pwm, high \in BOOLEAN : GptOut(p, high)

PinSpec == PinInit /\ [][PinNext]_pinVars

-----------------------------------------------------------------------------
(* Properties.                                                               *)

\* The page decodes LEDs from the trace: its newest snapshot is what the pins
\* drive, whichever of the five registers changed them.
TraceAgrees == frame = [dir |-> pdr, out |-> podr]

\* The receiving end of the wire is at the level of the sending end, and its IRQ
\* line has seen one edge, in the right direction, for every change.
WireAgrees ==
    /\ Rx \in pidr <=> Tx \in podr
    /\ edges = 1 <=> Tx \in podr
    /\ falling <=> Tx \notin podr

PinsAgree == TraceAgrees /\ WireAgrees

\* A pin's PFS word carries the live direction and output level (ra_port.rs:247).
WordIsLive == \A p \in Pin : (pfs[p].out <=> p \in podr) /\ (pfs[p].dir <=> p \in pdr)

\* Changing the function of a pin, or the direction of others, does not change the level it drives.
LevelKept ==
    [][(\E p \in Pin, on \in BOOLEAN, S \in Half : RmwPfs(p, on) \/ RmwPdr(S)) => podr' = podr]_pinVars

-----------------------------------------------------------------------------
(* Theorems, for any number of pins.                                         *)

\* What the edges are counted in.
PinInv == edges \in {0, 1} /\ PinsAgree

\* Whatever changes the outputs settles wire and trace too.
LEMMA SettleAgrees ==
    ASSUME PinAssumption, PinInv, NEW dir, NEW new, Settle(dir, new)
    PROVE  PinInv'
<1>1. /\ podr' = new /\ pdr' = dir /\ frame' = [dir |-> dir, out |-> new]
      /\ Drive(new)
  BY DEF Settle
<1>2. Tx \in Pin /\ Rx # Tx
  BY DEF PinAssumption
<1>3. CASE Tx \notin Changed(new)
  <2>1. (Tx \in podr) = (Tx \in new)
    BY <1>2, <1>3 DEF Changed
  <2> QED BY <1>1, <1>3, <2>1 DEF Drive, PinInv, PinsAgree, TraceAgrees, WireAgrees
<1>4. CASE Tx \in Changed(new)
  <2>1. (Tx \in podr) # (Tx \in new)
    BY <1>2, <1>4 DEF Changed
  <2>2. edges' = 1 - edges /\ falling' = (Tx \notin new) /\ (Rx \in pidr' <=> Tx \in new)
    BY <1>1, <1>4 DEF Drive
  <2>3. edges' \in {0, 1} /\ (edges' = 1 <=> Tx \in new)
    BY <2>1, <2>2 DEF PinInv, PinsAgree, WireAgrees
  <2> QED BY <1>1, <2>2, <2>3 DEF PinInv, PinsAgree, TraceAgrees, WireAgrees
<1> QED
  BY <1>3, <1>4

\* The far end of the wire and the page see what the pins drive, through every
\* register that changes an output (ra_port.rs).
THEOREM PinsHonest ==
    ASSUME PinAssumption
    PROVE  PinSpec => []PinsAgree
<1>1. PinInit => PinInv
  BY DEF PinInit, PinInv, PinsAgree, TraceAgrees, WireAgrees
<1>2. PinInv /\ [PinNext]_pinVars => PinInv'
  <2> SUFFICES ASSUME PinInv, [PinNext]_pinVars PROVE PinInv'
    OBVIOUS
  <2>1. ASSUME NEW S, WritePdr(S) \/ WritePodr(S) \/ RmwPdr(S) PROVE PinInv'
    BY <2>1, SettleAgrees DEF WritePdr, WritePodr, RmwPdr
  <2>2. ASSUME NEW set, NEW clear, WritePcntr3(set, clear) PROVE PinInv'
    BY <2>2, SettleAgrees DEF WritePcntr3
  <2>3. ASSUME NEW p, NEW w, WritePfs(p, w) PROVE PinInv'
    BY <2>3, SettleAgrees DEF WritePfs, Sync
  <2>4. ASSUME NEW p, NEW on, RmwPfs(p, on) PROVE PinInv'
    BY <2>3, <2>4 DEF RmwPfs
  <2>5. ASSUME NEW p, NEW high, GptOut(p, high) PROVE PinInv'
    BY <2>5 DEF GptOut, PinInv, PinsAgree, TraceAgrees, WireAgrees
  <2>6. ASSUME UNCHANGED pinVars PROVE PinInv'
    BY <2>6 DEF pinVars, PinInv, PinsAgree, TraceAgrees, WireAgrees
  <2> QED BY <2>1, <2>2, <2>3, <2>4, <2>5, <2>6 DEF PinNext
<1>3. PinInv => PinsAgree
  BY DEF PinInv
<1> QED
  BY <1>1, <1>2, <1>3, PTL DEF PinSpec
=============================================================================
