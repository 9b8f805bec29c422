--------------------------- MODULE MCEventRouting ---------------------------
(***************************************************************************)
(* EventRouting on two small instances; `part' says which of them a         *)
(* behaviour is.  "lines" is the module with the constants of the run: one   *)
(* DMAC channel and one DTC line.  "channels" has a second channel beside    *)
(* the first, from which a component takes units, units that become due a    *)
(* slice later, and no DTC.  The properties are EventRouting's own: in       *)
(* "channels" they are about channel 0, which shares queue, clock and flag   *)
(* with channel 1.                                                          *)
(***************************************************************************)
EXTENDS EventRouting

CONSTANT Parts

VARIABLE part

\* A peripheral's event, or the end of a DMAC channel, activates the DTC.
ToDtc == {[event |-> 5, dtce |-> TRUE], [event |-> 17, dtce |-> TRUE]}
RepeatOrNormal == {[mode |-> "repeat", each |-> FALSE, srcRepeat |-> TRUE, length |-> 2],
                   [mode |-> "normal", each |-> TRUE, srcRepeat |-> FALSE, length |-> 2]}

Channels == INSTANCE EventRouting WITH
    Chan <- {0, 1}, Plain <- {}, Ielsr <- {}, Settings <- {}, Sources <- {}, DtcEvents <- {},
    Ops <- {"reset"}, Taken <- {1}, MaxUnits <- 1, MaxSlice <- 1, MaxPending <- 0, Room <- 1

ASSUME RoutingAssumptions == RoutingAssumption /\ Channels!RoutingAssumption

PartInit == part \in Parts /\ IF part = "lines" THEN Init ELSE Channels!Init

Lines == part = "lines" /\ UNCHANGED part
Beside == part = "channels" /\ UNCHANGED part

\* Bound: in "channels" firmware writes neither DMINT nor DMTMD.
Bounded == \A ch \in DOMAIN dmac' : ~dmac'[ch].dtie /\ ~dmac'[ch].realMode

PartNext ==
    \/ Lines /\ Next
    \/ Beside /\ Channels!Next /\ Bounded

allVars == <<part, vars>>

\* The fairness of FairSpec, in either part.
Fair ==
    /\ WF_allVars((Lines /\ RunDrain) \/ (Beside /\ Channels!RunDrain))
    /\ WF_allVars((Lines /\ DrainStep) \/ (Beside /\ Channels!DrainStep))
    /\ SF_allVars((Lines /\ DmacTick) \/ (Beside /\ Channels!DmacTick))

PartSpec == PartInit /\ [][PartNext]_allVars /\ Fair
=============================================================================
