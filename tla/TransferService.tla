-------------------------- MODULE TransferService --------------------------
(***************************************************************************)
(* What the DMAC promises firmware: an armed channel accepts requests while *)
(* units are left, moves every accepted unit once and in the order of the   *)
(* requests, and reports its end only when all have moved.  When and in     *)
(* what bundles the units move, and whose turn it is, is left open.         *)
(***************************************************************************)
EXTENDS Integers, Sequences

CONSTANT Chan

VARIABLES
    armed,  \* DTE of each channel
    left,   \* units a channel still accepts
    owed,   \* accepted units that have not moved, oldest first
    ended   \* DTIF of each channel

vars == <<armed, left, owed, ended>>

Init ==
    /\ armed = [ch \in Chan |-> FALSE] /\ left = [ch \in Chan |-> 0]
    /\ owed = [ch \in Chan |-> <<>>] /\ ended = [ch \in Chan |-> FALSE]

\* Units are numbered by what is left when they are accepted.
Request(S, from) ==
    /\ \A ch \in S : armed[ch] /\ left[ch] > 0
    /\ left' = [ch \in Chan |-> IF ch \in S THEN left[ch] - 1 ELSE left[ch]]
    /\ owed' = [ch \in Chan |-> IF ch \in S THEN Append(from[ch], left[ch]) ELSE from[ch]]
    /\ UNCHANGED <<armed, ended>>

\* Moving a unit may bring about the next request.
Move(ch, S) ==
    /\ owed[ch] # <<>>
    /\ Request(S, [owed EXCEPT ![ch] = Tail(@)])

Complete(S) ==
    /\ \A ch \in S : armed[ch] /\ left[ch] = 0 /\ owed[ch] = <<>>
    /\ armed' = [ch \in Chan |-> armed[ch] /\ ch \notin S]
    /\ ended' = [ch \in Chan |-> ended[ch] \/ ch \in S]
    /\ UNCHANGED <<left, owed>>

\* Firmware arms, disarms, reloads and acknowledges; what was accepted stays owed.
Program(ch) ==
    /\ owed' = owed
    /\ \A d \in Chan \ {ch} :
          armed'[d] = armed[d] /\ left'[d] = left[d] /\ ended'[d] = ended[d]
    /\ ended'[ch] => ended[ch]

\* A system reset forgets everything.
Reset ==
    /\ armed' = [ch \in Chan |-> FALSE] /\ left' = [ch \in Chan |-> 0]
    /\ owed' = [ch \in Chan |-> <<>>] /\ ended' = [ch \in Chan |-> FALSE]

Next ==
    \/ Reset
    \/ \E S \in SUBSET Chan : Request(S, owed) \/ Complete(S)
    \/ \E ch \in Chan : Program(ch) \/ \E S \in SUBSET Chan : Move(ch, S)

Spec == Init /\ [][Next]_vars
=============================================================================
