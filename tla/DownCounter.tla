----------------------------- MODULE DownCounter ----------------------------
(***************************************************************************)
(* What the AGT promises: while it runs it counts down by one every Div      *)
(* instructions, and the step below zero reloads it, sets the flag and asks   *)
(* for an interrupt.  When anybody looks makes no difference.                *)
(***************************************************************************)
EXTENDS Integers

CONSTANTS Div, Count, Wrap   \* Wrap: bound, requests are counted modulo it

VARIABLES
    running, count, reload,
    phase,        \* instructions since the last count
    underflowed,  \* TUNDF
    requests      \* interrupts asked for

view == <<running, count, reload, phase, underflowed, requests>>

Init ==
    /\ running = FALSE /\ count = 0 /\ reload = 0
    /\ phase = 0 /\ underflowed = FALSE /\ requests = 0

CountDown ==
    IF count > 0
    THEN count' = count - 1 /\ UNCHANGED <<underflowed, requests>>
    ELSE count' = reload /\ underflowed' = TRUE /\ requests' = (requests + 1) % Wrap

\* One instruction.
Tick ==
    /\ IF ~running THEN UNCHANGED <<count, phase, underflowed, requests>>
       ELSE IF phase + 1 < Div
       THEN phase' = phase + 1 /\ UNCHANGED <<count, underflowed, requests>>
       ELSE phase' = 0 /\ CountDown
    /\ UNCHANGED <<running, reload>>

\* A start begins a period; a stop leaves the count alone; the flag is cleared or kept.
Control ==
    /\ running' \in BOOLEAN
    /\ count' = IF running' /\ ~running THEN reload ELSE count
    /\ underflowed' \in BOOLEAN /\ (underflowed' => underflowed)
    /\ UNCHANGED <<reload, phase, requests>>

Program ==
    /\ count' \in Count /\ reload' = count'
    /\ UNCHANGED <<running, phase, underflowed, requests>>

Spec == Init /\ [][Tick \/ Control \/ Program]_view
=============================================================================
