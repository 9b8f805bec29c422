------------------------ MODULE PriorityPreemption ------------------------
(***************************************************************************)
(* What the exception engine promises, without stacks, masks, frames or    *)
(* registers: a set of activated exceptions of pairwise different levels,  *)
(* of which the most urgent one runs.  An exception is activated only above *)
(* everything that is activated already, and only the running one finishes. *)
(***************************************************************************)
EXTENDS Integers

CONSTANTS Exception, Idle

VARIABLES pend, activated, running, level
vars == <<pend, activated, running, level>>

\* The exception that has to run when S is what is activated.
MostUrgent(S) ==
    IF S = {} THEN Idle ELSE CHOOSE e \in S : \A d \in S : level[e] <= level[d]

Init ==
    /\ pend = {} /\ activated = {} /\ running = Idle
    /\ level \in [Exception -> Int]

\* Activate e, once the exceptions in Done have finished: none, or the running
\* one in a tail-chain.
Activate(e, Done) ==
    /\ Done \subseteq {running} \cap activated
    /\ \A a \in activated \ Done : level[e] < level[a]
    /\ activated' = (activated \ Done) \cup {e}
    /\ running' = e
    /\ pend' = pend \ {e}
    /\ UNCHANGED level

Complete ==
    /\ running \in activated
    /\ activated' = activated \ {running}
    /\ running' = MostUrgent(activated')
    /\ UNCHANGED <<pend, level>>

\* Requests come and go without disturbing what runs.
Request == pend' \in SUBSET Exception /\ UNCHANGED <<activated, running, level>>

\* Levels change only below the running exceptions' feet: never an active one's.
Relevel ==
    /\ level' \in [Exception -> Int]
    /\ \A a \in activated : level'[a] = level[a]
    /\ UNCHANGED <<pend, activated, running>>

Next ==
    \/ \E e \in Exception, Done \in SUBSET activated : Activate(e, Done)
    \/ Complete \/ Request \/ Relevel

Spec == Init /\ [][Next]_vars
=============================================================================
