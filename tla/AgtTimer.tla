------------------------------ MODULE AgtTimer ------------------------------
(***************************************************************************)
(* One AGT channel (RaAgt of peripherals/ra_misc.rs).  It keeps the time of  *)
(* its last look at the clock and the instructions short of a count, and     *)
(* catches up when the driver ticks it or firmware touches a register.  A    *)
(* channel without an event code asks for nothing.                           *)
(***************************************************************************)
EXTENDS Integers

CONSTANTS
    Div,       \* 16 instructions a count
    AgtCount,  \* what is programmed as a count
    AgtMaxLag, \* bound: instructions between two looks
    Wrap       \* bound: underflow events are counted modulo it

VARIABLES
    agt,       \* TSTART, TUNDF, the counter, reload and div_acc
    agtLag,    \* instructions since last_tick
    raised     \* underflow events raised

agtVars == <<agt, agtLag, raised>>

AgtAssumption ==
    /\ Div \in Nat \ {0} /\ Wrap \in Nat \ {0}
    /\ AgtCount \subseteq Nat /\ AgtMaxLag \in Nat

AgtInit ==
    /\ agt = [run |-> FALSE, tundf |-> FALSE, cnt |-> 0, reload |-> 0, acc |-> 0]
    /\ agtLag = 0 /\ raised = 0

\* One turn of the loop of advance.
Turn(w) ==
    IF w.u.cnt > 0 THEN [w EXCEPT !.u.cnt = @ - 1]
    ELSE [u |-> [w.u EXCEPT !.cnt = w.u.reload, !.tundf = TRUE], n |-> w.n + 1]

\* Mutant: what is short of a count is dropped with every look.
LeftOverDropped(time) == 0

LeftOver(time) == time % Div

\* advance: the channel after `time' instructions, and its underflows.
Elapsed(u, time) ==
    LET total == u.acc + time
        walk[i \in 0..(total \div Div)] ==
            IF i = 0 THEN [u |-> [u EXCEPT !.acc = LeftOver(total)], n |-> 0] ELSE Turn(walk[i - 1])
    IN  IF u.run THEN walk[total \div Div] ELSE [u |-> u, n |-> 0]

Looked(v) ==
    LET w == Elapsed(agt, agtLag) IN
    /\ agt' = [w.u EXCEPT !.run = v.run, !.cnt = v.cnt, !.reload = v.reload, !.tundf = v.tundf]
    /\ raised' = (raised + w.n) % Wrap
    /\ agtLag' = 0

Caught == Elapsed(agt, agtLag).u

AgtPass == agtLag < AgtMaxLag /\ agtLag' = agtLag + 1 /\ UNCHANGED <<agt, raised>>

\* tick, or a read.
Look == agtLag > 0 /\ Looked(Caught)

\* AGTCR: TSTOP overrides TSTART, flags written 0 are cleared, a start reloads.
WriteAgtcr(tstart, tstop, keep) ==
    LET run == tstart /\ ~tstop IN
    Looked([Caught EXCEPT !.run = run, !.tundf = @ /\ keep,
                          !.cnt = IF run /\ ~agt.run THEN agt.reload ELSE @])

WriteCount(n) == Looked([Caught EXCEPT !.cnt = n, !.reload = n])

AgtNext ==
    \/ AgtPass \/ Look
    \/ \E tstart, tstop, keep \in BOOLEAN : WriteAgtcr(tstart, tstop, keep)
    \/ \E n \in AgtCount : WriteCount(n)

AgtSpec == AgtInit /\ [][AgtNext]_agtVars

-----------------------------------------------------------------------------
(* Properties.                                                               *)

AgtRegisters == [run : BOOLEAN, tundf : BOOLEAN, cnt : Nat, reload : Nat, acc : 0..(Div - 1)]

AgtTypeOK == agt \in AgtRegisters /\ agtLag \in 0..AgtMaxLag /\ raised \in 0..(Wrap - 1)

Ahead == Elapsed(agt, agtLag)

Down == INSTANCE DownCounter WITH
    Count <- AgtCount, running <- agt.run, count <- Ahead.u.cnt, reload <- agt.reload, phase <- Ahead.u.acc,
    underflowed <- Ahead.u.tundf, requests <- (raised + Ahead.n) % Wrap

\* Count, flag and the number of underflows are those of a counter that counts
\* as time passes, however time is cut into ticks, reads and writes.
IsCounting == Down!Spec
=============================================================================
