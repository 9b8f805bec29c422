----------------------------- MODULE TickTimer -----------------------------
(***************************************************************************)
(* What a bank of GPT channels promises: every running channel counts by    *)
(* one at every tick of a common clock, and what its count reaches happens  *)
(* then, not when somebody looks.  Events are owed from the tick at which   *)
(* they occur until they are sent, all of them, in order.                   *)
(***************************************************************************)
EXTENDS Integers, Sequences

CONSTANT Channel

VARIABLES
    timer,  \* the registers of each channel, as a reader would find them now
    owed,   \* the events of each channel not yet sent, with their ticks
    age     \* ticks since the channel last sent

vars == <<timer, owed, age>>

Match == {"A", "B"}

-----------------------------------------------------------------------------
\* The compares of t that stand at n.
Matches(t, n) == {m \in Match : t.cc[m] = n}

\* A channel started at 0 is at the start of a cycle.
Edge(t) == IF t.edge THEN Matches(t, 0) ELSE {}

Ends(t) == t.cnt = t.pr

\* A period end loads the buffered compares.
Counted(t) ==
    IF ~Ends(t) THEN [t EXCEPT !.cnt = @ + 1, !.edge = FALSE]
    ELSE [t EXCEPT !.cnt = 0, !.edge = FALSE,
                   !.cc = [m \in Match |-> IF m \in t.ber THEN t.buffer[m] ELSE t.cc[m]]]

Reached(t) == Matches(Counted(t), Counted(t).cnt)

\* A match lowers its output, a period end raises all.
Ticked(t) ==
    [Counted(t) EXCEPT
        !.st  = @ \cup Edge(t) \cup (IF Ends(t) THEN {"OVF"} ELSE {}) \cup Reached(t),
        !.out = ((@ \ (t.oe \cap Edge(t))) \cup (IF Ends(t) THEN t.oe ELSE {})) \ (t.oe \cap Reached(t))]

\* Matches of one tick join what is owed, A before B.
Joined(events, S, tick) ==
    LET a == IF "A" \in S THEN Append(events, <<"A", tick>>) ELSE events
    IN  IF "B" \in S THEN Append(a, <<"B", tick>>) ELSE a

\* What is owed after the tick that follows `tick': the end of a period comes before
\* the matches at the start of the next.
Owing(t, events, tick) ==
    LET begun == Joined(events, Edge(t), tick)
    IN  Joined(IF Ends(t) THEN Append(begun, <<"OVF", tick + 1>>) ELSE begun, Reached(t), tick + 1)

-----------------------------------------------------------------------------
Tick ==
    /\ timer' = [c \in Channel |->
          IF timer[c].running THEN Ticked(timer[c]) ELSE timer[c]]
    /\ owed' = [c \in Channel |->
          IF timer[c].running THEN Owing(timer[c], owed[c], age[c]) ELSE owed[c]]
    /\ age' = [c \in Channel |-> age[c] + 1]

Send(c) ==
    /\ owed' = [owed EXCEPT ![c] = <<>>]
    /\ age' = [age EXCEPT ![c] = 0]

\* Firmware may configure, start, stop or clear a channel, acknowledge its flags
\* and set the count of a stopped one: none of it raises a flag, moves an output
\* or begins a cycle anew in a running channel that stands at 0.
Touched(t, u) ==
    /\ u.st \subseteq t.st /\ u.out = t.out
    /\ u.cnt \in {t.cnt, 0} \/ ~t.running
    /\ u.edge => t.edge \/ ~t.running \/ t.cnt # 0 \/ u.cc # t.cc

Write(c) ==
    /\ Send(c)
    /\ \A d \in Channel \ {c} : timer'[d] = timer[d]
    /\ Touched(timer[c], timer'[c])

\* Reading brings nothing about: it only sends what is owed.
Read(c) == Send(c) /\ UNCHANGED timer

\* A link signal starts and clears the channels that select it, and makes no
\* channel forget what it owes.
Signal ==
    /\ \A c \in Channel :
         LET t == timer[c]  u == timer'[c] IN
         /\ u = [t EXCEPT !.running = @ \/ t.ssr, !.edge = u.edge,
                          !.cnt = IF t.csr THEN 0 ELSE @]
         /\ age'[c] = age[c] \/ owed[c] = <<>>
    /\ UNCHANGED owed

Init ==
    /\ \A c \in Channel : ~timer[c].running /\ timer[c].st = {}
    /\ owed = [c \in Channel |-> <<>>] /\ age = [c \in Channel |-> 0]

Next == Tick \/ Signal \/ \E c \in Channel : Read(c) \/ Write(c)

Spec == Init /\ [][Next]_vars
=============================================================================
