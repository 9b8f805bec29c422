------------------------------ MODULE GptTimer ------------------------------
(***************************************************************************)
(* The GPT channels (peripherals/ra_gpt.rs).  The clock is the instruction  *)
(* count; a channel catches up with it only when the driver ticks it or     *)
(* firmware touches a register, by a walk over the compare matches and      *)
(* period ends in between that raises each event with the time at which it  *)
(* was due.  A link of the event controller (elc_signal) reaches every      *)
(* channel at once and does not walk.                                       *)
(*                                                                         *)
(* Time is kept relative to a channel's last_tick (lag).  An event is named *)
(* A, B (compare matches) or OVF (period end); who listens to it is the     *)
(* business of the event controller.                                        *)
(***************************************************************************)
EXTENDS Integers, Sequences, FiniteSets, FiniteSetsExt

CONSTANTS
    Channel,
    Mask,     \* the largest count: 2^32 - 1 or 2^16 - 1
    Period,   \* what firmware writes to GTPR
    Compare,  \* what firmware writes to GTCCRA to GTCCRD
    Count,    \* what firmware writes to GTCNT
    Enable,   \* which matches firmware enables together, in GTIOR and in GTBER
    Ops,      \* which registers firmware writes, and which signals arrive
    MaxLag    \* bound on the instructions between two ticks of a channel

Forever == 1000000   \* a distance no walk covers

GptAssumption ==
    /\ Mask \in Nat /\ MaxLag \in 0..(Forever - 1)
    /\ Period \cup Compare \cup Count \subseteq 0..Mask
    /\ Enable \subseteq SUBSET {"A", "B"}

VARIABLES
    timer,  \* the registers of each channel
    lag,    \* instruction count less the channel's last_tick
    cycle,  \* history: a period ended since firmware last wrote a register
    ahead   \* where each channel's walk would end if it caught up now

vars == <<timer, lag, cycle, ahead>>

Match   == {"A", "B"}
Event   == Match \cup {"OVF"}

-----------------------------------------------------------------------------
(* The walk of advance.  A walker w holds the registers t, the count cur,    *)
(* the compare values cca and ccb read when the walk began, the time elapsed *)
(* and left, and the events fired.                                           *)

Running(t) == t.cst \/ t.cstrt

FireCompare(w, m) ==
    [w EXCEPT !.t.st = @ \cup {m}, !.t.out = @ \ (w.t.oe \cap {m}),
              !.fired = Append(@, <<m, w.elapsed>>)]

\* The compares in S, A before B.
FireCompares(w, S) ==
    LET a == IF "A" \in S THEN FireCompare(w, "A") ELSE w
    IN  IF "B" \in S THEN FireCompare(a, "B") ELSE a

\* Mutant: a period end does not raise the outputs.
FireWrapSilent(w) ==
    LET loaded == [w EXCEPT !.t.cc = [m \in Match |-> IF m \in w.t.ber THEN w.t.buffer[m] ELSE @[m]],
                            !.t.st = @ \cup {"OVF"}, !.cur = 0,
                            !.fired = Append(@, <<"OVF", w.elapsed>>)]
    IN  FireCompares(loaded, {m \in Match : loaded.t.cc[m] = 0})

\* A period end loads the buffered compares, then fires those that stand at 0.
FireWrap(w) ==
    LET loaded == [w EXCEPT !.t.cc = [m \in Match |-> IF m \in w.t.ber THEN w.t.buffer[m] ELSE @[m]],
                            !.t.out = @ \cup w.t.oe,
                            !.t.st = @ \cup {"OVF"}, !.cur = 0,
                            !.fired = Append(@, <<"OVF", w.elapsed>>)]
    IN  FireCompares(loaded, {m \in Match : loaded.t.cc[m] = 0})

\* Counts up to the period end; above the period, the unsigned subtraction wraps.
ToWrap(w) == IF w.cur <= w.t.pr THEN w.t.pr - w.cur + 1 ELSE Forever

ToMatch(w, m) ==
    IF w.cur < w.cc[m] /\ w.cc[m] <= w.t.pr THEN w.cc[m] - w.cur ELSE Forever

\* Mutant: of two compares at the same count only the later one fires.
TiedLast(w, step) == {m \in Match : ToMatch(w, m) = step /\ (m = "A" => ToMatch(w, "B") # step)}

\* The compares the next step reaches: ties fire together.
Tied(w, step) == {m \in Match : ToMatch(w, m) = step}

\* The channel counts on by `step', and the compares that stand there fire.
Counted(w, step) ==
    FireCompares([w EXCEPT !.cur = @ + step, !.elapsed = @ + step, !.left = @ - step], Tied(w, step))

Taken(w, step) == IF step = ToWrap(w) THEN FireWrap(Counted(w, step)) ELSE Counted(w, step)

\* One turn of the loop: to the next compare, period end or the end of the time.
Step(w) ==
    IF w.left = 0 THEN w
    ELSE Taken(w, Min({w.left, ToWrap(w), ToMatch(w, "A"), ToMatch(w, "B")}))

\* A channel freshly started at 0 fires the compares that stand there.
StartEdge(w) ==
    IF w.cur = 0 /\ w.t.fresh
    THEN FireCompares([w EXCEPT !.t.fresh = FALSE], {m \in Match : w.cc[m] = 0})
    ELSE w

\* The element of a set of one, which TLC then evaluates only once.
The(S) == CHOOSE x \in S : TRUE

\* n turns of the loop.
Turns(w, n) ==
    LET turn[i \in 0..n] == IF i = 0 THEN w ELSE The({Step(v) : v \in {turn[i - 1]}})
    IN  turn[n]

Settled(w) == [w EXCEPT !.t.cnt = w.cur]

\* advance: every turn takes at least one of the time left.
Walked(t, dt) ==
    LET start == [t |-> t, cur |-> t.cnt % (Mask + 1), cc |-> t.cc,
                  elapsed |-> 0, left |-> dt, fired |-> <<>>]
    IN  IF Running(t) /\ dt # 0 THEN The({Settled(w) : w \in {Turns(StartEdge(start), dt)}}) ELSE start

Now(c)   == ahead[c].t
Fired(c) == ahead[c].fired
LookAhead == ahead' = [c \in Channel |-> Walked(timer'[c], lag'[c])]

\* The events of the walk are raised, and the channel is up to date.
Advance(c) == lag' = [lag EXCEPT ![c] = 0]

-----------------------------------------------------------------------------
\* Instructions execute; unless "coarse", a channel is ticked at a period end
\* that changes one of its compares.
Pass ==
    /\ \A c \in Channel : lag[c] < MaxLag
    /\ "coarse" \in Ops \/ \A c \in Channel : Now(c).cc = ahead[c].cc
    /\ lag' = [c \in Channel |-> lag[c] + 1]
    /\ UNCHANGED <<timer, cycle>>
    /\ LookAhead

\* tick and read.
Tick(c) ==
    /\ Advance(c)
    /\ timer' = [timer EXCEPT ![c] = Now(c)]
    /\ cycle' = [cycle EXCEPT ![c] = @ \/ \E i \in 1..Len(Fired(c)) : Fired(c)[i][1] = "OVF"]
    /\ LookAhead

\* A channel started within a cycle has no match due at 0, unless "resume".
Regular(t) ==
    "resume" \notin Ops /\ Running(t) /\ t.fresh /\ t.cnt # 0 =>
        \A m \in Match : t.cc[m] # 0 /\ (m \in t.ber => t.buffer[m] # 0)

\* Every write catches up first.
Write(op, c, t) ==
    /\ op \in Ops /\ Regular(t)
    /\ Advance(c)
    /\ timer' = [timer EXCEPT ![c] = t]
    /\ cycle' = [cycle EXCEPT ![c] = FALSE]
    /\ LookAhead

\* GTSTR.
WriteGtstr(c) ==
    LET t == Now(c) IN Write("start", c, [t EXCEPT !.fresh = @ \/ ~Running(t), !.cstrt = TRUE])

WriteGtstp(c) == Write("stop", c, [Now(c) EXCEPT !.cstrt = FALSE, !.cst = FALSE])

WriteGtclr(c) == Write("clear", c, [Now(c) EXCEPT !.cnt = 0])

WriteGtcr(c, cst) ==
    LET t == Now(c) IN Write("gtcr", c, [t EXCEPT !.fresh = @ \/ (cst /\ ~Running(t)), !.cst = cst])

\* GTIOR, with function 0 (low at a match, high at a period end) where enabled.
WriteGtior(c, oe) == Write("gtior", c, [Now(c) EXCEPT !.oe = oe])

\* GTST: the bits written as 1 are cleared.
WriteGtst(c, bits) == Write("gtst", c, [Now(c) EXCEPT !.st = @ \ bits])

\* Firmware chooses the buffers of a stopped channel.
WriteGtber(c, ber) ==
    /\ ~Running(timer[c])
    /\ Write("gtber", c, [Now(c) EXCEPT !.ber = ber])

WriteLinks(c, ssr, csr) == Write("links", c, [Now(c) EXCEPT !.ssr = ssr, !.csr = csr])

\* Firmware sets the count of a stopped channel, within its period.
WriteGtcnt(c, v) ==
    /\ ~Running(timer[c]) /\ v <= timer[c].pr
    /\ Write("gtcnt", c, [Now(c) EXCEPT !.cnt = v])

WriteGtccr(c, m, v) == Write("gtccr", c, [Now(c) EXCEPT !.cc[m] = v])

\* Firmware fills the buffers it has enabled.
WriteBuffer(c, m, v) ==
    /\ m \in timer[c].ber
    /\ Write("buffer", c, [Now(c) EXCEPT !.buffer[m] = v])

\* Firmware keeps the period above the count.
WriteGtpr(c, v) ==
    /\ Now(c).cnt <= v
    /\ Write("gtpr", c, [Now(c) EXCEPT !.pr = v])

\* elc_signal of link 0; "signal" arrives while no channel runs, "anytime" not.
ElcSignal ==
    /\ \/ "anytime" \in Ops
       \/ "signal" \in Ops /\ \A c \in Channel : ~Running(timer[c])
    /\ timer' = [c \in Channel |->
          LET t == timer[c] IN
          [t EXCEPT !.fresh = @ \/ (t.ssr /\ ~Running(t)), !.cstrt = @ \/ t.ssr,
                    !.cnt = IF t.csr THEN 0 ELSE @]]
    /\ lag' = [c \in Channel |-> 0]
    /\ UNCHANGED cycle
    /\ LookAhead

-----------------------------------------------------------------------------
Reset ==
    [cst |-> FALSE, cstrt |-> FALSE, cnt |-> 0, pr |-> Mask, fresh |-> FALSE,
     cc |-> [m \in Match |-> 0], buffer |-> [m \in Match |-> 0],
     ber |-> {}, oe |-> {},
     ssr |-> FALSE, csr |-> FALSE, st |-> {}, out |-> {}]

Init ==
    /\ timer = [c \in Channel |-> Reset]
    /\ lag = [c \in Channel |-> 0]
    /\ cycle = [c \in Channel |-> FALSE]
    /\ ahead = [c \in Channel |-> Walked(Reset, 0)]

Control(c) ==
    \/ WriteGtstr(c) \/ WriteGtstp(c) \/ WriteGtclr(c)
    \/ \E b \in BOOLEAN : WriteGtcr(c, b)
    \/ \E e \in Event : WriteGtst(c, {e})

Configure(c) ==
    \/ \E E \in Enable : WriteGtior(c, E) \/ WriteGtber(c, E)
    \/ \E b \in BOOLEAN : WriteLinks(c, b, b)
    \/ \E v \in Count : WriteGtcnt(c, v)
    \/ \E m \in Match, v \in Compare : WriteGtccr(c, m, v) \/ WriteBuffer(c, m, v)
    \/ \E v \in Period : WriteGtpr(c, v)

Next ==
    \/ Pass \/ ElcSignal
    \/ \E c \in Channel : Tick(c) \/ Control(c) \/ Configure(c)

Spec == Init /\ [][Next]_vars

-----------------------------------------------------------------------------
(* Properties *)

Registers ==
    [cst : BOOLEAN, cstrt : BOOLEAN, fresh : BOOLEAN, cnt : 0..Mask, pr : 0..Mask,
     cc : [Match -> 0..Mask], buffer : [Match -> 0..Mask], ber : SUBSET Match, oe : SUBSET Match,
     ssr : BOOLEAN, csr : BOOLEAN, st : SUBSET Event, out : SUBSET Match]

\* The registers hold values of their width and a channel keeps no more than the
\* time since its last tick.
TypeOK ==
    /\ timer \in [Channel -> Registers]
    /\ lag \in [Channel -> 0..MaxLag]
    /\ \A c \in Channel : Fired(c) \in Seq(Event \X (0..MaxLag))
    /\ cycle \in [Channel -> BOOLEAN]

\* A PWM output that is left alone for a full cycle is high exactly below its
\* compare value, however the time was cut (fire_ccmpa, fire_ccmpb, fire_wrap).
DutyHonoured ==
    \A c \in Channel : cycle[c] =>
        \A m \in timer[c].oe :
            m \in timer[c].out <=> timer[c].cnt < timer[c].cc[m]

\* The channel stands at the start of its first cycle, with a match due.
AtEdge(c) ==
    /\ Running(timer[c]) /\ timer[c].fresh /\ lag[c] = 0
    /\ timer[c].cnt = 0 /\ \E m \in Match : timer[c].cc[m] = 0

\* What a reader of the registers would find now.
Shown(c) ==
    LET t == Now(c) IN
    [running |-> Running(t), edge |-> AtEdge(c), cnt |-> t.cnt, pr |-> t.pr,
     cc |-> t.cc, buffer |-> t.buffer, ber |-> t.ber, oe |-> t.oe, ssr |-> t.ssr,
     csr |-> t.csr, st |-> t.st, out |-> t.out]

Ticking == INSTANCE TickTimer WITH
    timer <- [c \in Channel |-> Shown(c)],
    owed  <- [c \in Channel |-> Fired(c)],
    age   <- lag

\* The walk is invisible: whenever a channel catches up, its count, compares,
\* flags, outputs and events, with their order and their times, are those of a
\* timer that counts at every instruction ("neither gains nor loses ticks",
\* cpu/mod.rs; "with its true virtual timestamp", ra_gpt.rs).
IsTicking == Ticking!Spec
=============================================================================
