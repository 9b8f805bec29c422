---------------------------- MODULE TimerProofs ----------------------------
(***************************************************************************)
(* Theorems about the units that measure time, for any counts, periods and   *)
(* bounds.  All but the watchdogs sleep and catch up when somebody looks;    *)
(* what a look shows is proved to be what counting at every instruction      *)
(* would show: of the GPT (module GptTimer), whose walk over matches and      *)
(* period ends is the longest, of an AGT channel (AgtTimer), of the RTC      *)
(* (RtcClock), and of SysTick and the cycle counter (CoreClocks).            *)
(***************************************************************************)
EXTENDS GptTimer, AgtTimer, RtcClock, CoreClocks, WellFoundedInduction, TLAPS

-----------------------------------------------------------------------------
(* Induction, and the turns of the loop.                                      *)

\* Induction, over a set of numbers.
LEMMA Induction ==
    ASSUME NEW S, 0 \in S, \A n \in Nat : n \in S => n + 1 \in S
    PROVE  Nat \subseteq S
<1> DEFINE T == {n \in Nat : n \notin S}
<1> DEFINE R == {ss \in Nat \X Nat : ss[1] < ss[2]}
<1> SUFFICES ASSUME T # {} PROVE FALSE
  OBVIOUS
<1>1. IsWellFoundedOn(R, Nat)
  BY NatLessThanWellFounded DEF OpToRel
<1>2. T \subseteq Nat
  OBVIOUS
<1>3. \A x, y \in Nat : y < x => <<y, x>> \in R
  OBVIOUS
<1>4. PICK m \in T : \A y \in T : ~(<<y, m>> \in R)
  <2> HIDE DEF T, R
  <2> QED BY <1>1, <1>2, WFMin
<1>5. m # 0 /\ m \in Nat /\ m \notin S
  OBVIOUS
<1>6. m - 1 \in Nat /\ m - 1 < m /\ (m - 1) + 1 = m
  BY <1>5
<1>7. m - 1 \in S
  BY <1>3, <1>4, <1>5, <1>6
<1> QED BY <1>5, <1>6, <1>7

\* The element of a set of one.
LEMMA Singleton == ASSUME NEW x PROVE The({x}) = x
BY DEF The

\* What the turns of the loop compute: the first is of w, each other of the one before.
TurnsOf(f, w, n) == f[0] = w /\ \A i \in 1..n : f[i] = Step(f[i - 1])

\* Turns is the last of a sequence of turns.
LEMMA TurnsStep ==
    ASSUME NEW w, NEW n \in Nat
    PROVE  \E f : TurnsOf(f, w, n) /\ Turns(w, n) = f[n]
<1> DEFINE Def(f, m) == f = [i \in 0..m |-> IF i = 0 THEN w ELSE The({Step(v) : v \in {f[i - 1]}})]
<1> DEFINE S == {m \in Nat : \E f : Def(f, m)}
<1>1. 0 \in S
  <2>1. Def([i \in 0..0 |-> w], 0)
    OBVIOUS
  <2> QED BY <2>1
<1>2. ASSUME NEW m \in Nat, m \in S PROVE m + 1 \in S
  <2>1. PICK f : Def(f, m)
    BY <1>2
  <2> DEFINE g == [i \in 0..(m + 1) |-> IF i = m + 1 THEN The({Step(v) : v \in {f[m]}}) ELSE f[i]]
  <2>2. \A i \in 0..m : g[i] = f[i]
    OBVIOUS
  <2>3. ASSUME NEW i \in 0..(m + 1)
        PROVE g[i] = IF i = 0 THEN w ELSE The({Step(v) : v \in {g[i - 1]}})
    <3>1. CASE i = m + 1
      <4>1. i - 1 = m /\ i # 0 /\ m \in 0..m
        BY <3>1
      <4> QED BY <4>1, <2>2, <3>1
    <3>2. CASE i # m + 1
      <4>1. i \in 0..m /\ (i # 0 => i - 1 \in 0..m)
        BY <3>2
      <4>2. f[i] = IF i = 0 THEN w ELSE The({Step(v) : v \in {f[i - 1]}})
        BY <4>1, <2>1
      <4>3. g[i] = f[i] /\ (i # 0 => g[i - 1] = f[i - 1])
        BY <4>1, <2>2
      <4> HIDE DEF g
      <4> QED BY <4>2, <4>3
    <3> QED BY <3>1, <3>2
  <2>4. Def(g, m + 1)
    <3>1. g = [i \in 0..(m + 1) |-> g[i]]
      OBVIOUS
    <3> HIDE DEF g
    <3> QED BY <3>1, <2>3
  <2> HIDE DEF Def
  <2> QED BY <2>4
<1>3. n \in S
  <2> HIDE DEF S
  <2> QED BY <1>1, <1>2, Induction
<1> DEFINE f == CHOOSE h : Def(h, n)
<1>4. Def(f, n)
  <2> HIDE DEF Def
  <2> QED BY <1>3
<1>5. Turns(w, n) = f[n]
  BY DEF Turns
<1>6. TurnsOf(f, w, n)
  <2> HIDE DEF f
  <2>1. f[0] = w
    BY <1>4
  <2>2. ASSUME NEW i \in 1..n PROVE f[i] = Step(f[i - 1])
    <3>0. i \in 0..n /\ i # 0
      OBVIOUS
    <3>1. f[i] = The({Step(v) : v \in {f[i - 1]}})
      BY <1>4, <3>0
    <3>2. {Step(v) : v \in {f[i - 1]}} = {Step(f[i - 1])}
      OBVIOUS
    <3> QED BY <3>1, <3>2, Singleton
  <2> QED BY <2>1, <2>2 DEF TurnsOf
<1> QED BY <1>5, <1>6

-----------------------------------------------------------------------------
(* One turn of the loop.                                                     *)

\* The events of a walk, with their times.
Log == Seq(Event \X Nat)

Walker ==
    [t : Registers, cur : Nat, cc : [Match -> 0..Mask], elapsed : Nat, left : Nat,
     fired : Log]

\* What a match does to the registers.
Struck(t, S) == [t EXCEPT !.st = @ \cup S, !.out = @ \ (t.oe \cap S)]

\* What a period end does to them.
Reloaded(t) == [m \in Match |-> IF m \in t.ber THEN t.buffer[m] ELSE t.cc[m]]
Rewound(t) == [t EXCEPT !.cc = Reloaded(t), !.out = @ \cup t.oe, !.st = @ \cup {"OVF"}]

\* A walker with that much time left.
With(w, n) == [w EXCEPT !.left = n]

\* A match leaves registers,
LEMMA StruckType == ASSUME NEW t \in Registers, NEW S \in SUBSET Match PROVE Struck(t, S) \in Registers
BY DEF Struck, Registers, Event

\* and so does a period end.
LEMMA RewoundType == ASSUME NEW t \in Registers PROVE Rewound(t) \in Registers
<1>1. Reloaded(t) \in [Match -> 0..Mask]
  BY DEF Registers, Reloaded
<1> QED BY <1>1 DEF Rewound, Registers, Event

\* A walker with other registers and events.
Renewed(w, r, f) == [w EXCEPT !.t = r, !.fired = f]

\* What a walker with other registers and events keeps.
LEMMA Renews ==
    ASSUME NEW w \in Walker, NEW r \in Registers, NEW f \in Log, NEW v, v = Renewed(w, r, f)
    PROVE  /\ v \in Walker /\ v.t = r /\ v.fired = f /\ v.cur = w.cur /\ v.cc = w.cc
           /\ v.elapsed = w.elapsed /\ v.left = w.left
BY DEF Renewed, Walker

\* Of two such changes the second stays, and one that changes nothing is none.
LEMMA RenewedTwice ==
    ASSUME NEW w \in Walker, NEW r, NEW f, NEW s, NEW g
    PROVE  /\ Renewed(Renewed(w, r, f), s, g) = Renewed(w, s, g)
           /\ Renewed(w, w.t, w.fired) = w
<1>1. w = [w EXCEPT !.t = w.t, !.fired = w.fired]
  BY DEF Walker
<1> QED BY <1>1 DEF Renewed, Walker

\* One match.
LEMMA FireOne ==
    ASSUME NEW w \in Walker, NEW m \in Match, NEW v, v = FireCompare(w, m)
    PROVE  /\ v = Renewed(w, Struck(w.t, {m}), Append(w.fired, <<m, w.elapsed>>))
           /\ v \in Walker /\ v.t = Struck(w.t, {m}) /\ v.fired = Append(w.fired, <<m, w.elapsed>>)
           /\ v.cur = w.cur /\ v.cc = w.cc /\ v.elapsed = w.elapsed /\ v.left = w.left
<1>1. w.t \in Registers /\ w.elapsed \in Nat /\ w.fired \in Log
  BY DEF Walker
<1>2. v = Renewed(w, Struck(w.t, {m}), Append(w.fired, <<m, w.elapsed>>))
  BY <1>1 DEF FireCompare, Struck, Walker, Registers, Renewed
<1>3. Struck(w.t, {m}) \in Registers
  BY <1>1, StruckType
<1>4. <<m, w.elapsed>> \in Event \X Nat
  BY <1>1 DEF Event
<1>5. Append(w.fired, <<m, w.elapsed>>) \in Log
  BY <1>1, <1>4 DEF Log
<1> DEFINE r == Struck(w.t, {m})
           f == Append(w.fired, <<m, w.elapsed>>)
<1>6. r \in Registers /\ f \in Log /\ v = Renewed(w, r, f)
  BY <1>2, <1>3, <1>5
<1> HIDE DEF r, f
<1>7. /\ v \in Walker /\ v.t = r /\ v.fired = f /\ v.cur = w.cur /\ v.cc = w.cc
      /\ v.elapsed = w.elapsed /\ v.left = w.left
  BY <1>6, Renews
<1> QED BY <1>6, <1>7 DEF r, f

\* The matches of a set.
LEMMA FireSome ==
    ASSUME NEW w \in Walker, NEW S \in SUBSET Match, NEW v, v = FireCompares(w, S)
    PROVE  /\ v = Renewed(w, Struck(w.t, S), Ticking!Joined(w.fired, S, w.elapsed))
           /\ v \in Walker /\ v.t = Struck(w.t, S) /\ v.fired = Ticking!Joined(w.fired, S, w.elapsed)
           /\ v.cur = w.cur /\ v.cc = w.cc /\ v.elapsed = w.elapsed /\ v.left = w.left
<1> DEFINE a == FireCompare(w, "A")
           b == FireCompare(w, "B")
           ab == FireCompare(a, "B")
<1>0. "A" \in Match /\ "B" \in Match /\ "A" # "B" /\ Match = {"A", "B"}
  BY DEF Match
<1>1. w.t \in Registers /\ w.elapsed \in Nat /\ w.fired \in Log
  BY DEF Walker
<1>2. Struck(w.t, {}) = w.t /\ Struck(Struck(w.t, {"A"}), {"B"}) = Struck(w.t, {"A", "B"})
  BY <1>1 DEF Struck, Registers
<1>3. v = IF "B" \in S THEN IF "A" \in S THEN ab ELSE b
          ELSE IF "A" \in S THEN a ELSE w
  BY DEF FireCompares
<1>4. S \in {{}, {"A"}, {"B"}, {"A", "B"}}
  BY <1>0
<1>5. CASE S = {}
  <2>1. v = w
    BY <1>3, <1>5
  <2>2. Ticking!Joined(w.fired, S, w.elapsed) = w.fired
    BY <1>5 DEF Ticking!Joined
  <2> QED BY <2>1, <2>2, <1>2, <1>5, RenewedTwice
<1>6. CASE S = {"A"}
  <2>1. v = a
    BY <1>3, <1>6
  <2>2. Ticking!Joined(w.fired, S, w.elapsed) = Append(w.fired, <<"A", w.elapsed>>)
    BY <1>6 DEF Ticking!Joined
  <2> QED BY <2>1, <2>2, <1>0, <1>6, FireOne
<1>7. CASE S = {"B"}
  <2>1. v = b
    BY <1>3, <1>7
  <2>2. Ticking!Joined(w.fired, S, w.elapsed) = Append(w.fired, <<"B", w.elapsed>>)
    BY <1>7 DEF Ticking!Joined
  <2> QED BY <2>1, <2>2, <1>0, <1>7, FireOne
<1>8. CASE S = {"A", "B"}
  <2>1. v = ab
    BY <1>3, <1>8
  <2>2. Ticking!Joined(w.fired, S, w.elapsed) = Append(Append(w.fired, <<"A", w.elapsed>>), <<"B", w.elapsed>>)
    BY <1>8 DEF Ticking!Joined
  <2>3. /\ a = Renewed(w, Struck(w.t, {"A"}), Append(w.fired, <<"A", w.elapsed>>))
        /\ a \in Walker /\ a.t = Struck(w.t, {"A"}) /\ a.fired = Append(w.fired, <<"A", w.elapsed>>)
        /\ a.cur = w.cur /\ a.cc = w.cc /\ a.elapsed = w.elapsed /\ a.left = w.left
    <3> HIDE DEF a
    <3> QED BY <1>0, FireOne DEF a
  <2>4. /\ ab = Renewed(a, Struck(a.t, {"B"}), Append(a.fired, <<"B", a.elapsed>>))
        /\ ab \in Walker /\ ab.t = Struck(a.t, {"B"}) /\ ab.fired = Append(a.fired, <<"B", a.elapsed>>)
        /\ ab.cur = a.cur /\ ab.cc = a.cc /\ ab.elapsed = a.elapsed /\ ab.left = a.left
    <3> HIDE DEF a, ab
    <3> QED BY <1>0, <2>3, FireOne DEF ab
  <2> HIDE DEF a, ab
  <2>5. ab = Renewed(w, Struck(w.t, S), Ticking!Joined(w.fired, S, w.elapsed))
    <3> DEFINE r == Struck(w.t, {"A"})
               f == Append(w.fired, <<"A", w.elapsed>>)
               s == Struck(r, {"B"})
               g == Append(f, <<"B", w.elapsed>>)
    <3>1. ab = Renewed(Renewed(w, r, f), s, g)
      BY <2>3, <2>4
    <3>2. Renewed(Renewed(w, r, f), s, g) = Renewed(w, s, g)
      <4> HIDE DEF r, f, s, g
      <4> QED BY RenewedTwice
    <3>3. s = Struck(w.t, S) /\ g = Ticking!Joined(w.fired, S, w.elapsed)
      BY <2>2, <1>2, <1>8
    <3> HIDE DEF r, f, s, g
    <3> QED BY <3>1, <3>2, <3>3
  <2> QED BY <2>1, <2>2, <2>3, <2>4, <2>5, <1>2, <1>8
<1> QED BY <1>4, <1>5, <1>6, <1>7, <1>8

\* A walker after s instructions, with no event before them and l left.
Due(w, s) == {m \in Match : w.cc[m] = w.cur + s /\ w.cc[m] <= w.t.pr}
Walking(t, cur, cc, e, l, f) ==
    [t |-> t, cur |-> cur, cc |-> cc, elapsed |-> e, left |-> l, fired |-> f]
AtZero(t) == {m \in Match : Reloaded(t)[m] = 0}
Gone(w, s, l) ==
    LET e == w.elapsed + s IN
    IF w.cur + s = w.t.pr + 1
    THEN Walking(Struck(Rewound(w.t), AtZero(w.t)), 0, w.cc, e, l,
                 Ticking!Joined(Append(w.fired, <<"OVF", e>>), AtZero(w.t), e))
    ELSE Walking(Struck(w.t, Due(w, s)), w.cur + s, w.cc, e, l, Ticking!Joined(w.fired, Due(w, s), e))

\* A count within the period.
Sound(w) == w \in Walker /\ w.cur <= w.t.pr

\* The events of a match or a period end join the log.
LEMMA JoinedType ==
    ASSUME NEW f \in Log, NEW S, NEW e \in Nat
    PROVE  Ticking!Joined(f, S, e) \in Log /\ Append(f, <<"OVF", e>>) \in Log
<1>1. <<"A", e>> \in Event \X Nat /\ <<"B", e>> \in Event \X Nat /\ <<"OVF", e>> \in Event \X Nat
  BY DEF Event, Match
<1> DEFINE E == Event \X Nat
<1>2. f \in Seq(E) /\ <<"A", e>> \in E /\ <<"B", e>> \in E /\ <<"OVF", e>> \in E
  BY <1>1 DEF Log
<1> HIDE DEF E
<1>3. Ticking!Joined(f, S, e) \in Seq(E) /\ Append(f, <<"OVF", e>>) \in Seq(E)
  BY <1>2 DEF Ticking!Joined
<1> QED BY <1>3 DEF E, Log

\* A walker built from its parts.
LEMMA Builds ==
    ASSUME NEW r \in Registers, NEW cur \in Nat, NEW c \in [Match -> 0..Mask], NEW e \in Nat, NEW l \in Nat,
           NEW f \in Log, NEW v, v = Walking(r, cur, c, e, l, f)
    PROVE  /\ v \in Walker /\ v.t = r /\ v.cur = cur /\ v.cc = c /\ v.elapsed = e /\ v.left = l
           /\ v.fired = f
BY DEF Walking, Walker

\* The types of the parts of a walker.
LEMMA WalkerParts ==
    ASSUME NEW w \in Walker
    PROVE  /\ w.t \in Registers /\ w.cur \in Nat /\ w.cc \in [Match -> 0..Mask] /\ w.elapsed \in Nat
           /\ w.left \in Nat /\ w.fired \in Log
           /\ w.t.pr \in 0..Mask /\ w.t.pr \in Nat /\ \A m \in Match : w.cc[m] \in Nat
BY DEF Walker, Registers

\* A walker that went on stays sound.
LEMMA GoneSound ==
    ASSUME GptAssumption, NEW w, Sound(w), NEW s \in Nat \ {0}, w.cur + s <= w.t.pr + 1, NEW l \in Nat,
           NEW v, v = Gone(w, s, l)
    PROVE  /\ Sound(v) /\ v.left = l /\ v.elapsed = w.elapsed + s /\ v.cc = w.cc
           /\ v.t.pr = w.t.pr
<1>1. /\ w.t \in Registers /\ w.cur \in Nat /\ w.cc \in [Match -> 0..Mask] /\ w.elapsed \in Nat
      /\ w.fired \in Log /\ w.t.pr \in Nat
  BY WalkerParts DEF Sound
<1> DEFINE e == w.elapsed + s
<1>2. e \in Nat /\ w.cur + s \in Nat /\ AtZero(w.t) \in SUBSET Match /\ Due(w, s) \in SUBSET Match
  BY <1>1 DEF AtZero, Due
<1>3. CASE w.cur + s = w.t.pr + 1
  <2> DEFINE r == Struck(Rewound(w.t), AtZero(w.t))
             f == Ticking!Joined(Append(w.fired, <<"OVF", e>>), AtZero(w.t), e)
  <2>1. r \in Registers
    BY <1>1, <1>2, StruckType, RewoundType
  <2>2. r.pr = w.t.pr
    BY <1>1 DEF Struck, Rewound, Registers
  <2>3. Append(w.fired, <<"OVF", e>>) \in Log
    BY <1>1, <1>2, JoinedType
  <2>4. f \in Log
    BY <2>3, <1>2, JoinedType
  <2>5. v = Walking(r, 0, w.cc, e, l, f)
    BY <1>3 DEF Gone
  <2>6. v \in Walker /\ v.t = r /\ v.cur = 0 /\ v.cc = w.cc /\ v.elapsed = e /\ v.left = l
    <3> DEFINE n == 0
    <3>1. n \in Nat /\ e \in Nat /\ l \in Nat /\ w.cc \in [Match -> 0..Mask]
      BY <1>1, <1>2
    <3>2. v = Walking(r, n, w.cc, e, l, f)
      BY <2>5
    <3> HIDE DEF r, f, e, n
    <3>3. v \in Walker /\ v.t = r /\ v.cur = n /\ v.cc = w.cc /\ v.elapsed = e /\ v.left = l
      BY ONLY <3>1, <3>2, <2>1, <2>4, Builds
    <3> QED BY <3>3 DEF n
  <2> HIDE DEF r, f
  <2> QED BY <1>1, <2>2, <2>6 DEF Sound
<1>4. CASE w.cur + s # w.t.pr + 1
  <2> DEFINE r == Struck(w.t, Due(w, s))
             f == Ticking!Joined(w.fired, Due(w, s), e)
  <2>1. r \in Registers
    BY <1>1, <1>2, StruckType
  <2>2. r.pr = w.t.pr
    BY <1>1 DEF Struck, Registers
  <2>4. f \in Log
    BY <1>1, <1>2, JoinedType
  <2>5. v = Walking(r, w.cur + s, w.cc, e, l, f)
    BY <1>4 DEF Gone
  <2>6. v \in Walker /\ v.t = r /\ v.cur = w.cur + s /\ v.cc = w.cc /\ v.elapsed = e /\ v.left = l
    <3> DEFINE n == w.cur + s
    <3>1. n \in Nat /\ e \in Nat /\ l \in Nat /\ w.cc \in [Match -> 0..Mask]
      BY <1>1, <1>2
    <3>2. v = Walking(r, n, w.cc, e, l, f)
      BY <2>5
    <3> HIDE DEF r, f, e, n
    <3>3. v \in Walker /\ v.t = r /\ v.cur = n /\ v.cc = w.cc /\ v.elapsed = e /\ v.left = l
      BY ONLY <3>1, <3>2, <2>1, <2>4, Builds
    <3> QED BY <3>3 DEF n
  <2> HIDE DEF r, f
  <2> QED BY <1>1, <1>4, <2>2, <2>6 DEF Sound
<1> QED BY <1>3, <1>4

\* The least of four numbers.
Least(a, b, c, d) == Min({a, b, c, d})

\* What Min of four numbers is.
LEMMA LeastOf ==
    ASSUME NEW a \in Int, NEW b \in Int, NEW c \in Int, NEW d \in Int, NEW x, x = Least(a, b, c, d)
    PROVE  x \in {a, b, c, d} /\ x <= a /\ x <= b /\ x <= c /\ x <= d
<1>1. \E y \in {a, b, c, d} : \A z \in {a, b, c, d} : y <= z
  <2>1. CASE a <= b /\ a <= c /\ a <= d
    BY <2>1
  <2>2. CASE b <= a /\ b <= c /\ b <= d
    BY <2>2
  <2>3. CASE c <= a /\ c <= b /\ c <= d
    BY <2>3
  <2>4. CASE d <= a /\ d <= b /\ d <= c
    BY <2>4
  <2> QED BY <2>1, <2>2, <2>3, <2>4
<1> QED BY <1>1 DEF Min, Least

\* No period end and no match before s instructions; one at s.
Free(w, s) ==
    /\ w.cur + s <= w.t.pr + 1
    /\ \A m \in Match : w.cur < w.cc[m] /\ w.cc[m] <= w.t.pr => w.cur + s <= w.cc[m]
Stop(w, s) == w.cur + s = w.t.pr + 1 \/ Due(w, s) # {}

\* The registers without an event.
LEMMA Still ==
    ASSUME NEW w \in Walker
    PROVE  Struck(w.t, {}) = w.t /\ \A f, e : Ticking!Joined(f, {}, e) = f
<1>1. Struck(w.t, {}) = w.t
  BY WalkerParts DEF Struck, Registers
<1>2. \A f, e : Ticking!Joined(f, {}, e) = f
  BY DEF Ticking!Joined
<1> QED BY <1>1, <1>2

\* A walker is its parts.
LEMMA Parts == ASSUME NEW w \in Walker PROVE w = Walking(w.t, w.cur, w.cc, w.elapsed, w.left, w.fired)
BY DEF Walking, Walker

\* A walker put elsewhere, field by field.
LEMMA Moves ==
    ASSUME NEW w \in Walker, NEW r \in Registers, NEW n \in Nat, NEW f \in Log,
           NEW v, v = [w EXCEPT !.t = r, !.cur = n, !.fired = f]
    PROVE  v = Walking(r, n, w.cc, w.elapsed, w.left, f)
<1>1. /\ v \in Walker /\ v.t = r /\ v.cur = n /\ v.cc = w.cc /\ v.elapsed = w.elapsed
      /\ v.left = w.left /\ v.fired = f
  BY DEF Walker
<1>2. v = Walking(v.t, v.cur, v.cc, v.elapsed, v.left, v.fired)
  BY <1>1, Parts
<1> QED BY <1>1, <1>2

\* The period end of a walker at any place.
LEMMA Wraps ==
    ASSUME GptAssumption, NEW w \in Walker, NEW v, v = FireWrap(w)
    PROVE  v = Walking(Struck(Rewound(w.t), AtZero(w.t)), 0, w.cc, w.elapsed, w.left,
                 Ticking!Joined(Append(w.fired, <<"OVF", w.elapsed>>), AtZero(w.t), w.elapsed))
<1>1. /\ w.t \in Registers /\ w.cur \in Nat /\ w.cc \in [Match -> 0..Mask] /\ w.elapsed \in Nat
      /\ w.left \in Nat /\ w.fired \in Log
  BY WalkerParts
<1> DEFINE r == Rewound(w.t)
           f == Append(w.fired, <<"OVF", w.elapsed>>)
           n == 0
           l == Walking(r, n, w.cc, w.elapsed, w.left, f)
           ll == [w EXCEPT !.t.cc = [m \in Match |-> IF m \in w.t.ber THEN w.t.buffer[m] ELSE @[m]],
                            !.t.out = @ \cup w.t.oe,
                            !.t.st = @ \cup {"OVF"}, !.cur = 0,
                            !.fired = Append(@, <<"OVF", w.elapsed>>)]
<1>2. ll = l
  <2>1. ll.t = r
    BY <1>1 DEF Rewound, Reloaded, Walker, Registers
  <2>2. ll = [w EXCEPT !.t = r, !.cur = n, !.fired = f]
    <3> DEFINE t1 == [w.t EXCEPT !.cc = [m \in Match |-> IF m \in w.t.ber THEN w.t.buffer[m] ELSE @[m]]]
               t2 == [t1 EXCEPT !.out = w.t.out \cup w.t.oe]
               t3 == [t2 EXCEPT !.st = w.t.st \cup {"OVF"}]
    <3>1. t3 = r
      BY <1>1 DEF Rewound, Reloaded, Registers
    <3>2. ll = [w EXCEPT !.t = t3, !.cur = n, !.fired = f]
      BY <1>1 DEF Walker, Registers
    <3> HIDE DEF ll, r, n, f, t3
    <3> QED BY <3>1, <3>2
  <2>3. r \in Registers /\ f \in Log /\ n \in Nat
    BY <1>1, RewoundType, JoinedType
  <2> HIDE DEF ll, r, n, f
  <2> QED BY ONLY <2>2, <2>3, w \in Walker, Moves DEF l
<1>3. ll.t.cc = Reloaded(w.t)
  BY <1>1 DEF Rewound, Reloaded, Walker, Registers
<1>4. v = FireCompares(ll, {m \in Match : ll.t.cc[m] = 0})
  BY DEF FireWrap
<1>5. {m \in Match : ll.t.cc[m] = 0} = AtZero(w.t)
  BY <1>3 DEF AtZero
<1>6. r \in Registers /\ f \in Log
  BY <1>1, RewoundType, JoinedType
<1>7. AtZero(w.t) \in SUBSET Match /\ n \in Nat
  BY DEF AtZero
<1> DEFINE S == AtZero(w.t)
<1>8. v = FireCompares(l, S) /\ S \in SUBSET Match
  <2> HIDE DEF l, ll
  <2> QED BY <1>2, <1>4, <1>5, <1>7
<1> HIDE DEF r, f, n, ll, S
<1>9. l \in Walker /\ l.t = r /\ l.cur = n /\ l.cc = w.cc /\ l.elapsed = w.elapsed /\ l.left = w.left /\ l.fired = f
  <2>1. l = Walking(r, n, w.cc, w.elapsed, w.left, f)
    OBVIOUS
  <2> HIDE DEF l
  <2> DEFINE e == w.elapsed
             h == w.left
             c == w.cc
  <2>2. /\ e \in Nat /\ h \in Nat /\ c \in [Match -> 0..Mask] /\ n \in Nat /\ r \in Registers /\ f \in Log
        /\ l = Walking(r, n, c, e, h, f)
    BY <2>1, <1>1, <1>6, <1>7
  <2> HIDE DEF e, h, c
  <2>3. l \in Walker /\ l.t = r /\ l.cur = n /\ l.cc = c /\ l.elapsed = e /\ l.left = h /\ l.fired = f
    <3>1. l \in Walker
      BY ONLY <2>2 DEF Walking, Walker
    <3>2. l.t = r /\ l.cur = n /\ l.cc = c /\ l.elapsed = e /\ l.left = h /\ l.fired = f
      BY ONLY <2>2 DEF Walking
    <3> QED BY <3>1, <3>2
  <2> QED BY <2>3 DEF e, h, c
<1>10. v = Renewed(l, Struck(r, S), Ticking!Joined(f, S, w.elapsed))
  <2> HIDE DEF l
  <2> QED BY ONLY <1>8, <1>9, FireSome
<1>11. Renewed(l, Struck(r, S), Ticking!Joined(f, S, w.elapsed))
         = Walking(Struck(r, S), n, w.cc, w.elapsed, w.left, Ticking!Joined(f, S, w.elapsed))
  <2>1. Struck(r, S) \in Registers /\ Ticking!Joined(f, S, w.elapsed) \in Log
    BY <1>1, <1>6, <1>8, StruckType, JoinedType
  <2> DEFINE v2 == Renewed(l, Struck(r, S), Ticking!Joined(f, S, w.elapsed))
             r2 == Struck(r, S)
             f2 == Ticking!Joined(f, S, w.elapsed)
  <2>2. v2 = Renewed(l, r2, f2) /\ r2 \in Registers /\ f2 \in Log
    BY <2>1
  <2> HIDE DEF v2, l, r2, f2
  <2>3. /\ v2 \in Walker /\ v2.t = r2 /\ v2.fired = f2 /\ v2.cur = l.cur
        /\ v2.cc = l.cc /\ v2.elapsed = l.elapsed /\ v2.left = l.left
    BY ONLY <1>9, <2>2, Renews
  <2>4. v2 = Walking(v2.t, v2.cur, v2.cc, v2.elapsed, v2.left, v2.fired)
    BY <2>3, Parts
  <2> QED BY <2>3, <2>4, <1>9 DEF v2, r2, f2
<1> QED BY <1>10, <1>11 DEF r, f, n, S

\* The bound of a walk is a positive number.
LEMMA ForeverLasts == Forever \in Nat \ {0}
BY SMT DEF Forever

\* Counting on, without a period end.
LEMMA CountedOn ==
    ASSUME NEW w \in Walker, NEW s \in Nat, s <= w.left, NEW S \in SUBSET Match, S = Tied(w, s),
           NEW v, v = Counted(w, s)
    PROVE  /\ v = Walking(Struck(w.t, S), w.cur + s, w.cc, w.elapsed + s, w.left - s,
                     Ticking!Joined(w.fired, S, w.elapsed + s))
           /\ v \in Walker /\ v.t = Struck(w.t, S) /\ v.cur = w.cur + s /\ v.cc = w.cc
           /\ v.elapsed = w.elapsed + s /\ v.left = w.left - s
           /\ v.fired = Ticking!Joined(w.fired, S, w.elapsed + s)
<1> DEFINE moved == [w EXCEPT !.cur = @ + s, !.elapsed = @ + s, !.left = @ - s]
<1>1. v = FireCompares(moved, S)
  BY DEF Counted
<1>2. /\ moved \in Walker /\ moved.t = w.t /\ moved.cur = w.cur + s /\ moved.cc = w.cc
      /\ moved.elapsed = w.elapsed + s /\ moved.left = w.left - s /\ moved.fired = w.fired
  <2> DEFINE c == w.cur + s
             e == w.elapsed + s
             l == w.left - s
             m == [w EXCEPT !.cur = c, !.elapsed = e, !.left = l]
  <2>1. c \in Nat /\ e \in Nat /\ l \in Nat
    BY WalkerParts
  <2>2. moved = m
    BY DEF Walker
  <2> HIDE DEF moved, c, e, l
  <2>3. /\ m \in Walker /\ m.t = w.t /\ m.cur = c /\ m.cc = w.cc
        /\ m.elapsed = e /\ m.left = l /\ m.fired = w.fired
    BY <2>1 DEF Walker
  <2> HIDE DEF m
  <2> QED BY <2>2, <2>3 DEF c, e, l
<1> HIDE DEF moved
<1>3. /\ v \in Walker /\ v.t = Struck(moved.t, S) /\ v.fired = Ticking!Joined(moved.fired, S, moved.elapsed)
      /\ v.cur = moved.cur /\ v.cc = moved.cc /\ v.elapsed = moved.elapsed /\ v.left = moved.left
  BY ONLY <1>1, <1>2, S \in SUBSET Match, FireSome
<1>4. v = Walking(v.t, v.cur, v.cc, v.elapsed, v.left, v.fired)
  BY <1>3, Parts
<1> QED BY <1>2, <1>3, <1>4

\* A turn takes the least of the four distances.
LEMMA StepLeast ==
    ASSUME NEW w, w.left # 0, NEW s, s = Least(w.left, ToWrap(w), ToMatch(w, "A"), ToMatch(w, "B"))
    PROVE  Step(w) = Taken(w, s)
BY DEF Step, Least

\* A turn of the loop goes to the first event, or as far as the time lasts.
LEMMA StepGoes ==
    ASSUME GptAssumption, NEW w, Sound(w), w.left \in 1..(Forever - 1), NEW v, v = Step(w)
    PROVE  \E s \in 1..w.left : v = Gone(w, s, w.left - s) /\ Free(w, s) /\ (s = w.left \/ Stop(w, s))
<1>1. /\ w.t \in Registers /\ w.cur \in Nat /\ w.cc \in [Match -> 0..Mask] /\ w.elapsed \in Nat
      /\ w.left \in Nat /\ w.fired \in Log /\ w.t.pr \in Nat /\ w.cur <= w.t.pr
      /\ \A m \in Match : w.cc[m] \in Nat
      /\ w \in Walker
  BY WalkerParts DEF Sound
<1> DEFINE wrap == ToWrap(w)
           a == ToMatch(w, "A")
           b == ToMatch(w, "B")
           s == Least(w.left, wrap, a, b)
<1>2. v = Taken(w, s)
  <2>1. w.left # 0 /\ s = Least(w.left, ToWrap(w), ToMatch(w, "A"), ToMatch(w, "B"))
    BY <1>1
  <2> HIDE DEF s
  <2> QED BY <2>1, StepLeast
<1>3. "A" \in Match /\ "B" \in Match /\ Match = {"A", "B"}
  BY DEF Match
<1>4. wrap = w.t.pr - w.cur + 1 /\ wrap \in Nat \ {0}
  BY <1>1 DEF ToWrap
<1>5. \A m \in Match : ToMatch(w, m) \in Nat \ {0}
  BY <1>1, ForeverLasts DEF ToMatch
<1>6. /\ s \in {w.left, wrap, a, b} /\ s <= w.left /\ s <= wrap /\ s <= a /\ s <= b
      /\ s \in Nat \ {0}
  <2>1. w.left \in Int /\ wrap \in Int /\ a \in Int /\ b \in Int
    BY <1>1, <1>3, <1>4, <1>5
  <2>2. a \in Nat \ {0} /\ b \in Nat \ {0} /\ w.left \in Nat \ {0}
    BY <1>3, <1>5
  <2> DEFINE le == w.left
  <2>3. s = Least(le, wrap, a, b) /\ le \in Int /\ wrap \in Int /\ a \in Int /\ b \in Int
    BY <2>1
  <2> HIDE DEF s, wrap, a, b, le
  <2>4. s \in {le, wrap, a, b} /\ s <= le /\ s <= wrap /\ s <= a /\ s <= b
    BY ONLY <2>3, LeastOf
  <2> QED BY <2>4, <2>2, <1>4 DEF le
<1> HIDE DEF s
<1>7. s \in 1..w.left /\ s < Forever /\ s \in Nat
  BY <1>1, <1>6, ForeverLasts
<1>8. Tied(w, s) = Due(w, s)
  <2>1. \A m \in Match : ToMatch(w, m) = s <=> w.cc[m] = w.cur + s /\ w.cc[m] <= w.t.pr
    BY <1>1, <1>7 DEF ToMatch
  <2> QED BY <2>1 DEF Tied, Due
<1>9. Free(w, s)
  <2>1. w.cur + s <= w.t.pr + 1
    BY <1>1, <1>4, <1>6
  <2>2. ASSUME NEW m \in Match, w.cur < w.cc[m], w.cc[m] <= w.t.pr PROVE w.cur + s <= w.cc[m]
    <3>1. ToMatch(w, m) = w.cc[m] - w.cur
      BY <2>2 DEF ToMatch
    <3>2. s <= ToMatch(w, m)
      BY <1>3, <1>6
    <3> QED BY <3>1, <3>2, <1>1, <1>7
  <2> QED BY <2>1, <2>2 DEF Free
<1>10. s = w.left \/ Stop(w, s)
  <2>1. CASE s = wrap
    BY <2>1, <1>1, <1>4 DEF Stop
  <2>2. CASE s = a
    <3>1. "A" \in Due(w, s)
      BY <2>2, <1>3, <1>8 DEF Tied
    <3> QED BY <3>1 DEF Stop
  <2>3. CASE s = b
    <3>1. "B" \in Due(w, s)
      BY <2>3, <1>3, <1>8 DEF Tied
    <3> QED BY <3>1 DEF Stop
  <2> QED BY <2>1, <2>2, <2>3, <1>6
<1> DEFINE c == w.cur + s
           e == w.elapsed + s
           l == w.left - s
<1>11. c \in Nat /\ e \in Nat /\ l \in Nat /\ Due(w, s) \in SUBSET Match
  BY <1>1, <1>7 DEF Due
<1> DEFINE x == Counted(w, s)
           S == Due(w, s)
<1>16. /\ x = Walking(Struck(w.t, S), c, w.cc, e, l, Ticking!Joined(w.fired, S, e))
       /\ x \in Walker /\ x.t = Struck(w.t, S) /\ x.cur = c /\ x.cc = w.cc
       /\ x.elapsed = e /\ x.left = l /\ x.fired = Ticking!Joined(w.fired, S, e)
  <2>1. w \in Walker /\ s \in Nat /\ s <= w.left /\ S \in SUBSET Match /\ S = Tied(w, s) /\ x = Counted(w, s)
    BY <1>1, <1>6, <1>7, <1>8, <1>11
  <2> HIDE DEF S, x
  <2> QED BY ONLY <2>1, CountedOn DEF c, e, l
<1> HIDE DEF x, c, e, l
<1>17. v = Gone(w, s, w.left - s)
  <2>1. CASE s = wrap
    <3>1. w.cur + s = w.t.pr + 1
      BY <2>1, <1>1, <1>4
    <3>2. Due(w, s) = {}
      BY <3>1, <1>1 DEF Due
    <3>3. Struck(w.t, {}) = w.t /\ Ticking!Joined(w.fired, {}, e) = w.fired
      BY <1>1, Still
    <3>4. v = FireWrap(x)
      BY <1>2, <2>1 DEF Taken, x
    <3>5. v = Walking(Struck(Rewound(x.t), AtZero(x.t)), 0, x.cc, x.elapsed, x.left,
                 Ticking!Joined(Append(x.fired, <<"OVF", x.elapsed>>), AtZero(x.t), x.elapsed))
      BY ONLY GptAssumption, <1>16, <3>4, Wraps
    <3>6. x.t = w.t /\ x.cc = w.cc /\ x.elapsed = e /\ x.left = l /\ x.fired = w.fired
      BY <1>16, <3>2, <3>3
    <3> QED BY <3>1, <3>5, <3>6 DEF Gone, e, l
  <2>2. CASE s # wrap
    <3>1. w.cur + s # w.t.pr + 1
      BY <2>2, <1>1, <1>4, <1>7
    <3>2. v = x
      BY <1>2, <2>2 DEF Taken, x
    <3> QED BY <3>1, <3>2, <1>16 DEF Gone, c, e, l
  <2> QED BY <2>1, <2>2
<1> QED BY <1>7, <1>9, <1>10, <1>17

\* Other time left changes nothing else,
LEMMA WithParts ==
    ASSUME NEW w \in Walker, NEW n \in Nat, NEW v, v = With(w, n)
    PROVE  /\ v \in Walker /\ v.t = w.t /\ v.cur = w.cur /\ v.cc = w.cc /\ v.elapsed = w.elapsed
           /\ v.left = n /\ v.fired = w.fired
           /\ v = Walking(w.t, w.cur, w.cc, w.elapsed, n, w.fired)
<1>1. /\ v \in Walker /\ v.t = w.t /\ v.cur = w.cur /\ v.cc = w.cc /\ v.elapsed = w.elapsed
      /\ v.left = n /\ v.fired = w.fired
  BY DEF With, Walker
<1>2. v = Walking(v.t, v.cur, v.cc, v.elapsed, v.left, v.fired)
  BY <1>1, Parts
<1> QED BY <1>1, <1>2

\* the last such change stays,
LEMMA WithTwice ==
    ASSUME NEW w \in Walker, NEW n \in Nat, NEW k \in Nat
    PROVE  With(With(w, n), k) = With(w, k) /\ With(w, w.left) = w
<1> DEFINE v == With(w, n)
           u == With(v, k)
           x == With(w, k)
           y == With(w, w.left)
<1>0. w.left \in Nat /\ w = Walking(w.t, w.cur, w.cc, w.elapsed, w.left, w.fired)
  BY WalkerParts, Parts
<1>1. /\ v \in Walker /\ v.t = w.t /\ v.cur = w.cur /\ v.cc = w.cc /\ v.elapsed = w.elapsed
      /\ v.fired = w.fired
  BY WithParts
<1>2. x = Walking(w.t, w.cur, w.cc, w.elapsed, k, w.fired)
  BY WithParts
<1>3. y = Walking(w.t, w.cur, w.cc, w.elapsed, w.left, w.fired)
  BY <1>0, WithParts
<1>4. u = Walking(v.t, v.cur, v.cc, v.elapsed, k, v.fired)
  <2> HIDE DEF v
  <2> QED BY <1>1, WithParts
<1> QED BY <1>0, <1>1, <1>2, <1>3, <1>4

\* Where a walker goes does not depend on how much time is left.
LEMMA WithGoes ==
    ASSUME NEW w \in Walker, NEW k \in Nat, NEW s, NEW l, NEW v, v = With(w, k)
    PROVE  /\ Gone(v, s, l) = Gone(w, s, l) /\ (Free(v, s) <=> Free(w, s)) /\ (Stop(v, s) <=> Stop(w, s))
           /\ (Sound(v) <=> Sound(w))
<1>1. /\ v \in Walker /\ v.t = w.t /\ v.cur = w.cur /\ v.cc = w.cc /\ v.elapsed = w.elapsed
      /\ v.fired = w.fired
  BY WithParts
<1>2. Due(v, s) = Due(w, s)
  BY <1>1 DEF Due
<1> QED BY <1>1, <1>2 DEF Gone, Free, Stop, Sound

\* and it does not matter whether it comes before or after a step.
LEMMA GoneWith ==
    ASSUME GptAssumption, NEW w, Sound(w), NEW s \in Nat \ {0}, w.cur + s <= w.t.pr + 1,
           NEW l \in Nat, NEW k \in Nat
    PROVE  With(Gone(w, s, l), k) = Gone(w, s, k)
<1> DEFINE a == Gone(w, s, l)
           b == Gone(w, s, k)
           c == With(a, k)
<1>1. Sound(a) /\ Sound(b) /\ b.left = k
  BY GoneSound
<1>2. a \in Walker /\ b \in Walker
  BY <1>1 DEF Sound
<1>3. a.t = b.t /\ a.cur = b.cur /\ a.cc = b.cc /\ a.elapsed = b.elapsed /\ a.fired = b.fired
  BY DEF Gone, Walking
<1> HIDE DEF a, b
<1>4. c = Walking(a.t, a.cur, a.cc, a.elapsed, k, a.fired)
  BY <1>2, WithParts
<1>5. b = Walking(b.t, b.cur, b.cc, b.elapsed, b.left, b.fired)
  BY <1>2, Parts
<1> QED BY <1>1, <1>3, <1>4, <1>5 DEF a, b

\* A walker that stops takes all its time or stops at an event.
LEMMA StepSound ==
    ASSUME GptAssumption, NEW w, Sound(w), w.left \in 0..(Forever - 1), NEW v, v = Step(w)
    PROVE  /\ Sound(v) /\ v.left \in Nat /\ v.left + v.elapsed = w.left + w.elapsed
           /\ v.cc = w.cc /\ v.t.pr = w.t.pr
           /\ (w.left = 0 => v = w) /\ (w.left # 0 => v.left < w.left)
<1>0. w.left \in Nat /\ w.elapsed \in Nat /\ w.cur \in Nat /\ w.t.pr \in Nat /\ w \in Walker
  BY WalkerParts DEF Sound
<1>1. CASE w.left = 0
  <2>1. v = w
    BY <1>1 DEF Step
  <2> QED BY <2>1, <1>0, <1>1
<1>2. CASE w.left # 0
  <2>0. w.left \in 1..(Forever - 1)
    BY <1>0, <1>2, ForeverLasts
  <2>1. PICK s \in 1..w.left : v = Gone(w, s, w.left - s) /\ Free(w, s)
    BY <2>0, StepGoes
  <2>2. s \in Nat \ {0} /\ w.left - s \in Nat /\ w.cur + s <= w.t.pr + 1 /\ w.left - s < w.left
    BY <1>0, <2>1 DEF Free
  <2> DEFINE l == w.left - s
  <2>3. v = Gone(w, s, l) /\ l \in Nat
    BY <2>1, <2>2
  <2> HIDE DEF l
  <2>4. /\ Sound(v) /\ v.left = l /\ v.elapsed = w.elapsed + s /\ v.cc = w.cc /\ v.t.pr = w.t.pr
    BY <2>2, <2>3, GoneSound
  <2> QED BY <2>2, <2>3, <2>4, <1>0, <1>2 DEF l
<1> QED BY <1>1, <1>2

\* Two stretches without an event, one that ends at one: the first is not the longer.
LEMMA FreeStop ==
    ASSUME NEW w \in Walker, NEW s \in Nat \ {0}, NEW r \in Nat \ {0}, Free(w, s), Stop(w, r)
    PROVE  s <= r
<1>1. w.cur \in Nat /\ w.t.pr \in Nat /\ \A m \in Match : w.cc[m] \in Nat
  BY WalkerParts
<1>2. CASE w.cur + r = w.t.pr + 1
  BY <1>1, <1>2 DEF Free
<1>3. CASE Due(w, r) # {}
  <2>1. PICK m \in Match : w.cc[m] = w.cur + r /\ w.cc[m] <= w.t.pr
    BY <1>3 DEF Due
  <2>2. w.cur < w.cc[m]
    BY <1>1, <2>1
  <2>3. w.cur + s <= w.cc[m]
    BY <2>1, <2>2 DEF Free
  <2> QED BY <1>1, <2>1, <2>3
<1> QED BY <1>2, <1>3 DEF Stop

\* Nothing happens on the way to an event: going k and then 1 is going k + 1.
LEMMA GoneOn ==
    ASSUME GptAssumption, NEW w, Sound(w), NEW k \in Nat \ {0}, Free(w, k), ~Stop(w, k), NEW u, u = Gone(w, k, 0)
    PROVE  Sound(u) /\ Gone(u, 1, 0) = Gone(w, k + 1, 0) /\ u.cur = w.cur + k /\ u.t = w.t
<1>1. /\ w.t \in Registers /\ w.cur \in Nat /\ w.cc \in [Match -> 0..Mask] /\ w.elapsed \in Nat
      /\ w.fired \in Log /\ w.t.pr \in Nat /\ w \in Walker
  BY WalkerParts DEF Sound
<1>2. w.cur + k <= w.t.pr + 1 /\ w.cur + k # w.t.pr + 1 /\ Due(w, k) = {}
  BY DEF Free, Stop
<1>3. Struck(w.t, {}) = w.t /\ \A f, e : Ticking!Joined(f, {}, e) = f
  BY <1>1, Still
<1>4. u = Walking(w.t, w.cur + k, w.cc, w.elapsed + k, 0, w.fired)
  BY <1>2, <1>3 DEF Gone
<1>5. u.t = w.t /\ u.cur = w.cur + k /\ u.cc = w.cc /\ u.elapsed = w.elapsed + k /\ u.fired = w.fired
  BY <1>4 DEF Walking
<1>6. /\ u.cur + 1 = w.cur + (k + 1) /\ u.elapsed + 1 = w.elapsed + (k + 1)
  BY <1>1, <1>5
<1>7. Due(u, 1) = Due(w, k + 1)
  BY <1>5, <1>6 DEF Due
<1>8. Gone(u, 1, 0) = Gone(w, k + 1, 0)
  BY <1>5, <1>6, <1>7 DEF Gone
<1>9. Sound(u)
  <2> DEFINE n == 0
  <2>1. n \in Nat /\ u = Gone(w, k, n) /\ w.cur + k <= w.t.pr + 1
    BY <1>2
  <2> HIDE DEF n
  <2> QED BY <2>1, GoneSound
<1> QED BY <1>5, <1>8, <1>9

\* One more instruction to go: the turn is the same, or it is followed by a turn of one.
LEMMA Split ==
    ASSUME GptAssumption, NEW w, Sound(w), NEW k \in Nat, k + 1 < Forever,
           NEW a, a = Step(With(w, k)), NEW b, b = Step(With(w, k + 1))
    PROVE  b = With(a, a.left + 1) \/ (a.left = 0 /\ b = Step(With(a, 1)))
<1> DEFINE wk == With(w, k)
           wn == With(w, k + 1)
<1>0. w \in Walker /\ w.cur \in Nat /\ w.t.pr \in Nat /\ k + 1 \in Nat /\ k \in Nat
  BY WalkerParts DEF Sound
<1>1. /\ wk \in Walker /\ wk.left = k /\ Sound(wk) /\ wn \in Walker /\ wn.left = k + 1 /\ Sound(wn)
  <2>1. wk \in Walker /\ wk.left = k /\ wk.t = w.t /\ wk.cur = w.cur
    <3>1. wk = With(w, k) /\ k \in Nat /\ w \in Walker
      BY <1>0
    <3> HIDE DEF wk
    <3> QED BY ONLY <3>1, WithParts
  <2>2. wn \in Walker /\ wn.left = k + 1 /\ wn.t = w.t /\ wn.cur = w.cur
    <3> DEFINE n == k + 1
    <3>1. wn = With(w, n) /\ n \in Nat /\ w \in Walker
      BY <1>0
    <3> HIDE DEF n, wn
    <3>2. wn \in Walker /\ wn.left = n /\ wn.t = w.t /\ wn.cur = w.cur
      BY <3>1, WithParts
    <3> QED BY <3>2 DEF n
  <2> QED BY <2>1, <2>2 DEF Sound
<1>2. CASE k = 0
  <2>1. a = wk
    BY <1>1, <1>2 DEF Step
  <2>2. With(a, 1) = wn
    BY <2>1, <1>0, <1>2, WithTwice
  <2> QED BY <2>1, <2>2, <1>1, <1>2
<1>3. CASE k # 0
  <2>0. wk.left \in 1..(Forever - 1) /\ wn.left \in 1..(Forever - 1)
    BY <1>1, <1>3, <1>0, ForeverLasts
  <2>1. PICK s \in 1..k : /\ a = Gone(wk, s, k - s) /\ Free(wk, s) /\ (s = k \/ Stop(wk, s))
    BY <1>1, <2>0, StepGoes
  <2>2. PICK r \in 1..(k + 1) : /\ b = Gone(wn, r, (k + 1) - r) /\ Free(wn, r) /\ (r = k + 1 \/ Stop(wn, r))
    BY <1>1, <2>0, StepGoes
  <2>3. /\ a = Gone(w, s, k - s) /\ Free(w, s) /\ (s = k \/ Stop(w, s))
        /\ b = Gone(w, r, (k + 1) - r) /\ Free(w, r) /\ (r = k + 1 \/ Stop(w, r))
    BY <2>1, <2>2, <1>0, WithGoes
  <2>4. s \in Nat \ {0} /\ r \in Nat \ {0} /\ k - s \in Nat /\ (k + 1) - r \in Nat
    BY <1>0
  <2>5. w.cur + s <= w.t.pr + 1
    BY <2>3 DEF Free
  <2>6. CASE s = r
    <3> DEFINE l == k - s
               h == (k + 1) - r
    <3>1. a = Gone(w, s, l) /\ b = Gone(w, s, h) /\ l \in Nat /\ h \in Nat /\ h = l + 1
      BY <2>3, <2>4, <2>6
    <3> HIDE DEF l, h
    <3>2. a.left = l
      BY <3>1, <2>4, <2>5, GoneSound
    <3>3. With(a, h) = Gone(w, s, h)
      BY <3>1, <2>4, <2>5, GoneWith
    <3> QED BY <3>1, <3>2, <3>3
  <2>7. CASE s # r
    <3>1. ~Stop(w, s)
      <4> SUFFICES ASSUME Stop(w, s) PROVE FALSE
        OBVIOUS
      <4>1. r <= s
        BY <2>3, <2>4, <1>0, FreeStop
      <4>2. Stop(w, r)
        BY <2>3, <2>4, <4>1, <1>0
      <4>3. s <= r
        BY <2>3, <2>4, <4>2, <1>0, FreeStop
      <4> QED BY <4>1, <4>3, <2>4, <2>7
    <3>2. s = k
      BY <2>3, <3>1
    <3>3. r = k + 1
      <4> SUFFICES ASSUME r # k + 1 PROVE FALSE
        OBVIOUS
      <4>1. Stop(w, r)
        BY <2>3
      <4>2. s <= r
        BY <2>3, <2>4, <4>1, <1>0, FreeStop
      <4> QED BY <4>2, <3>2, <2>4, <2>7, <1>0
    <3>4. a = Gone(w, k, 0) /\ b = Gone(w, k + 1, 0)
      BY <2>3, <3>2, <3>3, <1>0
    <3>5. Sound(a) /\ Gone(a, 1, 0) = Gone(w, k + 1, 0) /\ a.cur = w.cur + k /\ a.t = w.t
      <4>1. k \in Nat \ {0} /\ Free(w, k) /\ ~Stop(w, k)
        BY <1>3, <2>3, <3>1, <3>2
      <4> QED BY ONLY GptAssumption, Sound(w), <4>1, <3>4, GoneOn
    <3>6. a.left = 0
      <4> DEFINE n == 0
      <4>1. n \in Nat /\ a = Gone(w, s, n)
        BY <3>2, <3>4
      <4> HIDE DEF n
      <4>2. a.left = n
        BY <4>1, <2>4, <2>5, GoneSound
      <4> QED BY <4>2 DEF n
    <3>7. Step(With(a, 1)) = Gone(a, 1, 0)
      <4> DEFINE x == With(a, 1)
      <4>1. a \in Walker /\ 1 \in Nat
        BY <3>5 DEF Sound
      <4>2. x \in Walker /\ x.left = 1 /\ Sound(x) /\ Gone(x, 1, 0) = Gone(a, 1, 0)
        <5>1. x \in Walker /\ x.left = 1 /\ x.t = a.t /\ x.cur = a.cur
          BY <4>1, WithParts
        <5>2. Gone(x, 1, 0) = Gone(a, 1, 0)
          BY <4>1, WithGoes
        <5> QED BY <5>1, <5>2, <3>5 DEF Sound
      <4>3. x.left \in 1..(Forever - 1)
        BY <4>2, <1>0, ForeverLasts
      <4> HIDE DEF x
      <4>4. PICK q \in 1..x.left : Step(x) = Gone(x, q, x.left - q)
        BY <4>2, <4>3, StepGoes
      <4>5. q = 1 /\ x.left - q = 0
        BY <4>2, <4>4
      <4> QED BY <4>2, <4>4, <4>5 DEF x
    <3> QED BY <3>4, <3>5, <3>6, <3>7
  <2> QED BY <2>6, <2>7
<1> QED BY <1>2, <1>3

\* The turns of two walkers, the second with one instruction more to go.
Along(f, g, w, n, i) ==
    /\ Sound(f[i]) /\ f[i].left \in 0..(n - i) /\ f[i].left + f[i].elapsed = n + w.elapsed
    /\ f[i].cc = w.cc /\ f[i].t.pr = w.t.pr
    /\ \/ g[i] = With(f[i], f[i].left + 1)
       \/ f[i].left = 0 /\ g[i] = Step(With(f[i], 1)) /\ g[i].left = 0

\* A turn with one instruction left counts one and ends.
LEMMA StepOfOne ==
    ASSUME GptAssumption, NEW w, Sound(w), 1 < Forever, NEW v, v = Step(With(w, 1))
    PROVE  v = Gone(w, 1, 0) /\ Free(w, 1) /\ Sound(v) /\ v.left = 0
<1> DEFINE x == With(w, 1)
<1>0. w \in Walker /\ w.cur \in Nat /\ w.t.pr \in Nat
  BY WalkerParts DEF Sound
<1>1. x \in Walker /\ x.left = 1 /\ x.t = w.t /\ x.cur = w.cur
  BY <1>0, WithParts
<1>2. Gone(x, 1, 0) = Gone(w, 1, 0) /\ (Free(x, 1) <=> Free(w, 1))
  BY <1>0, WithGoes
<1>3. Sound(x) /\ x.left \in 1..(Forever - 1)
  BY <1>1, ForeverLasts DEF Sound
<1> HIDE DEF x
<1>4. PICK q \in 1..x.left : v = Gone(x, q, x.left - q) /\ Free(x, q)
  BY <1>3, StepGoes DEF x
<1>5. q = 1 /\ x.left - q = 0
  BY <1>1, <1>4
<1>6. v = Gone(w, 1, 0) /\ Free(w, 1)
  BY <1>2, <1>4, <1>5
<1> DEFINE n == 0
           s == 1
<1>7. n \in Nat /\ s \in Nat \ {0} /\ w.cur + s <= w.t.pr + 1 /\ v = Gone(w, s, n)
  BY <1>6 DEF Free
<1> HIDE DEF n, s
<1>8. Sound(v) /\ v.left = n
  BY <1>7, GoneSound
<1> QED BY <1>6, <1>8 DEF n

\* Two walks that differ only in the time they have left stay so for one more turn.
LEMMA AlongTurn ==
    ASSUME GptAssumption, NEW w, Sound(w), NEW n \in Nat, n + 1 < Forever,
           NEW f, NEW g, NEW i \in Nat, i + 1 <= n, Along(f, g, w, n, i),
           f[i + 1] = Step(f[i]), g[i + 1] = Step(g[i])
    PROVE  Along(f, g, w, n, i + 1)
<1> DEFINE a == f[i]
           b == g[i]
           x == f[i + 1]
           y == g[i + 1]
<1>0. w.cur \in Nat /\ w.elapsed \in Nat /\ w \in Walker
  BY WalkerParts DEF Sound
<1>1. /\ Sound(a) /\ a.left \in 0..(n - i) /\ a.left + a.elapsed = n + w.elapsed
      /\ a.cc = w.cc /\ a.t.pr = w.t.pr
      /\ \/ b = With(a, a.left + 1)
         \/ a.left = 0 /\ b = Step(With(a, 1)) /\ b.left = 0
      /\ x = Step(a) /\ y = Step(b)
  BY DEF Along
<1> HIDE DEF a, b, x, y
<1>2. a \in Walker /\ a.left \in Nat /\ a.elapsed \in Nat
  BY <1>1, WalkerParts DEF Sound
<1>3. a.left \in 0..(Forever - 1) /\ a.left + 1 < Forever /\ 1 < Forever
  BY <1>1, <1>2, ForeverLasts
<1>4. /\ Sound(x) /\ x.left \in Nat /\ x.left + x.elapsed = a.left + a.elapsed
      /\ x.cc = a.cc /\ x.t.pr = a.t.pr
      /\ (a.left = 0 => x = a) /\ (a.left # 0 => x.left < a.left)
  BY <1>1, <1>3, StepSound
<1>5. x.left \in 0..(n - (i + 1))
  BY <1>1, <1>2, <1>4
<1>6. \/ y = With(x, x.left + 1)
      \/ x.left = 0 /\ y = Step(With(x, 1)) /\ y.left = 0
  <2>1. CASE b = With(a, a.left + 1)
    <3> DEFINE k == a.left
    <3>1. a = With(a, k)
      BY <1>2, WithTwice
    <3>2. k \in Nat /\ k + 1 < Forever /\ x = Step(With(a, k)) /\ y = Step(With(a, k + 1))
      BY <1>1, <1>2, <1>3, <2>1, <3>1
    <3> HIDE DEF k
    <3>3. y = With(x, x.left + 1) \/ (x.left = 0 /\ y = Step(With(x, 1)))
      BY <1>1, <3>2, Split
    <3>4. CASE x.left = 0 /\ y = Step(With(x, 1))
      <4>1. y.left = 0
        BY <3>4, <1>3, <1>4, StepOfOne
      <4> QED BY <3>4, <4>1
    <3> QED BY <3>3, <3>4
  <2>2. CASE a.left = 0 /\ b = Step(With(a, 1)) /\ b.left = 0
    <3>1. x = a /\ y = b
      BY <1>1, <1>4, <2>2 DEF Step
    <3> QED BY <2>2, <3>1
  <2> QED BY <1>1, <2>1, <2>2
<1> QED BY <1>1, <1>4, <1>5, <1>6 DEF Along, x, y

\* A walk of n + 1 instructions is one of n and a turn of one.
LEMMA TurnsOn ==
    ASSUME GptAssumption, NEW w, Sound(w), NEW n \in Nat, n + 1 < Forever,
           NEW u, u = Turns(With(w, n), n)
    PROVE  /\ Sound(u) /\ u.left = 0 /\ u.elapsed = n + w.elapsed /\ u.cc = w.cc /\ u.t.pr = w.t.pr
           /\ Turns(With(w, n + 1), n + 1) = Step(With(u, 1))
<1> DEFINE m == n + 1
           wn == With(w, n)
           wm == With(w, m)
<1>0. /\ w.cur \in Nat /\ w.elapsed \in Nat /\ w \in Walker /\ m \in Nat
  BY WalkerParts DEF Sound
<1>1. /\ wn \in Walker /\ wn.t = w.t /\ wn.cur = w.cur /\ wn.cc = w.cc /\ wn.elapsed = w.elapsed /\ wn.left = n
  BY <1>0, WithParts
<1>2. With(wn, m) = wm
  <2> HIDE DEF m
  <2> QED BY <1>0, WithTwice
<1>3. PICK f : TurnsOf(f, wn, n) /\ u = f[n]
  BY TurnsStep
<1>4. PICK g : TurnsOf(g, wm, m) /\ Turns(wm, m) = g[m]
  <2> HIDE DEF m, wm
  <2> QED BY <1>0, TurnsStep
<1>5. /\ f[0] = wn /\ \A i \in 1..n : f[i] = Step(f[i - 1])
      /\ g[0] = wm /\ \A i \in 1..m : g[i] = Step(g[i - 1])
  BY <1>3, <1>4 DEF TurnsOf
<1> HIDE DEF wn, wm
<1> DEFINE S == {i \in Nat : i <= n => Along(f, g, w, n, i)}
<1>6. 0 \in S
  <2>1. Sound(f[0]) /\ f[0].left = n /\ f[0].elapsed = w.elapsed /\ f[0].cc = w.cc /\ f[0].t.pr = w.t.pr
    BY <1>1, <1>5 DEF Sound
  <2>2. g[0] = With(f[0], f[0].left + 1)
    BY <1>1, <1>2, <1>5
  <2>3. Along(f, g, w, n, 0)
    BY <2>1, <2>2, <1>0 DEF Along
  <2> QED BY <2>3
<1>7. ASSUME NEW i \in Nat, i \in S PROVE i + 1 \in S
  <2> SUFFICES ASSUME i + 1 <= n PROVE Along(f, g, w, n, i + 1)
    OBVIOUS
  <2>1. Along(f, g, w, n, i)
    BY <1>7
  <2>2. i + 1 \in 1..n /\ i + 1 \in 1..m /\ (i + 1) - 1 = i
    OBVIOUS
  <2>3. f[i + 1] = Step(f[i]) /\ g[i + 1] = Step(g[i])
    BY <1>5, <2>2
  <2> QED BY <2>1, <2>3, AlongTurn
<1>8. n \in S
  <2> HIDE DEF S
  <2> QED BY <1>6, <1>7, Induction
<1>9. Along(f, g, w, n, n)
  BY <1>8
<1>10. /\ Sound(u) /\ u.left \in 0..(n - n) /\ u.left + u.elapsed = n + w.elapsed
       /\ u.cc = w.cc /\ u.t.pr = w.t.pr
       /\ \/ g[n] = With(u, u.left + 1)
          \/ u.left = 0 /\ g[n] = Step(With(u, 1)) /\ g[n].left = 0
  BY <1>3, <1>9 DEF Along
<1>11. u.left = 0 /\ u.elapsed \in Nat
  BY <1>10, WalkerParts DEF Sound
<1>12. g[m] = Step(g[n])
  <2>1. m \in 1..m /\ m - 1 = n
    OBVIOUS
  <2> HIDE DEF m
  <2> QED BY <2>1, <1>5
<1>13. g[m] = Step(With(u, 1))
  <2>1. CASE g[n] = With(u, u.left + 1)
    <3>1. u.left + 1 = 1
      BY <1>11
    <3> QED BY <2>1, <3>1, <1>12
  <2>2. CASE g[n] = Step(With(u, 1)) /\ g[n].left = 0
    BY <2>2, <1>12 DEF Step
  <2> QED BY <2>1, <2>2, <1>10
<1>14. u.elapsed = n + w.elapsed
  BY <1>10, <1>11, <1>0
<1> QED BY <1>4, <1>10, <1>11, <1>13, <1>14 DEF wm

-----------------------------------------------------------------------------
(* The walk as a function of the instructions since the last tick.           *)

\* The matches due at the start, the registers after them, and the walker there.
Open(t) == IF t.cnt = 0 /\ t.fresh THEN {m \in Match : t.cc[m] = 0} ELSE {}
Opened(t) == IF t.cnt = 0 /\ t.fresh THEN Struck([t EXCEPT !.fresh = FALSE], Open(t)) ELSE t
Begun(t) == Walking(Opened(t), t.cnt, t.cc, 0, 0, Ticking!Joined(<<>>, Open(t), 0))

\* The walker after n instructions.
Course(t, n) == Turns(With(Begun(t), n), n)

\* What the start of a walk does to the registers.
LEMMA OpenedType ==
    ASSUME NEW t \in Registers, NEW u, u = Opened(t)
    PROVE  /\ Open(t) \in SUBSET Match /\ u \in Registers
           /\ u.cst = t.cst /\ u.cstrt = t.cstrt /\ u.cnt = t.cnt /\ u.pr = t.pr /\ u.cc = t.cc
           /\ u.buffer = t.buffer /\ u.ber = t.ber /\ u.oe = t.oe /\ u.ssr = t.ssr /\ u.csr = t.csr
           /\ u.fresh = (t.fresh /\ t.cnt # 0)
           /\ u.st = t.st \cup Open(t) /\ u.out = t.out \ (t.oe \cap Open(t))
<1>1. Open(t) \in SUBSET Match
  BY DEF Open
<1>2. CASE t.cnt = 0 /\ t.fresh
  <2> DEFINE f == [t EXCEPT !.fresh = FALSE]
  <2>1. f \in Registers /\ f.st = t.st /\ f.out = t.out /\ f.oe = t.oe
    BY DEF Registers
  <2>2. u = Struck(f, Open(t))
    BY <1>2 DEF Opened
  <2>3. u \in Registers
    BY <1>1, <2>1, <2>2, StruckType
  <2>4. /\ f.cst = t.cst /\ f.cstrt = t.cstrt /\ f.cnt = t.cnt /\ f.pr = t.pr /\ f.cc = t.cc
        /\ f.buffer = t.buffer /\ f.ber = t.ber /\ f.oe = t.oe /\ f.ssr = t.ssr /\ f.csr = t.csr
        /\ f.fresh = FALSE
    BY DEF Registers
  <2> HIDE DEF f
  <2>5. /\ u.cst = f.cst /\ u.cstrt = f.cstrt /\ u.cnt = f.cnt /\ u.pr = f.pr /\ u.cc = f.cc
        /\ u.buffer = f.buffer /\ u.ber = f.ber /\ u.oe = f.oe /\ u.ssr = f.ssr /\ u.csr = f.csr
        /\ u.fresh = f.fresh
        /\ u.st = f.st \cup Open(t) /\ u.out = f.out \ (f.oe \cap Open(t))
    BY <2>1, <2>2 DEF Struck, Registers
  <2>6. u.fresh = (t.fresh /\ t.cnt # 0)
    BY <1>2, <2>4, <2>5
  <2> QED BY <1>1, <2>1, <2>3, <2>4, <2>5, <2>6
<1>3. CASE ~(t.cnt = 0 /\ t.fresh)
  <2>1. u = t /\ Open(t) = {}
    BY <1>3 DEF Opened, Open
  <2>2. t.fresh \in BOOLEAN /\ t.st \cup {} = t.st /\ t.out \ (t.oe \cap {}) = t.out
    BY DEF Registers
  <2>3. t.fresh = (t.fresh /\ t.cnt # 0)
    BY <1>3, <2>2
  <2> QED BY <1>1, <2>1, <2>2, <2>3
<1> QED BY <1>1, <1>2, <1>3

\* A log may be empty.
LEMMA EmptyLog == <<>> \in Log
BY DEF Log

\* A walk begins with a sound walker.
LEMMA BegunParts ==
    ASSUME NEW t \in Registers, t.cnt <= t.pr, NEW w, w = Begun(t)
    PROVE  /\ Sound(w) /\ w.t = Opened(t) /\ w.cur = t.cnt /\ w.cc = t.cc /\ w.elapsed = 0 /\ w.left = 0
           /\ w.fired = Ticking!Joined(<<>>, Open(t), 0) /\ w.t.pr = t.pr
<1> DEFINE n == 0
           r == Opened(t)
           f == Ticking!Joined(<<>>, Open(t), n)
           cur == t.cnt
           c == t.cc
<1>1. /\ r \in Registers /\ r.pr = t.pr
  BY OpenedType
<1>2. n \in Nat /\ cur \in Nat /\ c \in [Match -> 0..Mask] /\ cur <= t.pr
  BY DEF Registers
<1>3. f \in Log
  <2> HIDE DEF n
  <2> QED BY <1>2, EmptyLog, JoinedType
<1>4. w = Walking(r, cur, c, n, n, f)
  BY DEF Begun
<1> HIDE DEF n, r, f, cur, c
<1>5. w \in Walker /\ w.t = r /\ w.cur = cur /\ w.cc = c /\ w.elapsed = n /\ w.left = n /\ w.fired = f
  BY ONLY <1>1, <1>2, <1>3, <1>4, Builds
<1> QED BY <1>1, <1>2, <1>5 DEF Sound, n, r, f, cur, c

\* The walk of advance starts there.
LEMMA StartBegins ==
    ASSUME GptAssumption, NEW t \in Registers, t.cnt <= t.pr, NEW k \in Nat,
           NEW w, w = Walking(t, t.cnt, t.cc, 0, k, <<>>)
    PROVE  StartEdge(w) = With(Begun(t), k)
<1> DEFINE b == Begun(t)
           v == With(b, k)
<1>1. /\ b \in Walker /\ b.t = Opened(t) /\ b.cur = t.cnt /\ b.cc = t.cc /\ b.elapsed = 0
      /\ b.fired = Ticking!Joined(<<>>, Open(t), 0)
  BY BegunParts DEF Sound
<1>2. v = Walking(Opened(t), t.cnt, t.cc, 0, k, Ticking!Joined(<<>>, Open(t), 0))
  <2> HIDE DEF b
  <2>1. v = Walking(b.t, b.cur, b.cc, b.elapsed, k, b.fired)
    BY <1>1, WithParts
  <2> QED BY <1>1, <2>1
<1>3. /\ w \in Walker /\ w.t = t /\ w.cur = t.cnt /\ w.cc = t.cc /\ w.elapsed = 0 /\ w.left = k
      /\ w.fired = <<>>
  <2> DEFINE n == 0
             e == <<>>
             cur == t.cnt
             c == t.cc
  <2>1. /\ n \in Nat /\ e \in Log /\ cur \in Nat /\ c \in [Match -> 0..Mask]
        /\ w = Walking(t, cur, c, n, k, e)
    BY EmptyLog DEF Registers
  <2> HIDE DEF n, e, cur, c
  <2>2. w \in Walker /\ w.t = t /\ w.cur = cur /\ w.cc = c /\ w.elapsed = n /\ w.left = k /\ w.fired = e
    BY <2>1, Builds
  <2> QED BY <2>2 DEF n, e, cur, c
<1> HIDE DEF v, b
<1>4. CASE t.cnt = 0 /\ t.fresh
  <2> DEFINE f == [t EXCEPT !.fresh = FALSE]
             x == [w EXCEPT !.t.fresh = FALSE]
             S == {m \in Match : w.cc[m] = 0}
  <2>1. S = Open(t) /\ S \in SUBSET Match
    BY <1>3, <1>4 DEF Open
  <2>2. StartEdge(w) = FireCompares(x, S)
    BY <1>3, <1>4 DEF StartEdge
  <2>3. f \in Registers
    BY DEF Registers
  <2>4. x = [w EXCEPT !.t = f]
    BY <1>3 DEF Walker
  <2>5. /\ x \in Walker /\ x.t = f /\ x.cur = t.cnt /\ x.cc = t.cc /\ x.elapsed = 0
        /\ x.left = k /\ x.fired = <<>>
    <3> HIDE DEF f, x
    <3> QED BY <1>3, <2>3, <2>4 DEF Walker
  <2> DEFINE y == FireCompares(x, S)
  <2> HIDE DEF x, S, f
  <2>6. /\ y \in Walker /\ y.t = Struck(x.t, S) /\ y.fired = Ticking!Joined(x.fired, S, x.elapsed)
        /\ y.cur = x.cur /\ y.cc = x.cc /\ y.elapsed = x.elapsed /\ y.left = x.left
    <3>1. y = FireCompares(x, S) /\ x \in Walker /\ S \in SUBSET Match
      BY <2>1, <2>5
    <3> HIDE DEF y
    <3> QED BY ONLY <3>1, FireSome
  <2>7. y = Walking(y.t, y.cur, y.cc, y.elapsed, y.left, y.fired)
    <3> HIDE DEF y
    <3> QED BY <2>6, Parts
  <2>8. Opened(t) = Struck(f, S)
    BY <1>4, <2>1 DEF Opened, f
  <2> HIDE DEF y
  <2> QED BY <2>1, <2>2, <2>5, <2>6, <2>7, <2>8, <1>2 DEF y, v, b
<1>5. CASE ~(t.cnt = 0 /\ t.fresh)
  <2>1. StartEdge(w) = w
    BY <1>3, <1>5 DEF StartEdge
  <2>2. Open(t) = {} /\ Opened(t) = t
    BY <1>5 DEF Open, Opened
  <2>3. Ticking!Joined(<<>>, {}, 0) = <<>>
    BY DEF Ticking!Joined
  <2> QED BY <2>1, <2>2, <2>3, <1>2 DEF v, b
<1> QED BY <1>4, <1>5

\* What a walk leaves alone, and the compares it cannot bring to 0.
Kept(t, u) ==
    /\ u.cst = t.cst /\ u.cstrt = t.cstrt /\ u.pr = t.pr /\ u.buffer = t.buffer /\ u.ber = t.ber
    /\ u.oe = t.oe /\ u.ssr = t.ssr /\ u.csr = t.csr
Whole(t) == \A m \in Match : t.cc[m] # 0 /\ (m \in t.ber => t.buffer[m] # 0)

LogTo(n) == Seq(Event \X (0..n))

\* The times of a log stay below the time that has passed,
LEMMA LogGrows ==
    ASSUME NEW n \in Nat, NEW f \in LogTo(n), NEW S, NEW e \in 0..(n + 1)
    PROVE  /\ f \in LogTo(n + 1) /\ Append(f, <<"OVF", e>>) \in LogTo(n + 1)
           /\ Ticking!Joined(f, S, e) \in LogTo(n + 1)
<1> DEFINE E == Event \X (0..(n + 1))
<1>1. f \in Seq(E)
  <2> DEFINE D == Event \X (0..n)
  <2>1. D \subseteq E
    OBVIOUS
  <2>2. f \in Seq(D)
    BY DEF LogTo
  <2> HIDE DEF D, E
  <2>3. Len(f) \in Nat /\ f = [i \in 1..Len(f) |-> f[i]] /\ \A i \in 1..Len(f) : f[i] \in D
    BY <2>2
  <2>4. \A i \in 1..Len(f) : f[i] \in E
    BY <2>1, <2>3
  <2> QED BY <2>3, <2>4
<1>2. <<"A", e>> \in E /\ <<"B", e>> \in E /\ <<"OVF", e>> \in E
  BY DEF Event, Match
<1> HIDE DEF E
<1>3. Ticking!Joined(f, S, e) \in Seq(E) /\ Append(f, <<"OVF", e>>) \in Seq(E)
  BY <1>1, <1>2 DEF Ticking!Joined
<1> QED BY <1>1, <1>3 DEF E, LogTo

\* also with the events of the moment,
LEMMA LogJoins ==
    ASSUME NEW n \in Nat, NEW f \in LogTo(n), NEW S, NEW e \in 0..n
    PROVE  Ticking!Joined(f, S, e) \in LogTo(n)
<1> DEFINE E == Event \X (0..n)
<1>2. <<"A", e>> \in E /\ <<"B", e>> \in E /\ f \in Seq(E)
  BY DEF Event, Match, LogTo
<1> HIDE DEF E
<1>3. Ticking!Joined(f, S, e) \in Seq(E)
  BY <1>2 DEF Ticking!Joined
<1> QED BY <1>3 DEF E, LogTo

\* One instruction of a walk.
LEMMA GoneKeeps ==
    ASSUME NEW u, Sound(u), NEW v, v = Gone(u, 1, 0)
    PROVE  Kept(u.t, v.t) /\ v.t.fresh = u.t.fresh /\ (Whole(u.t) => Whole(v.t))
<1>1. u.t \in Registers
  BY WalkerParts DEF Sound
<1>2. CASE u.cur + 1 = u.t.pr + 1
  <2> DEFINE r == Rewound(u.t)
             S == AtZero(u.t)
  <2>1. v.t = Struck(r, S)
    BY <1>2 DEF Gone, Walking
  <2>2. /\ Kept(u.t, r) /\ r.fresh = u.t.fresh /\ r.cc = Reloaded(u.t) /\ r \in Registers
    BY <1>1, RewoundType DEF Rewound, Registers, Kept
  <2> HIDE DEF r, S
  <2>3. Kept(r, v.t) /\ v.t.fresh = r.fresh /\ v.t.cc = r.cc
    BY <2>1, <2>2 DEF Struck, Registers, Kept
  <2>4. Whole(u.t) => Whole(v.t)
    BY <2>2, <2>3 DEF Whole, Kept, Reloaded
  <2> QED BY <2>2, <2>3, <2>4 DEF Kept
<1>3. CASE u.cur + 1 # u.t.pr + 1
  <2> DEFINE S == Due(u, 1)
  <2>1. v.t = Struck(u.t, S)
    BY <1>3 DEF Gone, Walking
  <2> HIDE DEF S
  <2>3. Kept(u.t, v.t) /\ v.t.fresh = u.t.fresh /\ v.t.cc = u.t.cc
    BY <2>1, <1>1 DEF Struck, Registers, Kept
  <2> QED BY <2>3 DEF Whole, Kept
<1> QED BY <1>2, <1>3

\* and with those of the next instruction.
LEMMA GoneLog ==
    ASSUME NEW n \in Nat, NEW u, Sound(u), u.elapsed = n, u.fired \in LogTo(n), NEW v, v = Gone(u, 1, 0)
    PROVE  v.fired \in LogTo(n + 1)
<1> DEFINE e == n + 1
           f == u.fired
           m == n + 1
<1>1. e \in 0..(m + 1) /\ e \in 0..m /\ m \in Nat /\ f \in LogTo(n)
  OBVIOUS
<1>2. f \in LogTo(m) /\ Append(f, <<"OVF", e>>) \in LogTo(m)
  BY <1>1, LogGrows
<1>3. v.fired \in {Ticking!Joined(Append(f, <<"OVF", e>>), AtZero(u.t), e), Ticking!Joined(f, Due(u, 1), e)}
  BY DEF Gone, Walking
<1> HIDE DEF e, f, m
<1>4. \A g \in LogTo(m) : \A S : Ticking!Joined(g, S, e) \in LogTo(m)
  BY <1>1, LogJoins
<1> QED BY <1>2, <1>3, <1>4 DEF m

\* The course of a channel with its count within its period.
Coursing(t, n, u) ==
    /\ Sound(u) /\ u.left = 0 /\ u.elapsed = n /\ u.cc = t.cc /\ Kept(t, u.t)
    /\ u.t.fresh = (t.fresh /\ t.cnt # 0) /\ (Whole(t) => Whole(u.t)) /\ u.fired \in LogTo(n)

\* The course of a channel starts where the walk begins,
LEMMA CourseStarts ==
    ASSUME GptAssumption, NEW t \in Registers, t.cnt <= t.pr
    PROVE  Course(t, 0) = Begun(t) /\ Coursing(t, 0, Begun(t))
<1> DEFINE b == Begun(t)
           n == 0
<1>1. /\ Sound(b) /\ b \in Walker /\ b.t = Opened(t) /\ b.cc = t.cc /\ b.elapsed = n /\ b.left = n
      /\ b.fired = Ticking!Joined(<<>>, Open(t), n)
  BY BegunParts DEF Sound
<1>2. With(b, n) = b
  <2> HIDE DEF b, n
  <2> QED BY <1>1, WithTwice
<1>3. Course(t, 0) = b
  <2>1. PICK f : TurnsOf(f, With(b, n), n) /\ Turns(With(b, n), n) = f[n]
    <3> HIDE DEF b
    <3> QED BY TurnsStep
  <2> QED BY <2>1, <1>2 DEF Course, TurnsOf
<1>4. Kept(t, b.t) /\ b.t.fresh = (t.fresh /\ t.cnt # 0) /\ (Whole(t) => Whole(b.t))
  <2> DEFINE r == Opened(t)
  <2>1. /\ r.cst = t.cst /\ r.cstrt = t.cstrt /\ r.pr = t.pr /\ r.cc = t.cc
        /\ r.buffer = t.buffer /\ r.ber = t.ber /\ r.oe = t.oe /\ r.ssr = t.ssr /\ r.csr = t.csr
        /\ r.fresh = (t.fresh /\ t.cnt # 0)
    BY OpenedType
  <2> HIDE DEF r, b
  <2>2. b.t = r
    BY <1>1 DEF r
  <2> QED BY <2>1, <2>2 DEF Kept, Whole
<1>5. b.fired \in LogTo(n)
  <2>1. <<>> \in LogTo(n) /\ n \in Nat /\ n \in 0..n
    BY DEF LogTo
  <2> HIDE DEF n, b
  <2> QED BY <2>1, <1>1, LogJoins
<1> QED BY <1>1, <1>3, <1>4, <1>5 DEF Coursing

\* and goes on by one instruction at a time.
LEMMA CourseGoes ==
    ASSUME GptAssumption, NEW t \in Registers, t.cnt <= t.pr, NEW n \in Nat, n + 1 < Forever
    PROVE  Course(t, n + 1) = Gone(Course(t, n), 1, 0)
<1> DEFINE b == Begun(t)
           u == Course(t, n)
<1>1. Sound(b)
  BY BegunParts
<1>2. u = Turns(With(b, n), n) /\ Course(t, n + 1) = Turns(With(b, n + 1), n + 1)
  BY DEF Course
<1> HIDE DEF b, u
<1>3. Sound(u) /\ Course(t, n + 1) = Step(With(u, 1))
  BY <1>1, <1>2, TurnsOn
<1>4. 1 < Forever
  BY ForeverLasts
<1> QED BY <1>3, <1>4, StepOfOne DEF u

\* Along the course the walker stays sound and firmware settings are kept.
LEMMA CourseParts ==
    ASSUME GptAssumption, NEW t \in Registers, t.cnt <= t.pr, NEW n \in Nat, n < Forever
    PROVE  Coursing(t, n, Course(t, n))
<1> DEFINE S == {i \in Nat : i < Forever => Coursing(t, i, Course(t, i))}
<1>1. 0 \in S
  BY CourseStarts
<1>2. ASSUME NEW i \in Nat, i \in S PROVE i + 1 \in S
  <2> SUFFICES ASSUME i + 1 < Forever PROVE Coursing(t, i + 1, Course(t, i + 1))
    OBVIOUS
  <2> DEFINE u == Course(t, i)
             v == Course(t, i + 1)
  <2>1. Coursing(t, i, u)
    BY <1>2, ForeverLasts
  <2>2. v = Gone(u, 1, 0)
    BY CourseGoes
  <2> HIDE DEF u, v
  <2>3. /\ Sound(u) /\ u.elapsed = i /\ u.cc = t.cc /\ Kept(t, u.t) /\ u.fired \in LogTo(i)
        /\ u.t.fresh = (t.fresh /\ t.cnt # 0) /\ (Whole(t) => Whole(u.t))
    BY <2>1 DEF Coursing
  <2>4. Kept(u.t, v.t) /\ v.t.fresh = u.t.fresh /\ (Whole(u.t) => Whole(v.t))
    BY <2>2, <2>3, GoneKeeps
  <2>5. v.fired \in LogTo(i + 1)
    BY <2>2, <2>3, GoneLog
  <2>6. Sound(v) /\ v.left = 0 /\ v.elapsed = i + 1 /\ v.cc = u.cc
    <3> DEFINE s == 1
               l == 0
    <3>1. s \in Nat \ {0} /\ l \in Nat /\ v = Gone(u, s, l) /\ u.cur + s <= u.t.pr + 1
      <4>1. u.cur \in Nat /\ u.t.pr \in Nat /\ u.cur <= u.t.pr
        BY <2>3, WalkerParts DEF Sound
      <4> QED BY <4>1, <2>2
    <3>2. u.elapsed + s = i + 1
      BY <2>3
    <3> HIDE DEF s, l
    <3>3. Sound(v) /\ v.left = l /\ v.elapsed = u.elapsed + s /\ v.cc = u.cc
      BY <2>3, <3>1, GoneSound
    <3> QED BY <3>2, <3>3 DEF l
  <2>7. Kept(t, v.t)
    BY <2>3, <2>4 DEF Kept
  <2>8. Coursing(t, i + 1, v)
    BY <2>3, <2>4, <2>5, <2>6, <2>7 DEF Coursing
  <2> QED BY <2>8 DEF v
<1> HIDE DEF S
<1>3. n \in S
  BY <1>1, <1>2, Induction
<1> QED BY <1>3 DEF S

-----------------------------------------------------------------------------
(* What a reader finds after n instructions.                                 *)

\* The end of a walk writes the count back and nothing else.
LEMMA SettledParts ==
    ASSUME GptAssumption, NEW u, Sound(u), NEW w, w = Settled(u), NEW r, r = w.t
    PROVE  /\ r = [u.t EXCEPT !.cnt = u.cur] /\ r \in Registers /\ r.cnt = u.cur /\ r.cnt <= r.pr
           /\ Kept(u.t, r) /\ r.fresh = u.t.fresh /\ r.cc = u.t.cc /\ r.st = u.t.st /\ r.out = u.t.out
           /\ w.cc = u.cc /\ w.fired = u.fired
<1>1. u \in Walker /\ u.t \in Registers /\ u.cur \in Nat /\ u.cur <= u.t.pr /\ u.t.pr \in 0..Mask
  BY WalkerParts DEF Sound
<1>2. u.cur \in 0..Mask
  BY <1>1 DEF GptAssumption
<1> DEFINE c == u.cur
           q == [u.t EXCEPT !.cnt = c]
<1>3. r = q /\ w.cc = u.cc /\ w.fired = u.fired
  BY <1>1 DEF Settled, Walker
<1>4. c \in 0..Mask
  BY <1>2
<1> HIDE DEF c
<1>5. /\ q \in Registers /\ q.cnt = c /\ q.pr = u.t.pr
      /\ Kept(u.t, q) /\ q.fresh = u.t.fresh /\ q.cc = u.t.cc /\ q.st = u.t.st /\ q.out = u.t.out
  BY <1>1, <1>4 DEF Registers, Kept
<1> HIDE DEF q
<1> QED BY <1>1, <1>3, <1>5 DEF c, q

\* advance follows the course, or does nothing.
LEMMA WalkedIs ==
    ASSUME GptAssumption, NEW t \in Registers, t.cnt <= t.pr, NEW n \in Nat, NEW w, w = Walked(t, n)
    PROVE  /\ Running(t) /\ n # 0 => w = Settled(Course(t, n))
           /\ ~Running(t) \/ n = 0 => w.t = t /\ w.cc = t.cc /\ w.fired = <<>>
<1> DEFINE s == Walking(t, t.cnt, t.cc, 0, n, <<>>)
           s0 == [t |-> t, cur |-> t.cnt % (Mask + 1), cc |-> t.cc, elapsed |-> 0, left |-> n, fired |-> <<>>]
<1>1. s0 = s
  <2>1. t.cnt \in 0..Mask /\ Mask \in Nat
    BY DEF Registers, GptAssumption
  <2>2. t.cnt % (Mask + 1) = t.cnt
    BY <2>1
  <2> QED BY <2>2 DEF Walking
<1>2. w = IF Running(t) /\ n # 0 THEN The({Settled(x) : x \in {Turns(StartEdge(s0), n)}}) ELSE s0
  BY DEF Walked
<1>3. StartEdge(s) = With(Begun(t), n)
  BY StartBegins
<1> HIDE DEF s0
<1>4. CASE Running(t) /\ n # 0
  <2> DEFINE x == Turns(StartEdge(s0), n)
  <2>1. x = Course(t, n)
    <3> HIDE DEF s
    <3> QED BY <1>1, <1>3 DEF Course
  <2> HIDE DEF x, s
  <2>2. {Settled(y) : y \in {x}} = {Settled(x)}
    OBVIOUS
  <2>3. w = The({Settled(y) : y \in {x}})
    BY <1>2, <1>4 DEF x
  <2>4. w = Settled(x)
    BY <2>2, <2>3, Singleton
  <2> QED BY <2>1, <2>4, <1>4
<1>5. CASE ~Running(t) \/ n = 0
  <2>1. w = s
    BY <1>1, <1>2, <1>5
  <2> QED BY <2>1, <1>5 DEF Walking
<1> QED BY <1>4, <1>5

\* A channel started within a cycle stays so until it stands at 0 with no match due.
LEMMA WalkedParts ==
    ASSUME GptAssumption, NEW t \in Registers, t.cnt <= t.pr, NEW n \in Nat, n < Forever,
           NEW w, w = Walked(t, n), NEW r, r = w.t
    PROVE  /\ r \in Registers /\ r.cnt <= r.pr /\ Kept(t, r) /\ w.cc = t.cc /\ w.fired \in LogTo(n)
           /\ ~Running(t) \/ n = 0 => r = t /\ w.fired = <<>>
           /\ Running(t) /\ n # 0 => r.fresh = (t.fresh /\ t.cnt # 0) /\ (Whole(t) => Whole(r))
           /\ (Running(r) <=> Running(t))
<1>1. CASE Running(t) /\ n # 0
  <2> DEFINE u == Course(t, n)
  <2>1. Coursing(t, n, u)
    BY CourseParts
  <2>2. w = Settled(u)
    BY <1>1, WalkedIs
  <2> HIDE DEF u
  <2>3. /\ Sound(u) /\ u.left = 0 /\ u.elapsed = n /\ u.cc = t.cc /\ Kept(t, u.t)
        /\ u.t.fresh = (t.fresh /\ t.cnt # 0) /\ (Whole(t) => Whole(u.t)) /\ u.fired \in LogTo(n)
    BY <2>1 DEF Coursing
  <2>4. /\ r \in Registers /\ r.cnt = u.cur /\ r.cnt <= r.pr
        /\ Kept(u.t, r) /\ r.fresh = u.t.fresh /\ r.cc = u.t.cc
        /\ w.cc = u.cc /\ w.fired = u.fired
    BY <2>2, <2>3, SettledParts
  <2>5. Kept(t, r)
    BY <2>3, <2>4 DEF Kept
  <2>6. Whole(t) => Whole(r)
    BY <2>3, <2>4 DEF Whole, Kept
  <2>7. Running(r) <=> Running(t)
    BY <2>5 DEF Running, Kept
  <2> QED BY <1>1, <2>3, <2>4, <2>5, <2>6, <2>7
<1>2. CASE ~(Running(t) /\ n # 0)
  <2>1. w.t = t /\ w.cc = t.cc /\ w.fired = <<>>
    BY <1>2, WalkedIs
  <2>2. <<>> \in LogTo(n)
    BY DEF LogTo
  <2> QED BY <1>2, <2>1, <2>2 DEF Kept
<1> QED BY <1>1, <1>2

\* One instruction more, as a reader sees it.
Struck0(t, n) == IF n = 0 THEN Open(t) ELSE {}
LoadedAt(r) == IF r.cnt = r.pr THEN Reloaded(r) ELSE r.cc
NextCnt(r) == IF r.cnt = r.pr THEN 0 ELSE r.cnt + 1
Reaches(r) == {m \in Match : LoadedAt(r)[m] = NextCnt(r)}

EndSet(r) == IF r.cnt = r.pr THEN {"OVF"} ELSE {}
Raised(r) == IF r.cnt = r.pr THEN r.oe ELSE {}
Logged(r, f, E, n) ==
    Ticking!Joined(IF r.cnt = r.pr THEN Append(Ticking!Joined(f, E, n), <<"OVF", n + 1>>)
                   ELSE Ticking!Joined(f, E, n), Reaches(r), n + 1)

\* A walk of one more instruction, from what a reader finds after the shorter one.
LEMMA OneMore ==
    ASSUME GptAssumption, NEW t \in Registers, t.cnt <= t.pr, NEW n \in Nat, n + 1 < Forever, Running(t),
           NEW a, a = Walked(t, n), NEW b, b = Walked(t, n + 1), a.t.cc = a.cc,
           NEW r, r = a.t, NEW q, q = b.t, NEW E, E = Struck0(t, n)
    PROVE  /\ q.cnt = NextCnt(r) /\ q.cc = LoadedAt(r)
           /\ q.st = r.st \cup E \cup EndSet(r) \cup Reaches(r)
           /\ q.out = ((r.out \ (r.oe \cap E)) \cup Raised(r)) \ (r.oe \cap Reaches(r))
           /\ b.fired = Logged(r, a.fired, E, n)
<1> DEFINE u == Course(t, n)
           v == Course(t, n + 1)
<1>0. n < Forever /\ n + 1 \in Nat /\ n + 1 # 0
  BY ForeverLasts
<1>1. Coursing(t, n, u) /\ Coursing(t, n + 1, v)
  BY <1>0, CourseParts
<1>2. v = Gone(u, 1, 0)
  BY CourseGoes
<1>3. b = Settled(v)
  <2> DEFINE k == n + 1
  <2>1. k \in Nat /\ k # 0 /\ b = Walked(t, k)
    BY <1>0
  <2> HIDE DEF k
  <2>2. b = Settled(Course(t, k))
    BY <2>1, WalkedIs
  <2> QED BY <2>2 DEF k
<1>4. /\ u.cur = r.cnt /\ u.t.cc = r.cc /\ u.cc = r.cc /\ Kept(u.t, r)
      /\ u.t.st = r.st \cup E /\ u.t.out = r.out \ (r.oe \cap E)
      /\ u.fired = Ticking!Joined(a.fired, E, n)
  <2>1. CASE n = 0
    <3>1. a.t = t /\ a.cc = t.cc /\ a.fired = <<>> /\ E = Open(t)
      BY <2>1, WalkedIs DEF Struck0
    <3>2. u = Begun(t)
      BY <2>1, CourseStarts
    <3> HIDE DEF u
    <3>3. /\ u.t = Opened(t) /\ u.cur = t.cnt /\ u.cc = t.cc /\ u.fired = Ticking!Joined(<<>>, Open(t), 0)
      BY <3>2, BegunParts
    <3> DEFINE o == Opened(t)
    <3>4. /\ o.cst = t.cst /\ o.cstrt = t.cstrt /\ o.cnt = t.cnt /\ o.pr = t.pr /\ o.cc = t.cc
          /\ o.buffer = t.buffer /\ o.ber = t.ber /\ o.oe = t.oe /\ o.ssr = t.ssr /\ o.csr = t.csr
          /\ o.st = t.st \cup Open(t) /\ o.out = t.out \ (t.oe \cap Open(t))
      BY OpenedType
    <3>5. u.t = o
      BY <3>3
    <3> HIDE DEF o
    <3> QED BY <2>1, <3>1, <3>3, <3>4, <3>5 DEF Kept
  <2>2. CASE n # 0
    <3>1. a = Settled(u) /\ E = {}
      BY <2>2, WalkedIs DEF Struck0
    <3> HIDE DEF u
    <3>2. Sound(u)
      BY <1>1 DEF Coursing
    <3>3. /\ r.cnt = u.cur /\ Kept(u.t, r) /\ r.cc = u.t.cc /\ r.st = u.t.st /\ r.out = u.t.out
          /\ a.cc = u.cc /\ a.fired = u.fired
      BY <3>1, <3>2, SettledParts
    <3>4. Ticking!Joined(a.fired, {}, n) = a.fired
      BY DEF Ticking!Joined
    <3>5. r.st \cup {} = r.st /\ r.out \ (r.oe \cap {}) = r.out
      OBVIOUS
    <3> QED BY <3>1, <3>3, <3>4, <3>5
  <2> QED BY <2>1, <2>2
<1> HIDE DEF u, v
<1>5. Sound(u) /\ Sound(v) /\ u.elapsed = n /\ u.t \in Registers /\ u.cur \in Nat /\ u.t.pr \in Nat /\ u.cur <= u.t.pr
  BY <1>1, WalkerParts DEF Coursing, Sound
<1>6. q.cnt = v.cur /\ q.cc = v.t.cc /\ q.st = v.t.st /\ q.out = v.t.out /\ b.fired = v.fired
  BY <1>3, <1>5, SettledParts
<1>7. u.t.pr = r.pr /\ u.t.oe = r.oe /\ u.t.ber = r.ber /\ u.t.buffer = r.buffer
  BY <1>4 DEF Kept
<1>8. CASE r.cnt = r.pr
  <2>1. u.cur + 1 = u.t.pr + 1
    BY <1>4, <1>7, <1>8
  <2> DEFINE w == Rewound(u.t)
             S == AtZero(u.t)
  <2>2. v.t = Struck(w, S) /\ v.cur = 0 /\ v.fired = Ticking!Joined(Append(u.fired, <<"OVF", n + 1>>), S, n + 1)
    BY <2>1, <1>2, <1>5 DEF Gone, Walking
  <2>3. Reloaded(u.t) = Reloaded(r)
    BY <1>4, <1>7 DEF Reloaded
  <2>4. S = Reaches(r)
    BY <2>3, <1>8 DEF AtZero, Reaches, LoadedAt, NextCnt
  <2>5. /\ w \in Registers /\ w.cc = Reloaded(r) /\ w.out = u.t.out \cup u.t.oe
        /\ w.st = u.t.st \cup {"OVF"} /\ w.oe = u.t.oe
    BY <1>5, <2>3, RewoundType DEF Rewound, Registers
  <2> HIDE DEF w, S
  <2>6. v.t.cc = w.cc /\ v.t.st = w.st \cup S /\ v.t.out = w.out \ (w.oe \cap S)
    BY <2>2, <2>5 DEF Struck, Registers
  <2>7. q.cnt = NextCnt(r) /\ q.cc = LoadedAt(r)
    BY <1>6, <1>8, <2>2, <2>5, <2>6 DEF NextCnt, LoadedAt
  <2>8. q.st = r.st \cup E \cup {"OVF"} \cup Reaches(r)
    BY <1>4, <1>6, <2>4, <2>5, <2>6
  <2>9. q.out = ((r.out \ (r.oe \cap E)) \cup r.oe) \ (r.oe \cap Reaches(r))
    BY <1>4, <1>6, <1>7, <2>4, <2>5, <2>6
  <2>10. b.fired = Ticking!Joined(Append(Ticking!Joined(a.fired, E, n), <<"OVF", n + 1>>), Reaches(r), n + 1)
    BY <1>4, <1>6, <2>2, <2>4
  <2> QED BY <1>8, <2>7, <2>8, <2>9, <2>10 DEF EndSet, Raised, Logged
<1>9. CASE r.cnt # r.pr
  <2>1. u.cur + 1 # u.t.pr + 1 /\ u.cur + 1 <= u.t.pr
    BY <1>4, <1>5, <1>7, <1>9
  <2> DEFINE S == Due(u, 1)
  <2>2. v.t = Struck(u.t, S) /\ v.cur = u.cur + 1 /\ v.fired = Ticking!Joined(u.fired, S, n + 1)
    BY <2>1, <1>2, <1>5 DEF Gone, Walking
  <2>3. S = Reaches(r)
    BY <2>1, <1>4, <1>7, <1>9 DEF Due, Reaches, LoadedAt, NextCnt
  <2> HIDE DEF S
  <2>6. v.t.cc = u.t.cc /\ v.t.st = u.t.st \cup S /\ v.t.out = u.t.out \ (u.t.oe \cap S)
    BY <2>2, <1>5 DEF Struck, Registers
  <2>7. q.cnt = NextCnt(r) /\ q.cc = LoadedAt(r)
    BY <1>4, <1>6, <1>9, <2>2, <2>6 DEF NextCnt, LoadedAt
  <2>8. q.st = r.st \cup E \cup {} \cup Reaches(r)
    BY <1>4, <1>6, <2>3, <2>6
  <2>9. q.out = ((r.out \ (r.oe \cap E)) \cup {}) \ (r.oe \cap Reaches(r))
    BY <1>4, <1>6, <1>7, <2>3, <2>6
  <2>10. b.fired = Ticking!Joined(Ticking!Joined(a.fired, E, n), Reaches(r), n + 1)
    BY <1>4, <1>6, <2>2, <2>3
  <2> QED BY <1>9, <2>7, <2>8, <2>9, <2>10 DEF EndSet, Raised, Logged
<1> QED BY <1>8, <1>9

-----------------------------------------------------------------------------
(* The invariant.                                                            *)

\* No link signal to a running channel, no restart within a cycle, and a tick
\* at each period end that changes a compare.
Timely == {"coarse", "resume", "anytime"} \cap Ops = {}

GptType ==
    /\ timer \in [Channel -> Registers] /\ lag \in [Channel -> 0..MaxLag]
    /\ cycle \in [Channel -> BOOLEAN]
    /\ ahead = [c \in Channel |-> Walked(timer[c], lag[c])]

\* A channel's count is within its period, its links start and clear it together,
\* and if it was started within a cycle no match is due at 0.
GptInv ==
    /\ GptType
    /\ \A c \in Channel :
         timer[c].cnt <= timer[c].pr /\ timer[c].ssr = timer[c].csr /\ Regular(timer[c])

\* Without restarts within a cycle, no match due at 0 waits for a fresh channel.
LEMMA RegularWhole ==
    ASSUME Timely, NEW t
    PROVE  Regular(t) <=> (Running(t) /\ t.fresh /\ t.cnt # 0 => Whole(t))
BY DEF Regular, Whole, Timely

\* What the invariant says of one channel.
LEMMA ChannelParts ==
    ASSUME GptAssumption, Timely, GptInv, NEW c \in Channel,
           NEW t, t = timer[c], NEW n, n = lag[c], NEW w, w = ahead[c], NEW r, r = Now(c)
    PROVE  /\ t \in Registers /\ t.cnt <= t.pr /\ n \in Nat /\ n < Forever /\ n \in 0..MaxLag /\ w = Walked(t, n)
           /\ t.ssr = t.csr /\ (Running(t) /\ t.fresh /\ t.cnt # 0 => Whole(t)) /\ Regular(t)
           /\ r = w.t /\ w.fired = Fired(c)
           /\ r \in Registers /\ r.cnt <= r.pr /\ Kept(t, r) /\ w.cc = t.cc /\ w.fired \in LogTo(n)
           /\ r.ssr = r.csr /\ (Running(r) <=> Running(t))
           /\ (~Running(t) \/ n = 0 => r = t /\ w.fired = <<>>)
           /\ (Running(t) /\ n # 0 => r.fresh = (t.fresh /\ t.cnt # 0) /\ (Whole(t) => Whole(r)))
           /\ Regular(r)
<1>1. /\ t \in Registers /\ t.cnt <= t.pr /\ n \in 0..MaxLag /\ w = Walked(t, n)
      /\ t.ssr = t.csr /\ Regular(t)
  BY DEF GptInv, GptType
<1>2. n \in Nat /\ n < Forever
  BY <1>1, ForeverLasts DEF GptAssumption
<1>3. r = w.t /\ w.fired = Fired(c)
  BY DEF Now, Fired
<1>4. /\ r \in Registers /\ r.cnt <= r.pr /\ Kept(t, r) /\ w.cc = t.cc /\ w.fired \in LogTo(n)
      /\ (~Running(t) \/ n = 0 => r = t /\ w.fired = <<>>)
      /\ (Running(t) /\ n # 0 => r.fresh = (t.fresh /\ t.cnt # 0) /\ (Whole(t) => Whole(r)))
      /\ (Running(r) <=> Running(t))
  BY <1>1, <1>2, <1>3, WalkedParts
<1>5. r.ssr = r.csr
  BY <1>1, <1>4 DEF Kept
<1>6. Running(t) /\ t.fresh /\ t.cnt # 0 => Whole(t)
  BY <1>1, RegularWhole
<1>7. Regular(r)
  BY <1>4, <1>6, RegularWhole
<1> QED BY <1>1, <1>2, <1>3, <1>4, <1>5, <1>6, <1>7

\* A channel that catches up and is then given other registers.
Given(c, t) ==
    /\ timer' = [timer EXCEPT ![c] = t] /\ lag' = [lag EXCEPT ![c] = 0] /\ LookAhead

\* An operation that leaves a channel caught up and regular keeps the invariant.
LEMMA GivenInv ==
    ASSUME GptAssumption, Timely, GptInv, NEW c \in Channel, NEW t \in Registers, t.cnt <= t.pr, t.ssr = t.csr,
           Regular(t), Given(c, t), cycle' \in [Channel -> BOOLEAN]
    PROVE  GptInv'
<1>1. timer \in [Channel -> Registers] /\ lag \in [Channel -> 0..MaxLag] /\ 0 \in 0..MaxLag
  BY DEF GptInv, GptType, GptAssumption
<1>2. timer' \in [Channel -> Registers] /\ lag' \in [Channel -> 0..MaxLag]
  BY <1>1 DEF Given
<1>3. ahead' = [d \in Channel |-> Walked(timer'[d], lag'[d])]
  BY DEF Given, LookAhead
<1>4. ASSUME NEW d \in Channel
      PROVE  timer'[d].cnt <= timer'[d].pr /\ timer'[d].ssr = timer'[d].csr /\ Regular(timer'[d])
  <2>1. timer[d].cnt <= timer[d].pr /\ timer[d].ssr = timer[d].csr /\ Regular(timer[d])
    BY DEF GptInv
  <2>2. timer'[d] = IF d = c THEN t ELSE timer[d]
    BY <1>1 DEF Given
  <2> QED BY <2>1, <2>2
<1>5. \A d \in Channel : Regular(timer[d])' <=> Regular(timer'[d])
  BY DEF Regular, Running
<1> QED BY <1>2, <1>3, <1>4, <1>5 DEF GptInv, GptType

\* What firmware may make of the registers.
Allowed(r, t) ==
    /\ t \in Registers /\ t.cnt <= t.pr /\ t.ssr = t.csr /\ t.st \subseteq r.st /\ t.out = r.out
    /\ t.cnt \in {r.cnt, 0} \/ ~Running(r)
    /\ Running(r) => t.fresh = r.fresh

Writes(c, t) == Given(c, t) /\ Regular(t) /\ cycle' = [cycle EXCEPT ![c] = FALSE]

\* Every register write is one of these.
LEMMA WriteWrites == ASSUME NEW op, NEW c, NEW t, Write(op, c, t) PROVE Writes(c, t)
BY DEF Write, Writes, Given, Advance

\* The registers each write makes of r.
LEMMA AllowedRun ==
    ASSUME GptAssumption, NEW r \in Registers, r.cnt <= r.pr, r.ssr = r.csr, NEW b \in BOOLEAN
    PROVE  /\ Allowed(r, [r EXCEPT !.fresh = @ \/ ~Running(r), !.cstrt = TRUE])
           /\ Allowed(r, [r EXCEPT !.fresh = @ \/ (b /\ ~Running(r)), !.cst = b])
           /\ Allowed(r, [r EXCEPT !.cstrt = FALSE, !.cst = FALSE])
<1>0. r.fresh \in BOOLEAN /\ Running(r) \in BOOLEAN
  BY DEF Registers, Running
<1> DEFINE f == r.fresh \/ ~Running(r)
           g == r.fresh \/ (b /\ ~Running(r))
<1>1. f \in BOOLEAN /\ g \in BOOLEAN /\ (Running(r) => f = r.fresh /\ g = r.fresh)
  BY <1>0
<1> HIDE DEF f, g
<1>2. Allowed(r, [r EXCEPT !.fresh = f, !.cstrt = TRUE])
  BY <1>1 DEF Allowed, Registers
<1>3. Allowed(r, [r EXCEPT !.fresh = g, !.cst = b])
  BY <1>1 DEF Allowed, Registers
<1>4. Allowed(r, [r EXCEPT !.cstrt = FALSE, !.cst = FALSE])
  BY DEF Allowed, Registers
<1> QED BY <1>2, <1>3, <1>4 DEF f, g

\* The writes of the count and the period leave registers an operation may leave,
LEMMA AllowedCount ==
    ASSUME GptAssumption, NEW r \in Registers, r.cnt <= r.pr, r.ssr = r.csr, NEW v \in 0..Mask
    PROVE  /\ Allowed(r, [r EXCEPT !.cnt = 0])
           /\ v <= r.pr /\ ~Running(r) => Allowed(r, [r EXCEPT !.cnt = v])
           /\ r.cnt <= v => Allowed(r, [r EXCEPT !.pr = v])
<1>1. 0 \in 0..Mask /\ r.pr \in 0..Mask /\ 0 <= r.pr
  BY DEF GptAssumption, Registers
<1>2. Allowed(r, [r EXCEPT !.cnt = 0])
  BY <1>1 DEF Allowed, Registers
<1>3. v <= r.pr /\ ~Running(r) => Allowed(r, [r EXCEPT !.cnt = v])
  BY DEF Allowed, Registers
<1>4. r.cnt <= v => Allowed(r, [r EXCEPT !.pr = v])
  BY DEF Allowed, Registers
<1> QED BY <1>2, <1>3, <1>4

\* and so do those of the other registers.
LEMMA AllowedRest ==
    ASSUME GptAssumption, NEW r \in Registers, r.cnt <= r.pr, r.ssr = r.csr,
           NEW S \in SUBSET Match, NEW b \in BOOLEAN, NEW k \in [Match -> 0..Mask], NEW s
    PROVE  /\ Allowed(r, [r EXCEPT !.oe = S]) /\ Allowed(r, [r EXCEPT !.ber = S])
           /\ Allowed(r, [r EXCEPT !.st = @ \ s]) /\ Allowed(r, [r EXCEPT !.ssr = b, !.csr = b])
           /\ Allowed(r, [r EXCEPT !.cc = k]) /\ Allowed(r, [r EXCEPT !.buffer = k])
<1>1. Allowed(r, [r EXCEPT !.oe = S]) /\ Allowed(r, [r EXCEPT !.ber = S])
  BY DEF Allowed, Registers, Running
<1>2. Allowed(r, [r EXCEPT !.ssr = b, !.csr = b])
  BY DEF Allowed, Registers, Running
<1>3. Allowed(r, [r EXCEPT !.cc = k]) /\ Allowed(r, [r EXCEPT !.buffer = k])
  BY DEF Allowed, Registers, Running
<1>4. Allowed(r, [r EXCEPT !.st = @ \ s])
  <2> DEFINE q == r.st \ s
  <2>1. q \subseteq r.st /\ q \in SUBSET Event
    BY DEF Registers
  <2> HIDE DEF q
  <2>2. Allowed(r, [r EXCEPT !.st = q])
    BY <2>1 DEF Allowed, Registers, Running
  <2> QED BY <2>2 DEF q
<1> QED BY <1>1, <1>2, <1>3, <1>4

\* Every operation of firmware leaves registers it may leave.
LEMMA FirmwareWrites ==
    ASSUME GptAssumption, Timely, GptInv, NEW c \in Channel, Control(c) \/ Configure(c)
    PROVE  \E t : Allowed(Now(c), t) /\ Writes(c, t)
<1> DEFINE r == Now(c)
<1>1. /\ r \in Registers /\ r.cnt <= r.pr /\ r.ssr = r.csr /\ (Running(r) <=> Running(timer[c]))
      /\ timer[c].pr = r.pr
  BY ChannelParts DEF Kept
<1> HIDE DEF r
<1>2. CASE WriteGtstr(c)
  BY <1>1, <1>2, AllowedRun, WriteWrites DEF WriteGtstr, r
<1>3. CASE WriteGtstp(c)
  BY <1>1, <1>3, AllowedRun, WriteWrites DEF WriteGtstp, r
<1>4. CASE WriteGtclr(c)
  <2>1. 0 \in 0..Mask
    BY DEF GptAssumption
  <2> QED BY <1>1, <1>4, <2>1, AllowedCount, WriteWrites DEF WriteGtclr, r
<1>5. CASE \E b \in BOOLEAN : WriteGtcr(c, b)
  BY <1>1, <1>5, AllowedRun, WriteWrites DEF WriteGtcr, r
<1> DEFINE any == [m \in Match |-> 0]
<1>6. any \in [Match -> 0..Mask] /\ {} \in SUBSET Match /\ TRUE \in BOOLEAN
  BY DEF GptAssumption
<1> HIDE DEF any
<1>7. CASE \E e \in Event : WriteGtst(c, {e})
  <2>1. PICK e \in Event : WriteGtst(c, {e})
    BY <1>7
  <2>2. Allowed(r, [r EXCEPT !.st = @ \ {e}])
    BY <1>1, <1>6, AllowedRest
  <2> QED BY <2>1, <2>2, WriteWrites DEF WriteGtst, r
<1>8. CASE \E E \in Enable : WriteGtior(c, E) \/ WriteGtber(c, E)
  <2>1. PICK E \in Enable : WriteGtior(c, E) \/ WriteGtber(c, E)
    BY <1>8
  <2>2. E \in SUBSET Match
    BY DEF GptAssumption, Match
  <2>3. Allowed(r, [r EXCEPT !.oe = E]) /\ Allowed(r, [r EXCEPT !.ber = E])
    BY <1>1, <1>6, <2>2, AllowedRest
  <2> QED BY <2>1, <2>3, WriteWrites DEF WriteGtior, WriteGtber, r
<1>9. CASE \E b \in BOOLEAN : WriteLinks(c, b, b)
  <2>1. PICK b \in BOOLEAN : WriteLinks(c, b, b)
    BY <1>9
  <2>2. Allowed(r, [r EXCEPT !.ssr = b, !.csr = b])
    BY <1>1, <1>6, AllowedRest
  <2> QED BY <2>1, <2>2, WriteWrites DEF WriteLinks, r
<1>10. CASE \E v \in Count : WriteGtcnt(c, v)
  <2>1. PICK v \in Count : WriteGtcnt(c, v)
    BY <1>10
  <2>2. v \in 0..Mask
    BY DEF GptAssumption
  <2>3. v <= r.pr /\ ~Running(r)
    BY <1>1, <2>1 DEF WriteGtcnt
  <2>4. Allowed(r, [r EXCEPT !.cnt = v])
    BY <1>1, <2>2, <2>3, AllowedCount
  <2> QED BY <2>1, <2>4, WriteWrites DEF WriteGtcnt, r
<1>11. CASE \E m \in Match, v \in Compare : WriteGtccr(c, m, v) \/ WriteBuffer(c, m, v)
  <2>1. PICK m \in Match, v \in Compare : WriteGtccr(c, m, v) \/ WriteBuffer(c, m, v)
    BY <1>11
  <2>2. v \in 0..Mask /\ r.cc \in [Match -> 0..Mask] /\ r.buffer \in [Match -> 0..Mask]
    BY <1>1 DEF GptAssumption, Registers
  <2>3. [r.cc EXCEPT ![m] = v] \in [Match -> 0..Mask] /\ [r.buffer EXCEPT ![m] = v] \in [Match -> 0..Mask]
    BY <2>2
  <2>4. /\ Allowed(r, [r EXCEPT !.cc = [r.cc EXCEPT ![m] = v]])
        /\ Allowed(r, [r EXCEPT !.buffer = [r.buffer EXCEPT ![m] = v]])
    BY <1>1, <1>6, <2>3, AllowedRest
  <2> QED BY <2>1, <2>4, WriteWrites DEF WriteGtccr, WriteBuffer, r
<1>12. CASE \E v \in Period : WriteGtpr(c, v)
  <2>1. PICK v \in Period : WriteGtpr(c, v)
    BY <1>12
  <2>2. v \in 0..Mask /\ r.cnt <= v
    BY <2>1 DEF GptAssumption, WriteGtpr, r
  <2>3. Allowed(r, [r EXCEPT !.pr = v])
    BY <1>1, <2>2, AllowedCount
  <2> QED BY <2>1, <2>3, WriteWrites DEF WriteGtpr, r
<1> QED BY <1>2, <1>3, <1>4, <1>5, <1>7, <1>8, <1>9, <1>10, <1>11, <1>12 DEF Control, Configure

\* A channel after reset.
LEMMA ResetParts ==
    ASSUME GptAssumption
    PROVE  /\ Reset \in Registers /\ Reset.cnt <= Reset.pr /\ Reset.ssr = Reset.csr /\ Regular(Reset)
           /\ ~Running(Reset) /\ Reset.st = {}
<1>1. 0 \in 0..Mask /\ Mask \in 0..Mask /\ 0 <= Mask
  BY DEF GptAssumption
<1> QED BY <1>1 DEF Reset, Registers, Regular, Running

\* The invariant holds at reset,
LEMMA InitInv == ASSUME GptAssumption, Init PROVE GptInv
<1>1. 0 \in 0..MaxLag
  BY DEF GptAssumption
<1> HIDE DEF Reset
<1>2. GptType
  BY <1>1, ResetParts DEF Init, GptType
<1>3. \A c \in Channel : timer[c] = Reset
  BY DEF Init
<1> QED BY <1>2, <1>3, ResetParts DEF GptInv

\* as time passes,
LEMMA PassInv == ASSUME GptAssumption, GptInv, Pass PROVE GptInv'
<1>1. timer' = timer /\ cycle' = cycle /\ lag' = [c \in Channel |-> lag[c] + 1]
  BY DEF Pass
<1>2. ahead' = [c \in Channel |-> Walked(timer'[c], lag'[c])]
  BY DEF Pass, LookAhead
<1>3. lag' \in [Channel -> 0..MaxLag]
  BY <1>1 DEF Pass, GptInv, GptType, GptAssumption
<1>4. \A c \in Channel : Regular(timer[c])' <=> Regular(timer'[c])
  BY DEF Regular, Running
<1> QED BY <1>1, <1>2, <1>3, <1>4 DEF GptInv, GptType

\* A tick leaves the channel as a reader would find it.
LEMMA TickGives == ASSUME NEW c, Tick(c) PROVE Given(c, Now(c))
BY DEF Tick, Given, Advance

\* The invariant holds at a tick,
LEMMA TickInv ==
    ASSUME GptAssumption, Timely, GptInv, NEW c \in Channel, Tick(c)
    PROVE  GptInv'
<1> DEFINE r == Now(c)
<1>1. r \in Registers /\ r.cnt <= r.pr /\ r.ssr = r.csr /\ Regular(r)
  BY ChannelParts
<1>2. cycle' \in [Channel -> BOOLEAN]
  BY DEF GptInv, GptType, Tick
<1>3. Given(c, r)
  BY TickGives
<1> HIDE DEF r
<1> QED BY <1>1, <1>2, <1>3, GivenInv

\* at a write,
LEMMA WritesInv ==
    ASSUME GptAssumption, Timely, GptInv, NEW c \in Channel, Control(c) \/ Configure(c)
    PROVE  GptInv'
<1>1. PICK t : Allowed(Now(c), t) /\ Writes(c, t)
  BY FirmwareWrites
<1>2. cycle' \in [Channel -> BOOLEAN]
  BY <1>1 DEF GptInv, GptType, Writes
<1> QED BY <1>1, <1>2, GivenInv DEF Allowed, Writes

\* What a link signal makes of the registers.
Signalled(t) ==
    [t EXCEPT !.fresh = @ \/ (t.ssr /\ ~Running(t)), !.cstrt = @ \/ t.ssr,
              !.cnt = IF t.csr THEN 0 ELSE @]

\* What a link signal does to a channel that does not run.
LEMMA SignalledParts ==
    ASSUME GptAssumption, NEW t \in Registers, t.cnt <= t.pr, t.ssr = t.csr, ~Running(t), NEW u, u = Signalled(t)
    PROVE  /\ u \in Registers /\ u.cnt = (IF t.csr THEN 0 ELSE t.cnt) /\ u.cnt <= u.pr
           /\ u.pr = t.pr /\ u.cc = t.cc /\ u.buffer = t.buffer /\ u.ber = t.ber /\ u.oe = t.oe
           /\ u.ssr = t.ssr /\ u.csr = t.csr /\ u.st = t.st /\ u.out = t.out
           /\ (Running(u) <=> t.ssr) /\ Regular(u)
<1>0. /\ t.fresh \in BOOLEAN /\ t.cstrt \in BOOLEAN /\ t.cst \in BOOLEAN /\ t.ssr \in BOOLEAN /\ t.csr \in BOOLEAN
      /\ 0 \in 0..Mask /\ t.cnt \in 0..Mask /\ t.pr \in 0..Mask /\ ~t.cst /\ ~t.cstrt
  BY DEF Registers, GptAssumption, Running
<1> DEFINE f == t.fresh \/ (t.ssr /\ ~Running(t))
           s == t.cstrt \/ t.ssr
           n == IF t.csr THEN 0 ELSE t.cnt
           q == [t EXCEPT !.fresh = f, !.cstrt = s, !.cnt = n]
<1>1. f \in BOOLEAN /\ s \in BOOLEAN /\ (s <=> t.ssr)
  BY <1>0
<1>2. n \in 0..Mask /\ n <= t.pr /\ (t.csr => n = 0)
  BY <1>0
<1>3. u = q
  BY DEF Signalled
<1> HIDE DEF f, s, n
<1>4. /\ q \in Registers /\ q.cnt = n /\ q.pr = t.pr /\ q.cc = t.cc /\ q.buffer = t.buffer /\ q.ber = t.ber
      /\ q.oe = t.oe /\ q.ssr = t.ssr /\ q.csr = t.csr /\ q.st = t.st /\ q.out = t.out
      /\ q.cst = t.cst /\ q.cstrt = s
  BY <1>1, <1>2 DEF Registers
<1> HIDE DEF q
<1>5. Running(u) <=> t.ssr
  BY <1>0, <1>1, <1>3, <1>4 DEF Running
<1>6. Regular(u)
  <2>1. Running(u) => u.cnt = 0
    BY <1>2, <1>3, <1>4, <1>5
  <2> QED BY <2>1 DEF Regular
<1> QED BY <1>2, <1>3, <1>4, <1>5, <1>6 DEF n

\* It does that to every channel.
LEMMA SignalSignals ==
    ASSUME Timely, ElcSignal
    PROVE  /\ \A c \in Channel : ~Running(timer[c])
           /\ timer' = [c \in Channel |-> Signalled(timer[c])]
           /\ lag' = [c \in Channel |-> 0] /\ cycle' = cycle
           /\ ahead' = [c \in Channel |-> Walked(timer'[c], lag'[c])]
<1>1. \A c \in Channel : ~Running(timer[c])
  BY DEF ElcSignal, Timely
<1>2. timer' = [c \in Channel |-> Signalled(timer[c])]
  BY DEF ElcSignal, Signalled
<1> QED BY <1>1, <1>2 DEF ElcSignal, LookAhead

\* The invariant holds at a link signal,
LEMMA SignalInv == ASSUME GptAssumption, Timely, GptInv, ElcSignal PROVE GptInv'
<1>1. /\ \A c \in Channel : ~Running(timer[c])
      /\ timer' = [c \in Channel |-> Signalled(timer[c])]
      /\ lag' = [c \in Channel |-> 0] /\ cycle' = cycle
      /\ ahead' = [c \in Channel |-> Walked(timer'[c], lag'[c])]
  BY SignalSignals
<1>2. ASSUME NEW c \in Channel
      PROVE  /\ timer'[c] \in Registers /\ timer'[c].cnt <= timer'[c].pr /\ timer'[c].ssr = timer'[c].csr
             /\ Regular(timer'[c])
  <2> DEFINE t == timer[c]
             u == Signalled(t)
  <2>1. t \in Registers /\ t.cnt <= t.pr /\ t.ssr = t.csr /\ ~Running(t)
    BY <1>1 DEF GptInv, GptType
  <2> HIDE DEF t
  <2>2. u \in Registers /\ u.cnt <= u.pr /\ u.ssr = t.ssr /\ u.csr = t.csr /\ Regular(u)
    BY <2>1, SignalledParts
  <2>3. timer'[c] = u
    BY <1>1 DEF t
  <2> HIDE DEF u
  <2> QED BY <2>1, <2>2, <2>3
<1>3. timer' \in [Channel -> Registers] /\ lag' \in [Channel -> 0..MaxLag] /\ cycle' \in [Channel -> BOOLEAN]
  <2>1. 0 \in 0..MaxLag
    BY DEF GptAssumption
  <2>2. \E x : timer' = [c \in Channel |-> x[c]]
    BY <1>1
  <2> HIDE DEF Registers
  <2> QED BY <1>1, <1>2, <2>1 DEF GptInv, GptType
<1>4. \A c \in Channel : Regular(timer[c])' <=> Regular(timer'[c])
  BY DEF Regular, Running
<1> QED BY <1>1, <1>2, <1>3, <1>4 DEF GptInv, GptType

\* when nothing happens,
LEMMA StutterInv == ASSUME GptInv, UNCHANGED vars PROVE GptInv'
<1>1. \A c \in Channel : Regular(timer[c])' <=> Regular(timer'[c])
  BY DEF Regular, Running
<1> QED BY <1>1 DEF GptInv, GptType, vars

\* and so at every step.
LEMMA NextInv == ASSUME GptAssumption, Timely, GptInv, [Next]_vars PROVE GptInv'
BY PassInv, TickInv, WritesInv, SignalInv, StutterInv DEF Next

\* It holds always.
LEMMA InvHolds == ASSUME GptAssumption, Timely PROVE Spec => []GptInv
<1>1. Init => GptInv
  BY InitInv
<1>2. GptInv /\ [Next]_vars => GptInv'
  BY NextInv
<1> QED BY <1>1, <1>2, PTL DEF Spec

\* Whatever the channels, periods, compares and writes, the registers keep their
\* width, and the events a channel holds are none before its last tick and none in
\* the future.
THEOREM TypeCorrect == ASSUME GptAssumption, Timely PROVE Spec => []TypeOK
<1>1. ASSUME GptInv PROVE TypeOK
  <2>1. ASSUME NEW c \in Channel PROVE Fired(c) \in Seq(Event \X (0..MaxLag))
    <3> DEFINE n == lag[c]
    <3>1. n \in 0..MaxLag /\ n \in Nat /\ Fired(c) \in LogTo(n)
      BY ChannelParts, <1>1
    <3>2. \A i \in 0..n : i \in 0..MaxLag
      BY <3>1 DEF GptAssumption
    <3> HIDE DEF n
    <3> DEFINE D == Event \X (0..n)
               E == Event \X (0..MaxLag)
               f == Fired(c)
    <3>3. D \subseteq E /\ f \in Seq(D)
      BY <3>1, <3>2 DEF LogTo
    <3> HIDE DEF D, E, f
    <3>4. Len(f) \in Nat /\ f = [i \in 1..Len(f) |-> f[i]] /\ \A i \in 1..Len(f) : f[i] \in D
      BY <3>3
    <3>5. f \in Seq(E)
      BY <3>3, <3>4
    <3> QED BY <3>5 DEF E, f
  <2> QED BY <1>1, <2>1 DEF GptInv, GptType, TypeOK
<1> QED BY <1>1, InvHolds, PTL

-----------------------------------------------------------------------------
(* Duty cycles.                                                              *)

Duty(t) == \A m \in t.oe : m \in t.out <=> t.cnt < t.cc[m]
HasEnd(f) == \E i \in 1..Len(f) : f[i][1] = "OVF"

\* From the end of a period on, a running channel's outputs are right.
DutyInv ==
    \A c \in Channel :
        /\ cycle[c] => Running(timer[c]) /\ Duty(timer[c])
        /\ cycle[c] \/ HasEnd(Fired(c)) => Running(timer[c]) /\ Duty(Now(c))

\* An event that is no period end adds none.
LEMMA AppendEnds ==
    ASSUME NEW h \in Log, NEW x \in Event \X Nat, x[1] # "OVF", NEW g, g = Append(h, x), HasEnd(g)
    PROVE  HasEnd(h)
<1> DEFINE E == Event \X Nat
<1>1. h \in Seq(E) /\ x \in E
  BY DEF Log
<1> HIDE DEF E
<1> QED BY <1>1 DEF HasEnd

\* Matches end no period.
LEMMA MatchesEnd ==
    ASSUME NEW f \in Log, NEW S, NEW e \in Nat, NEW g, g = Ticking!Joined(f, S, e), HasEnd(g)
    PROVE  HasEnd(f)
<1> DEFINE a == <<"A", e>>
           b == <<"B", e>>
           h == IF "A" \in S THEN Append(f, a) ELSE f
<1>1. a \in Event \X Nat /\ b \in Event \X Nat
  BY DEF Event, Match
<1>2. a[1] # "OVF" /\ b[1] # "OVF"
  OBVIOUS
<1>3. g = IF "B" \in S THEN Append(h, b) ELSE h
  BY DEF Ticking!Joined
<1>4. h \in Log
  <2> DEFINE E == Event \X Nat
  <2>1. f \in Seq(E) /\ a \in E
    BY <1>1 DEF Log
  <2> HIDE DEF E, a
  <2>2. h \in Seq(E)
    BY <2>1
  <2> QED BY <2>2 DEF E, Log
<1> HIDE DEF a, b
<1>5. HasEnd(h) => HasEnd(f)
  <2>1. CASE "A" \in S
    <3>1. h = Append(f, a)
      BY <2>1
    <3> HIDE DEF h
    <3> QED BY <3>1, <1>1, <1>2, AppendEnds
  <2>2. CASE "A" \notin S
    BY <2>2
  <2> QED BY <2>1, <2>2
<1> HIDE DEF h
<1>6. HasEnd(h)
  <2>1. CASE "B" \in S
    BY <2>1, <1>1, <1>2, <1>3, <1>4, AppendEnds
  <2>2. CASE "B" \notin S
    BY <2>2, <1>3
  <2> QED BY <2>1, <2>2
<1> QED BY <1>5, <1>6

\* A log with times below a bound is a log.
LEMMA LogToLog == ASSUME NEW n \in Nat, NEW f \in LogTo(n) PROVE f \in Log
<1> DEFINE D == Event \X (0..n)
           E == Event \X Nat
<1>1. D \subseteq E /\ f \in Seq(D)
  BY DEF LogTo
<1> HIDE DEF D, E
<1>2. Len(f) \in Nat /\ f = [i \in 1..Len(f) |-> f[i]] /\ \A i \in 1..Len(f) : f[i] \in D
  BY <1>1
<1>3. f \in Seq(E)
  BY <1>1, <1>2
<1> QED BY <1>3 DEF E, Log

\* A pass in which no period ends.
LEMMA EndsOnly ==
    ASSUME NEW n \in Nat, NEW f \in LogTo(n), NEW S, NEW T, NEW g,
           g = Ticking!Joined(Ticking!Joined(f, S, n), T, n + 1), HasEnd(g)
    PROVE  HasEnd(f)
<1> DEFINE k == Ticking!Joined(f, S, n)
<1>1. f \in Log /\ n + 1 \in Nat
  BY LogToLog
<1>2. k \in Log
  BY <1>1, JoinedType
<1>3. HasEnd(k) => HasEnd(f)
  BY <1>1, MatchesEnd
<1> HIDE DEF k
<1> DEFINE e == n + 1
<1>4. g = Ticking!Joined(k, T, e) /\ e \in Nat
  BY DEF k
<1> HIDE DEF e
<1>5. HasEnd(k)
  BY <1>2, <1>4, MatchesEnd
<1> QED BY <1>3, <1>5

\* One instruction keeps the outputs as the duty cycle has them; a period end makes them so.
LEMMA DutyOver ==
    ASSUME NEW r \in Registers, NEW q \in Registers, q.oe = r.oe, q.cnt = NextCnt(r), q.cc = LoadedAt(r),
           NEW E, E \subseteq {m \in Match : r.cnt = 0 /\ r.cc[m] = 0},
           q.out = ((r.out \ (r.oe \cap E)) \cup Raised(r)) \ (r.oe \cap Reaches(r)),
           r.cnt # r.pr => Duty(r)
    PROVE  Duty(q)
<1> SUFFICES ASSUME NEW m \in q.oe PROVE m \in q.out <=> q.cnt < q.cc[m]
  BY DEF Duty
<1>1. /\ m \in Match /\ m \in r.oe /\ r.cnt \in Nat /\ r.cc[m] \in Nat /\ q.cc[m] \in Nat
  BY DEF Registers
<1>2. m \in Reaches(r) <=> q.cc[m] = q.cnt
  BY <1>1 DEF Reaches
<1>3. CASE r.cnt = r.pr
  <2>1. q.cnt = 0
    BY <1>3 DEF NextCnt
  <2>2. m \in q.out <=> m \notin Reaches(r)
    BY <1>1, <1>3 DEF Raised
  <2> QED BY <1>1, <1>2, <2>1, <2>2
<1>4. CASE r.cnt # r.pr
  <2>1. q.cnt = r.cnt + 1 /\ q.cc = r.cc
    BY <1>4 DEF NextCnt, LoadedAt
  <2>2. m \in q.out <=> m \in r.out /\ m \notin E /\ m \notin Reaches(r)
    BY <1>1, <1>4 DEF Raised
  <2>3. m \in r.out <=> r.cnt < r.cc[m]
    BY <1>1, <1>4 DEF Duty
  <2>4. m \in E => ~(r.cnt < r.cc[m])
    BY <1>1
  <2> QED BY <1>1, <1>2, <2>1, <2>2, <2>3, <2>4
<1> QED BY <1>3, <1>4

\* An empty log has no period end.
LEMMA NoEnd == ~HasEnd(<<>>)
BY DEF HasEnd

\* The outputs are as they should be at reset,
LEMMA InitDuty == ASSUME GptAssumption, Init PROVE DutyInv
<1>1. ASSUME NEW c \in Channel PROVE ~cycle[c] /\ Fired(c) = <<>>
  <2>1. ~Running(Reset) /\ Reset \in Registers /\ Reset.cnt <= Reset.pr
    BY ResetParts
  <2> HIDE DEF Reset
  <2>2. ahead[c] = Walked(Reset, 0) /\ 0 \in Nat
    BY DEF Init
  <2> QED BY <2>1, <2>2, WalkedIs DEF Init, Fired
<1> QED BY <1>1, NoEnd DEF DutyInv

\* as time passes,
LEMMA PassDuty == ASSUME GptAssumption, Timely, GptInv, DutyInv, Pass, GptInv' PROVE DutyInv'
<1>1. timer' = timer /\ cycle' = cycle
  BY DEF Pass
<1>2. ASSUME NEW c \in Channel, cycle[c] \/ HasEnd(Fired(c)') PROVE Running(timer[c]) /\ Duty(Now(c)')
  <2> DEFINE t == timer[c]
             n == lag[c]
             a == ahead[c]
             b == ahead'[c]
             r == a.t
             q == b.t
             E == Struck0(t, n)
  <2>1. /\ t \in Registers /\ t.cnt <= t.pr /\ n \in Nat /\ a = Walked(t, n) /\ r \in Registers
        /\ Kept(t, r) /\ a.fired \in LogTo(n) /\ (~Running(t) \/ n = 0 => r = t)
        /\ Now(c) = r /\ Fired(c) = a.fired
    BY ChannelParts
  <2>2. lag'[c] = n + 1 /\ lag'[c] \in 0..MaxLag
    <3>1. lag' = [d \in Channel |-> lag[d] + 1]
      BY DEF Pass
    <3> QED BY <3>1 DEF GptInv, GptType
  <2>3. n + 1 < Forever /\ n + 1 # 0 /\ n + 1 \in Nat
    BY <2>1, <2>2, ForeverLasts DEF GptAssumption
  <2>4. b = Walked(t, n + 1)
    <3>1. b = Walked(timer'[c], lag'[c])
      BY DEF GptInv, GptType
    <3> QED BY <3>1, <1>1, <2>2
  <2>5. a.t.cc = a.cc
    BY DEF Pass, Timely, Now
  <2>6. Now(c)' = q /\ Fired(c)' = b.fired
    BY DEF Now, Fired
  <2> HIDE DEF t, n, a, b, E
  <2>7. Running(t)
    <3>1. CASE cycle[c]
      BY <3>1 DEF DutyInv, t
    <3>2. CASE ~cycle[c]
      <4>1. HasEnd(b.fired)
        BY <1>2, <2>6, <3>2
      <4>2. ~Running(t) => b.fired = <<>>
        <5> DEFINE k == n + 1
        <5>1. k \in Nat /\ b = Walked(t, k)
          BY <2>3, <2>4
        <5> HIDE DEF k
        <5> QED BY <5>1, <2>1, WalkedIs
      <4> QED BY <4>1, <4>2, NoEnd
    <3> QED BY <3>1, <3>2
  <2>8. q \in Registers /\ Kept(t, q)
    <3> DEFINE k == n + 1
    <3>1. k \in Nat /\ b = Walked(t, k) /\ k < Forever
      BY <2>3, <2>4
    <3> HIDE DEF k
    <3> QED BY <3>1, <2>1, WalkedParts
  <2>9. /\ q.cnt = NextCnt(r) /\ q.cc = LoadedAt(r)
        /\ q.out = ((r.out \ (r.oe \cap E)) \cup Raised(r)) \ (r.oe \cap Reaches(r))
        /\ b.fired = Logged(r, a.fired, E, n)
    BY <2>1, <2>3, <2>4, <2>5, <2>7, OneMore DEF E
  <2>10. q.oe = r.oe
    BY <2>1, <2>8 DEF Kept
  <2>11. E \subseteq {m \in Match : r.cnt = 0 /\ r.cc[m] = 0}
    <3>1. CASE n = 0
      <4>1. r = t
        BY <2>1, <3>1
      <4>2. E = Open(t)
        BY <3>1 DEF E, Struck0
      <4> HIDE DEF r
      <4> QED BY <4>1, <4>2 DEF Open
    <3>2. CASE n # 0
      BY <3>2 DEF E, Struck0
    <3> QED BY <3>1, <3>2
  <2>12. r.cnt # r.pr => Duty(r)
    <3> SUFFICES ASSUME r.cnt # r.pr PROVE Duty(r)
      OBVIOUS
    <3>1. b.fired = Ticking!Joined(Ticking!Joined(a.fired, E, n), Reaches(r), n + 1)
      BY <2>9 DEF Logged
    <3>2. HasEnd(b.fired) => HasEnd(a.fired)
      BY <3>1, <2>1, EndsOnly
    <3>3. cycle[c] \/ HasEnd(Fired(c))
      BY <1>2, <2>1, <2>6, <3>2
    <3> QED BY <3>3, <2>1 DEF DutyInv
  <2> HIDE DEF q, r
  <2>13. Duty(q)
    BY <2>1, <2>8, <2>9, <2>10, <2>11, <2>12, DutyOver
  <2> QED BY <2>6, <2>7, <2>13 DEF t
<1>3. ASSUME NEW c \in Channel PROVE Duty(Now(c))' <=> Duty(Now(c)')
  BY DEF Duty
<1>4. ASSUME NEW c \in Channel PROVE HasEnd(Fired(c))' <=> HasEnd(Fired(c)')
  BY DEF HasEnd
<1>5. ASSUME NEW c \in Channel
      PROVE  /\ cycle'[c] => Running(timer[c])' /\ Duty(timer[c])'
             /\ cycle'[c] \/ HasEnd(Fired(c))' => Running(timer[c])' /\ Duty(Now(c))'
  <2>1. (Running(timer[c])' <=> Running(timer[c])) /\ (Duty(timer[c])' <=> Duty(timer[c]))
    BY <1>1 DEF Running, Duty
  <2> QED BY <1>1, <1>2, <1>3, <1>4, <2>1 DEF DutyInv
<1> QED BY <1>5 DEF DutyInv

\* What a reader of each channel finds after one was given other registers.
LEMMA GivenShows ==
    ASSUME GptAssumption, GptInv, NEW c \in Channel, NEW t \in Registers, t.cnt <= t.pr, Given(c, t)
    PROVE  /\ timer'[c] = t /\ lag'[c] = 0 /\ ahead'[c].t = t /\ ahead'[c].fired = <<>>
           /\ \A d \in Channel \ {c} :
                timer'[d] = timer[d] /\ lag'[d] = lag[d] /\ ahead'[d] = ahead[d]
<1>1. /\ timer \in [Channel -> Registers] /\ lag \in [Channel -> 0..MaxLag]
      /\ ahead = [d \in Channel |-> Walked(timer[d], lag[d])]
  BY DEF GptInv, GptType
<1>2. /\ timer'[c] = t /\ lag'[c] = 0
      /\ \A d \in Channel \ {c} : timer'[d] = timer[d] /\ lag'[d] = lag[d]
  BY <1>1 DEF Given
<1>3. ahead' = [d \in Channel |-> Walked(timer'[d], lag'[d])]
  BY DEF Given, LookAhead
<1>4. ahead'[c] = Walked(t, 0) /\ \A d \in Channel \ {c} : ahead'[d] = ahead[d]
  BY <1>1, <1>2, <1>3
<1>5. ahead'[c].t = t /\ ahead'[c].fired = <<>>
  <2> DEFINE n == 0
  <2>1. n \in Nat /\ ahead'[c] = Walked(t, n) /\ n = 0
    BY <1>4
  <2> HIDE DEF n
  <2> QED BY <2>1, WalkedIs
<1> QED BY <1>2, <1>4, <1>5

\* where an operation either starts the cycle anew or leaves the outputs right,
LEMMA GivenDuty ==
    ASSUME GptAssumption, GptInv, DutyInv, NEW c \in Channel, NEW t \in Registers, t.cnt <= t.pr, Given(c, t),
           cycle'[c] => Running(t) /\ Duty(t), \A d \in Channel \ {c} : cycle'[d] = cycle[d]
    PROVE  DutyInv'
<1>1. /\ timer'[c] = t /\ lag'[c] = 0 /\ ahead'[c].t = t /\ ahead'[c].fired = <<>>
      /\ \A d \in Channel \ {c} : timer'[d] = timer[d] /\ lag'[d] = lag[d] /\ ahead'[d] = ahead[d]
  BY GivenShows
<1>2. ASSUME NEW d \in Channel
      PROVE  /\ cycle'[d] => Running(timer'[d]) /\ Duty(timer'[d])
             /\ cycle'[d] \/ HasEnd(Fired(d)') => Running(timer'[d]) /\ Duty(Now(d)')
  <2>1. CASE d = c
    <3>1. Fired(d)' = <<>> /\ Now(d)' = t /\ timer'[d] = t
      BY <1>1, <2>1 DEF Fired, Now
    <3> QED BY <2>1, <3>1, NoEnd
  <2>2. CASE d # c
    <3>1. timer'[d] = timer[d] /\ Fired(d)' = Fired(d) /\ Now(d)' = Now(d) /\ cycle'[d] = cycle[d]
      BY <1>1, <2>2 DEF Fired, Now
    <3> QED BY <3>1 DEF DutyInv
  <2> QED BY <2>1, <2>2
<1>3. ASSUME NEW d \in Channel
      PROVE  /\ Running(timer[d])' <=> Running(timer'[d])
             /\ Duty(timer[d])' <=> Duty(timer'[d])
             /\ Duty(Now(d))' <=> Duty(Now(d)')
             /\ HasEnd(Fired(d))' <=> HasEnd(Fired(d)')
  BY DEF Running, Duty, HasEnd
<1> QED BY <1>2, <1>3 DEF DutyInv

\* as a tick does,
LEMMA TickDuty ==
    ASSUME GptAssumption, Timely, GptInv, DutyInv, NEW c \in Channel, Tick(c)
    PROVE  DutyInv'
<1> DEFINE t == Now(c)
<1>1. t \in Registers /\ t.cnt <= t.pr /\ (Running(t) <=> Running(timer[c]))
  BY ChannelParts
<1>2. Given(c, t)
  BY TickGives
<1>3. cycle \in [Channel -> BOOLEAN]
  BY DEF GptInv, GptType
<1>4. cycle' = [cycle EXCEPT ![c] = @ \/ HasEnd(Fired(c))]
  BY DEF Tick, HasEnd
<1>5. (cycle'[c] => cycle[c] \/ HasEnd(Fired(c))) /\ \A d \in Channel \ {c} : cycle'[d] = cycle[d]
  BY <1>3, <1>4
<1>6. cycle'[c] => Running(t) /\ Duty(t)
  BY <1>1, <1>5 DEF DutyInv
<1> HIDE DEF t
<1> QED BY <1>1, <1>2, <1>5, <1>6, GivenDuty

\* and a write,
LEMMA WritesDuty ==
    ASSUME GptAssumption, Timely, GptInv, DutyInv, NEW c \in Channel, Control(c) \/ Configure(c)
    PROVE  DutyInv'
<1>1. PICK t : Allowed(Now(c), t) /\ Writes(c, t)
  BY FirmwareWrites
<1>2. t \in Registers /\ t.cnt <= t.pr /\ Given(c, t)
  BY <1>1 DEF Allowed, Writes
<1>3. ~cycle'[c] /\ \A d \in Channel \ {c} : cycle'[d] = cycle[d]
  BY <1>1 DEF Writes, GptInv, GptType
<1> QED BY <1>2, <1>3, GivenDuty

\* What a reader finds after a link signal.
LEMMA SignalShows ==
    ASSUME GptAssumption, Timely, GptInv, ElcSignal, NEW c \in Channel, NEW t, t = timer[c]
    PROVE  /\ ~Running(t) /\ timer'[c] = Signalled(t) /\ lag'[c] = 0 /\ ahead'[c].t = Signalled(t)
           /\ ahead'[c].fired = <<>> /\ t \in Registers /\ t.cnt <= t.pr /\ t.ssr = t.csr
<1> DEFINE u == Signalled(t)
<1>1. /\ ~Running(t) /\ timer'[c] = u /\ lag'[c] = 0 /\ ahead'[c] = Walked(timer'[c], lag'[c])
  BY SignalSignals
<1>2. t \in Registers /\ t.cnt <= t.pr /\ t.ssr = t.csr
  BY DEF GptInv, GptType
<1>3. u \in Registers /\ u.cnt <= u.pr
  BY <1>1, <1>2, SignalledParts
<1> HIDE DEF u
<1> DEFINE n == 0
<1>4. ahead'[c] = Walked(u, n) /\ n = 0 /\ n \in Nat
  BY <1>1
<1> HIDE DEF n
<1>5. ahead'[c].t = u /\ ahead'[c].fired = <<>>
  BY <1>3, <1>4, WalkedIs
<1> QED BY <1>1, <1>2, <1>5 DEF u

\* at a link signal
LEMMA SignalDuty == ASSUME GptAssumption, Timely, GptInv, DutyInv, ElcSignal PROVE DutyInv'
<1>1. ASSUME NEW d \in Channel PROVE ~cycle'[d] /\ ~HasEnd(Fired(d)')
  <2>1. ~Running(timer[d]) /\ ahead'[d].fired = <<>>
    BY SignalShows
  <2>2. cycle' = cycle
    BY SignalSignals
  <2> QED BY <2>1, <2>2, NoEnd DEF DutyInv, Fired
<1>2. \A d \in Channel : HasEnd(Fired(d))' <=> HasEnd(Fired(d)')
  BY DEF HasEnd
<1> QED BY <1>1, <1>2 DEF DutyInv

\* and when nothing happens.
LEMMA StutterDuty == ASSUME DutyInv, UNCHANGED vars PROVE DutyInv'
<1>1. ASSUME NEW d \in Channel
      PROVE  /\ Running(timer[d])' <=> Running(timer'[d])
             /\ Duty(timer[d])' <=> Duty(timer'[d])
             /\ Duty(Now(d))' <=> Duty(Now(d)')
             /\ HasEnd(Fired(d))' <=> HasEnd(Fired(d)')
             /\ Now(d)' = Now(d) /\ Fired(d)' = Fired(d)
  BY DEF Running, Duty, HasEnd, Now, Fired, vars
<1> QED BY <1>1 DEF DutyInv, vars

\* However the time is cut into passes, and whenever firmware looks or writes: an
\* output left alone for a cycle is high exactly below its compare value.
THEOREM DutyKept == ASSUME GptAssumption, Timely PROVE Spec => []DutyHonoured
<1>1. Init => GptInv /\ DutyInv
  BY InitInv, InitDuty
<1>2. GptInv /\ DutyInv /\ [Next]_vars => GptInv' /\ DutyInv'
  <2> SUFFICES ASSUME GptInv, DutyInv, [Next]_vars PROVE GptInv' /\ DutyInv'
    OBVIOUS
  <2>1. GptInv'
    BY NextInv
  <2>2. DutyInv'
    BY <2>1, PassDuty, TickDuty, WritesDuty, SignalDuty, StutterDuty DEF Next
  <2> QED BY <2>1, <2>2
<1>3. GptInv /\ DutyInv => DutyHonoured
  BY DEF DutyInv, DutyHonoured, Duty
<1> QED BY <1>1, <1>2, <1>3, PTL DEF Spec

-----------------------------------------------------------------------------
(* The refinement.                                                           *)

View ==
    [running : BOOLEAN, edge : BOOLEAN, cnt : 0..Mask, pr : 0..Mask,
     cc : [Match -> 0..Mask], buffer : [Match -> 0..Mask], ber : SUBSET Match, oe : SUBSET Match,
     ssr : BOOLEAN, csr : BOOLEAN, st : SUBSET Event, out : SUBSET Match]

Viewed(r, e) ==
    [running |-> Running(r), edge |-> e, cnt |-> r.cnt, pr |-> r.pr,
     cc |-> r.cc, buffer |-> r.buffer, ber |-> r.ber, oe |-> r.oe, ssr |-> r.ssr,
     csr |-> r.csr, st |-> r.st, out |-> r.out]

\* The parts of what a reader finds.
LEMMA ViewedParts ==
    ASSUME NEW r \in Registers, NEW e \in BOOLEAN, NEW v, v = Viewed(r, e)
    PROVE  /\ v \in View /\ (v.running <=> Running(r)) /\ v.edge = e /\ v.cnt = r.cnt /\ v.pr = r.pr
           /\ v.cc = r.cc /\ v.buffer = r.buffer /\ v.ber = r.ber /\ v.oe = r.oe /\ v.ssr = r.ssr
           /\ v.csr = r.csr /\ v.st = r.st /\ v.out = r.out
<1> DEFINE g == Running(r)
<1>1. g \in BOOLEAN
  BY DEF Registers, Running
<1>2. v = [running |-> g, edge |-> e, cnt |-> r.cnt, pr |-> r.pr,
           cc |-> r.cc, buffer |-> r.buffer, ber |-> r.ber, oe |-> r.oe, ssr |-> r.ssr,
           csr |-> r.csr, st |-> r.st, out |-> r.out]
  BY DEF Viewed
<1> HIDE DEF g
<1>3. /\ v \in View /\ v.running = g /\ v.edge = e /\ v.cnt = r.cnt /\ v.pr = r.pr
      /\ v.cc = r.cc /\ v.buffer = r.buffer /\ v.ber = r.ber /\ v.oe = r.oe /\ v.ssr = r.ssr
      /\ v.csr = r.csr /\ v.st = r.st /\ v.out = r.out
  BY <1>1, <1>2 DEF View, Registers
<1> QED BY <1>3 DEF g

\* Two findings with the same parts are the same.
LEMMA SameView ==
    ASSUME NEW v \in View, NEW w \in View, v.running = w.running, v.edge = w.edge, v.cnt = w.cnt, v.pr = w.pr,
           v.cc = w.cc, v.buffer = w.buffer, v.ber = w.ber, v.oe = w.oe, v.ssr = w.ssr,
           v.csr = w.csr, v.st = w.st, v.out = w.out
    PROVE  v = w
BY DEF View

\* A tick of the abstract timer.
LEMMA TickedParts ==
    ASSUME GptAssumption, NEW v \in View, v.cnt <= v.pr, NEW w, w = Ticking!Ticked(v),
           NEW E, E = Ticking!Edge(v), NEW R, R = Ticking!Reached(v)
    PROVE  /\ w \in View /\ w.running = v.running /\ ~w.edge /\ w.cnt = NextCnt(v) /\ w.pr = v.pr
           /\ w.cc = LoadedAt(v) /\ w.buffer = v.buffer /\ w.ber = v.ber /\ w.oe = v.oe /\ w.ssr = v.ssr
           /\ w.csr = v.csr /\ w.st = v.st \cup E \cup EndSet(v) \cup R
           /\ w.out = ((v.out \ (v.oe \cap E)) \cup Raised(v)) \ (v.oe \cap R)
           /\ R = Reaches(v)
<1> DEFINE c == Ticking!Counted(v)
           s == v.st \cup E \cup EndSet(v) \cup R
           o == ((v.out \ (v.oe \cap E)) \cup Raised(v)) \ (v.oe \cap R)
           k == LoadedAt(v)
           n == NextCnt(v)
<1>0. Ticking!Match = Match
  BY DEF Ticking!Match, Match
<1>1. k \in [Match -> 0..Mask] /\ n \in 0..Mask
  <2>1. v.cnt \in 0..Mask /\ v.pr \in 0..Mask /\ Mask \in Nat
    BY DEF View, GptAssumption
  <2>2. n \in 0..Mask
    BY <2>1 DEF NextCnt
  <2>3. k \in [Match -> 0..Mask]
    BY DEF View, LoadedAt, Reloaded
  <2> QED BY <2>2, <2>3
<1>2. c = [v EXCEPT !.cnt = n, !.edge = FALSE, !.cc = k]
  <2>1. CASE v.cnt = v.pr
    BY <2>1, <1>0 DEF Ticking!Counted, Ticking!Ends, View, NextCnt, LoadedAt, Reloaded
  <2>2. CASE v.cnt # v.pr
    <3>1. c = [v EXCEPT !.cnt = @ + 1, !.edge = FALSE]
      BY <2>2 DEF Ticking!Counted, Ticking!Ends
    <3>2. n = v.cnt + 1 /\ k = v.cc
      BY <2>2 DEF NextCnt, LoadedAt
    <3> HIDE DEF c, n, k
    <3> QED BY <3>1, <3>2 DEF View
  <2> QED BY <2>1, <2>2
<1> HIDE DEF n, k
<1>3. w = [c EXCEPT !.st = s, !.out = o]
  <2>1. c.st = v.st /\ c.out = v.out
    <3> HIDE DEF c
    <3> QED BY <1>1, <1>2 DEF View
  <2> HIDE DEF c
  <2> QED BY <2>1 DEF Ticking!Ticked, Ticking!Ends, c, EndSet, Raised
<1>4. E \subseteq Match /\ R \subseteq Match /\ R = {m \in Match : k[m] = n}
  <2>1. E \subseteq Match
    BY <1>0 DEF Ticking!Edge, Ticking!Matches
  <2>2. c.cc = k /\ c.cnt = n
    <3> HIDE DEF c
    <3> QED BY <1>1, <1>2 DEF View
  <2>3. R = {m \in Match : c.cc[m] = c.cnt}
    BY <1>0 DEF Ticking!Reached, Ticking!Matches
  <2> HIDE DEF c
  <2> QED BY <2>1, <2>2, <2>3
<1>5. s \in SUBSET Event /\ o \in SUBSET Match
  <2> QED BY <1>4 DEF View, Event, EndSet, Raised
<1> HIDE DEF c, s, o
<1>6. /\ w \in View /\ w.running = v.running /\ w.edge = FALSE /\ w.cnt = n /\ w.pr = v.pr
      /\ w.cc = k /\ w.buffer = v.buffer /\ w.ber = v.ber /\ w.oe = v.oe /\ w.ssr = v.ssr
      /\ w.csr = v.csr /\ w.st = s /\ w.out = o
  BY <1>1, <1>2, <1>3, <1>5 DEF View
<1>7. R = Reaches(v)
  BY <1>4 DEF Reaches, k, n
<1> QED BY <1>6, <1>7 DEF s, o, k, n

\* What a reader finds, of the registers a walk to the present would leave.
LEMMA ShownView ==
    ASSUME GptAssumption, Timely, GptInv, NEW c \in Channel
    PROVE  Shown(c) = Viewed(Now(c), AtEdge(c)) /\ AtEdge(c) \in BOOLEAN /\ Shown(c) \in View
<1>1. Shown(c) = Viewed(Now(c), AtEdge(c))
  BY DEF Shown, Viewed
<1>2. timer[c] \in Registers /\ Now(c) \in Registers
  BY ChannelParts
<1>3. AtEdge(c) \in BOOLEAN
  BY <1>2 DEF AtEdge, Running, Registers
<1> DEFINE v == Viewed(Now(c), AtEdge(c))
<1>4. v \in View
  BY <1>2, <1>3, ViewedParts
<1> QED BY <1>1, <1>3, <1>4

\* As an instruction passes, a reader finds what counting by one makes of what it found.
LEMMA PassShows ==
    ASSUME GptAssumption, Timely, GptInv, GptInv', Pass, NEW c \in Channel, NEW v, v = Shown(c), NEW w, w = Shown(c)'
    PROVE  /\ w = IF v.running THEN Ticking!Ticked(v) ELSE v
           /\ Fired(c)' = IF v.running THEN Ticking!Owing(v, Fired(c), lag[c]) ELSE Fired(c)
           /\ lag'[c] = lag[c] + 1
<1> DEFINE t == timer[c]
           n == lag[c]
           a == ahead[c]
           b == ahead'[c]
           r == a.t
           q == b.t
           E == Struck0(t, n)
           e == AtEdge(c)
           k == n + 1
<1>1. /\ t \in Registers /\ t.cnt <= t.pr /\ n \in Nat /\ a = Walked(t, n) /\ r \in Registers /\ r.cnt <= r.pr
      /\ Kept(t, r) /\ a.fired \in LogTo(n) /\ (~Running(t) \/ n = 0 => r = t /\ a.fired = <<>>)
      /\ Now(c) = r /\ Fired(c) = a.fired /\ (Running(r) <=> Running(t))
  BY ChannelParts
<1>2. lag'[c] = k /\ lag'[c] \in 0..MaxLag /\ timer'[c] = t
  <2>1. lag' = [d \in Channel |-> lag[d] + 1] /\ timer' = timer
    BY DEF Pass
  <2> QED BY <2>1 DEF GptInv, GptType
<1>3. k < Forever /\ k # 0 /\ k \in Nat
  BY <1>1, <1>2, ForeverLasts DEF GptAssumption
<1>4. b = Walked(t, k)
  <2>1. b = Walked(timer'[c], lag'[c])
    BY DEF GptInv, GptType
  <2> QED BY <2>1, <1>2
<1>5. a.t.cc = a.cc
  BY DEF Pass, Timely, Now
<1>6. Now(c)' = q /\ Fired(c)' = b.fired
  BY DEF Now, Fired
<1>7. AtEdge(c)' = FALSE
  BY <1>2, <1>3 DEF AtEdge
<1> DEFINE f == FALSE
<1>8. w = Viewed(q, f)
  <2>1. w = [running |-> Running(Now(c)'), edge |-> AtEdge(c)', cnt |-> Now(c)'.cnt, pr |-> Now(c)'.pr,
             cc |-> Now(c)'.cc, buffer |-> Now(c)'.buffer, ber |-> Now(c)'.ber, oe |-> Now(c)'.oe,
             ssr |-> Now(c)'.ssr, csr |-> Now(c)'.csr, st |-> Now(c)'.st, out |-> Now(c)'.out]
    BY DEF Shown, Running
  <2> QED BY <2>1, <1>6, <1>7 DEF Viewed
<1> HIDE DEF q
<1>9. v = Viewed(r, e) /\ e \in BOOLEAN
  BY <1>1, ShownView
<1>10. e = (Running(t) /\ t.fresh /\ n = 0 /\ t.cnt = 0 /\ \E m \in Match : t.cc[m] = 0)
  BY DEF AtEdge
<1> HIDE DEF t, n, a, b, E, e, k, r, f
<1>11. f \in BOOLEAN
  BY DEF f
<1>12. q \in Registers /\ Kept(t, q) /\ (Running(q) <=> Running(t))
  BY <1>1, <1>3, <1>4, WalkedParts DEF q
<1>13. /\ v \in View /\ (v.running <=> Running(r)) /\ v.edge = e /\ v.cnt = r.cnt /\ v.pr = r.pr
       /\ v.cc = r.cc /\ v.buffer = r.buffer /\ v.ber = r.ber /\ v.oe = r.oe /\ v.ssr = r.ssr
       /\ v.csr = r.csr /\ v.st = r.st /\ v.out = r.out
  BY <1>1, <1>9, ViewedParts
<1>14. /\ w \in View /\ (w.running <=> Running(q)) /\ w.edge = f /\ w.cnt = q.cnt /\ w.pr = q.pr
       /\ w.cc = q.cc /\ w.buffer = q.buffer /\ w.ber = q.ber /\ w.oe = q.oe /\ w.ssr = q.ssr
       /\ w.csr = q.csr /\ w.st = q.st /\ w.out = q.out
  BY <1>8, <1>11, <1>12, ViewedParts
<1>15. CASE ~Running(t)
  <2>1. q = t /\ b.fired = <<>>
    BY <1>1, <1>3, <1>4, <1>15, WalkedIs DEF q
  <2>2. r = t /\ a.fired = <<>> /\ e = f
    BY <1>1, <1>10, <1>15 DEF f
  <2>3. ~v.running
    BY <1>1, <1>13, <1>15
  <2>4. w = v
    BY <2>1, <2>2, <1>8, <1>9
  <2> QED BY <1>1, <1>2, <1>6, <2>1, <2>2, <2>3, <2>4 DEF k, n
<1>16. CASE Running(t)
  <2>1. /\ q.cnt = NextCnt(r) /\ q.cc = LoadedAt(r)
        /\ q.st = r.st \cup E \cup EndSet(r) \cup Reaches(r)
        /\ q.out = ((r.out \ (r.oe \cap E)) \cup Raised(r)) \ (r.oe \cap Reaches(r))
        /\ b.fired = Logged(r, a.fired, E, n)
    <3>1. /\ t \in Registers /\ t.cnt <= t.pr /\ n \in Nat /\ n + 1 < Forever /\ Running(t)
          /\ a = Walked(t, n) /\ b = Walked(t, n + 1) /\ a.t.cc = a.cc /\ r = a.t /\ q = b.t /\ E = Struck0(t, n)
      BY <1>1, <1>3, <1>4, <1>5, <1>16 DEF E, k, r, q
    <3> QED BY ONLY GptAssumption, <3>1, OneMore
  <2>2. v.running /\ v.cnt <= v.pr
    BY <1>1, <1>13, <1>16
  <2>3. Ticking!Edge(v) = E
    <3>0. Ticking!Match = Match
      BY DEF Ticking!Match, Match
    <3>1. Ticking!Edge(v) = IF e THEN {m \in Match : r.cc[m] = 0} ELSE {}
      BY <3>0, <1>13 DEF Ticking!Edge, Ticking!Matches
    <3>2. CASE n = 0
      <4>1. r = t /\ E = Open(t)
        BY <1>1, <3>2 DEF E, Struck0
      <4>2. e = (t.fresh /\ t.cnt = 0 /\ \E m \in Match : t.cc[m] = 0)
        BY <1>10, <1>16, <3>2
      <4> QED BY <3>1, <4>1, <4>2 DEF Open
    <3>3. CASE n # 0
      <4>1. e = FALSE /\ E = {}
        BY <1>10, <3>3 DEF E, Struck0
      <4> QED BY <3>1, <4>1
    <3> QED BY <3>2, <3>3
  <2> DEFINE x == Ticking!Ticked(v)
             R == Ticking!Reached(v)
  <2>4. /\ x \in View /\ x.running = v.running /\ ~x.edge /\ x.cnt = NextCnt(v) /\ x.pr = v.pr
        /\ x.cc = LoadedAt(v) /\ x.buffer = v.buffer /\ x.ber = v.ber /\ x.oe = v.oe /\ x.ssr = v.ssr
        /\ x.csr = v.csr /\ x.st = v.st \cup E \cup EndSet(v) \cup R
        /\ x.out = ((v.out \ (v.oe \cap E)) \cup Raised(v)) \ (v.oe \cap R)
        /\ R = Reaches(v)
    <3>3. /\ v \in View /\ v.cnt <= v.pr /\ x = Ticking!Ticked(v) /\ E = Ticking!Edge(v) /\ R = Ticking!Reached(v)
      BY <1>13, <2>2, <2>3
    <3> HIDE DEF x, R
    <3> QED BY ONLY GptAssumption, <3>3, TickedParts
  <2>7. NextCnt(v) = NextCnt(r) /\ LoadedAt(v) = LoadedAt(r) /\ Reaches(v) = Reaches(r)
    <3>1. NextCnt(v) = NextCnt(r) /\ LoadedAt(v) = LoadedAt(r)
      BY <1>13 DEF NextCnt, LoadedAt, Reloaded
    <3> QED BY <3>1 DEF Reaches
  <2>5. w = x
    <3>1. q.pr = r.pr /\ q.buffer = r.buffer /\ q.ber = r.ber /\ q.oe = r.oe /\ q.ssr = r.ssr /\ q.csr = r.csr
      BY <1>1, <1>12 DEF Kept
    <3>2. w.running = x.running
      <4>1. w.running \in BOOLEAN /\ x.running \in BOOLEAN
        BY <1>14, <2>4 DEF View
      <4> QED BY <4>1, <1>1, <1>12, <1>13, <1>14, <2>4
    <3>3. w.st = x.st /\ w.out = x.out
      BY <1>13, <1>14, <2>1, <2>4, <2>7 DEF EndSet, Raised
    <3>5. w.edge = x.edge
      <4>1. w.edge \in BOOLEAN /\ x.edge \in BOOLEAN
        BY <1>14, <2>4 DEF View
      <4> QED BY <4>1, <1>14, <2>4 DEF f
    <3>4. /\ w.cnt = x.cnt /\ w.pr = x.pr /\ w.cc = x.cc /\ w.buffer = x.buffer
          /\ w.ber = x.ber /\ w.oe = x.oe /\ w.ssr = x.ssr /\ w.csr = x.csr
      <4> HIDE DEF x, R
      <4> QED BY <1>13, <1>14, <2>1, <2>4, <2>7, <3>1
    <3> HIDE DEF x
    <3> QED BY <1>14, <2>4, <3>2, <3>3, <3>4, <3>5, SameView
  <2>6. b.fired = Ticking!Owing(v, a.fired, n)
    BY <1>13, <2>1, <2>3, <2>4, <2>7 DEF Ticking!Owing, Ticking!Ends, Logged
  <2> QED BY <1>1, <1>2, <1>6, <2>2, <2>5, <2>6 DEF k, n
<1> QED BY <1>15, <1>16

\* A channel at the start of its first cycle with a match due, whenever one looks.
Edged(r) == Running(r) /\ r.fresh /\ r.cnt = 0 /\ \E m \in Match : r.cc[m] = 0

\* A walk never leaves a match due at the start of a first cycle.
LEMMA EdgeNow ==
    ASSUME GptAssumption, Timely, GptInv, NEW c \in Channel
    PROVE  AtEdge(c) = Edged(Now(c))
<1> DEFINE t == timer[c]
           r == Now(c)
<1>1. /\ t \in Registers /\ (Running(t) /\ t.fresh /\ t.cnt # 0 => Whole(t)) /\ r \in Registers
      /\ (Running(r) <=> Running(t)) /\ (lag[c] = 0 => r = t)
      /\ (Running(t) /\ lag[c] # 0 => r.fresh = (t.fresh /\ t.cnt # 0) /\ (Whole(t) => Whole(r)))
  BY ChannelParts
<1> HIDE DEF r
<1>2. CASE lag[c] = 0
  <2>1. r = t
    BY <1>1, <1>2
  <2> QED BY <2>1, <1>2 DEF AtEdge, Edged, r
<1>3. CASE lag[c] # 0
  <2>1. AtEdge(c) = FALSE
    BY <1>3 DEF AtEdge
  <2>2. ASSUME Edged(r) PROVE FALSE
    <3>1. Running(t) /\ t.fresh /\ t.cnt # 0 /\ Whole(r)
      BY <1>1, <1>3, <2>2 DEF Edged
    <3> QED BY <3>1, <2>2 DEF Edged, Whole
  <2>3. Edged(r) = FALSE
    BY <2>2 DEF Edged
  <2> QED BY <2>1, <2>3 DEF r
<1> QED BY <1>2, <1>3

\* What the abstract timer shows of a channel depends on what a reader finds only.
LEMMA ShownNow ==
    ASSUME GptAssumption, Timely, GptInv, NEW c \in Channel, NEW r, r = Now(c)
    PROVE  Shown(c) = Viewed(r, Edged(r)) /\ Edged(r) \in BOOLEAN /\ r \in Registers
<1>1. Shown(c) = Viewed(r, AtEdge(c)) /\ AtEdge(c) = Edged(r) /\ r \in Registers
  BY ShownView, EdgeNow, ChannelParts
<1> QED BY <1>1 DEF Edged

\* A channel given other registers is shown with them, and the others as before.
LEMMA GivenView ==
    ASSUME GptAssumption, Timely, GptInv, GptInv', NEW c \in Channel, NEW t \in Registers, t.cnt <= t.pr, Given(c, t)
    PROVE  /\ Shown(c)' = Viewed(t, Edged(t)) /\ Fired(c)' = <<>>
           /\ lag' = [lag EXCEPT ![c] = 0]
           /\ \A d \in Channel \ {c} : Shown(d)' = Shown(d) /\ Fired(d)' = Fired(d)
<1>1. /\ timer'[c] = t /\ lag'[c] = 0 /\ ahead'[c].t = t /\ ahead'[c].fired = <<>>
      /\ \A d \in Channel \ {c} : timer'[d] = timer[d] /\ lag'[d] = lag[d] /\ ahead'[d] = ahead[d]
  BY GivenShows
<1>2. Shown(c)' = Viewed(t, Edged(t))
  <2>1. Now(c)' = t /\ AtEdge(c)' = Edged(t)
    BY <1>1 DEF Now, AtEdge, Edged, Running
  <2>2. Shown(c)' = [running |-> Running(Now(c)'), edge |-> AtEdge(c)', cnt |-> Now(c)'.cnt, pr |-> Now(c)'.pr,
             cc |-> Now(c)'.cc, buffer |-> Now(c)'.buffer, ber |-> Now(c)'.ber, oe |-> Now(c)'.oe,
             ssr |-> Now(c)'.ssr, csr |-> Now(c)'.csr, st |-> Now(c)'.st, out |-> Now(c)'.out]
    BY DEF Shown, Running
  <2> QED BY <2>1, <2>2 DEF Viewed
<1>3. Fired(c)' = <<>>
  BY <1>1 DEF Fired
<1>4. ASSUME NEW d \in Channel \ {c} PROVE Shown(d)' = Shown(d) /\ Fired(d)' = Fired(d)
  <2>1. Now(d)' = Now(d) /\ AtEdge(d)' = AtEdge(d) /\ Fired(d)' = Fired(d)
    BY <1>1 DEF Now, AtEdge, Running, Fired
  <2>2. Shown(d)' = [running |-> Running(Now(d)'), edge |-> AtEdge(d)', cnt |-> Now(d)'.cnt, pr |-> Now(d)'.pr,
             cc |-> Now(d)'.cc, buffer |-> Now(d)'.buffer, ber |-> Now(d)'.ber, oe |-> Now(d)'.oe,
             ssr |-> Now(d)'.ssr, csr |-> Now(d)'.csr, st |-> Now(d)'.st, out |-> Now(d)'.out]
    BY DEF Shown, Running
  <2> QED BY <2>1, <2>2 DEF Shown
<1>5. lag' = [lag EXCEPT ![c] = 0]
  BY DEF Given
<1> QED BY <1>2, <1>3, <1>4, <1>5

\* Catching up sends what the channel owes, and shows what was shown before.
LEMMA TickReads ==
    ASSUME GptAssumption, Timely, GptInv, GptInv', NEW c \in Channel, Tick(c)
    PROVE  Ticking!Read(c)
<1> DEFINE r == Now(c)
<1>1. r \in Registers /\ r.cnt <= r.pr /\ Given(c, r)
  BY ChannelParts, TickGives
<1> HIDE DEF r
<1>2. /\ Shown(c)' = Viewed(r, Edged(r)) /\ Fired(c)' = <<>> /\ lag' = [lag EXCEPT ![c] = 0]
      /\ \A d \in Channel \ {c} : Shown(d)' = Shown(d) /\ Fired(d)' = Fired(d)
  BY <1>1, GivenView
<1>3. Shown(c) = Viewed(r, Edged(r))
  BY ShownNow DEF r
<1>4. [d \in Channel |-> Fired(d)'] = [[d \in Channel |-> Fired(d)] EXCEPT ![c] = <<>>]
  BY <1>2
<1>5. [d \in Channel |-> Shown(d)'] = [d \in Channel |-> Shown(d)]
  BY <1>2, <1>3
<1> QED BY <1>2, <1>4, <1>5 DEF Ticking!Read, Ticking!Send

\* What firmware does to the registers, the abstract timer allows.
LEMMA AllowedTouches ==
    ASSUME NEW r \in Registers, NEW t, Allowed(r, t),
           NEW v, v = Viewed(r, Edged(r)), NEW u, u = Viewed(t, Edged(t))
    PROVE  Ticking!Touched(v, u)
<1> DEFINE e == Edged(r)
           f == Edged(t)
<1>1. t \in Registers /\ e \in BOOLEAN /\ f \in BOOLEAN
  BY DEF Allowed, Edged
<1>2. v = Viewed(r, e) /\ u = Viewed(t, f)
  OBVIOUS
<1> HIDE DEF e, f
<1>3. (v.running <=> Running(r)) /\ v.edge = e /\ v.cnt = r.cnt /\ v.cc = r.cc /\ v.st = r.st /\ v.out = r.out
  BY <1>1, <1>2, ViewedParts
<1>4. (u.running <=> Running(t)) /\ u.edge = f /\ u.cnt = t.cnt /\ u.cc = t.cc /\ u.st = t.st /\ u.out = t.out
  BY <1>1, <1>2, ViewedParts
<1>5. ASSUME f, Running(r), r.cnt = 0, t.cc = r.cc PROVE e
  BY <1>5 DEF Allowed, Edged, e, f
<1> QED BY <1>3, <1>4, <1>5 DEF Ticking!Touched, Allowed

\* A write implements a write of the abstract timer,
LEMMA WritesMap ==
    ASSUME GptAssumption, Timely, GptInv, GptInv', NEW c \in Channel, Control(c) \/ Configure(c)
    PROVE  Ticking!Write(c)
<1> DEFINE r == Now(c)
<1>0. r \in Registers
  BY ChannelParts
<1>1. PICK t : Allowed(r, t) /\ Writes(c, t)
  BY FirmwareWrites
<1> HIDE DEF r
<1>2. t \in Registers /\ t.cnt <= t.pr /\ Given(c, t)
  BY <1>1 DEF Allowed, Writes
<1>3. /\ Shown(c)' = Viewed(t, Edged(t)) /\ Fired(c)' = <<>> /\ lag' = [lag EXCEPT ![c] = 0]
      /\ \A d \in Channel \ {c} : Shown(d)' = Shown(d) /\ Fired(d)' = Fired(d)
  BY <1>2, GivenView
<1>4. Shown(c) = Viewed(r, Edged(r))
  BY ShownNow DEF r
<1>5. [d \in Channel |-> Fired(d)'] = [[d \in Channel |-> Fired(d)] EXCEPT ![c] = <<>>]
  BY <1>3
<1>6. Ticking!Touched(Shown(c), Shown(c)')
  BY <1>0, <1>1, <1>3, <1>4, AllowedTouches
<1>7. Ticking!Touched([d \in Channel |-> Shown(d)][c], [d \in Channel |-> Shown(d)'][c])
  BY <1>6
<1>8. \A d \in Channel \ {c} : [x \in Channel |-> Shown(x)'][d] = [x \in Channel |-> Shown(x)][d]
  BY <1>3
<1> QED BY <1>3, <1>5, <1>7, <1>8 DEF Ticking!Write, Ticking!Send

\* What a link signal makes of what is shown.
Cued(v, u) == u = [v EXCEPT !.running = @ \/ v.ssr, !.edge = u.edge, !.cnt = IF v.csr THEN 0 ELSE @]

\* A link signal makes no stopped channel owe anything and starts those it selects.
LEMMA SignalMap ==
    ASSUME GptAssumption, Timely, GptInv, GptInv', ElcSignal, NEW c \in Channel,
           NEW v, v = Shown(c), NEW u, u = Shown(c)'
    PROVE  Cued(v, u) /\ Fired(c) = <<>> /\ Fired(c)' = <<>>
<1> DEFINE t == timer[c]
           q == Signalled(t)
<1>1. /\ ~Running(t) /\ timer'[c] = q /\ lag'[c] = 0 /\ ahead'[c].t = q /\ ahead'[c].fired = <<>>
      /\ t \in Registers /\ t.cnt <= t.pr /\ t.ssr = t.csr
  BY SignalShows
<1>2. Now(c) = t /\ Fired(c) = <<>> /\ Fired(c)' = <<>>
  BY <1>1, ChannelParts DEF Fired
<1>3. v = Viewed(t, Edged(t)) /\ Edged(t) \in BOOLEAN
  BY <1>2, ShownNow
<1>4. u = Viewed(q, Edged(q))
  <2>1. Now(c)' = q /\ AtEdge(c)' = Edged(q)
    BY <1>1 DEF Now, AtEdge, Edged, Running
  <2>2. Shown(c)' = [running |-> Running(Now(c)'), edge |-> AtEdge(c)', cnt |-> Now(c)'.cnt, pr |-> Now(c)'.pr,
             cc |-> Now(c)'.cc, buffer |-> Now(c)'.buffer, ber |-> Now(c)'.ber, oe |-> Now(c)'.oe,
             ssr |-> Now(c)'.ssr, csr |-> Now(c)'.csr, st |-> Now(c)'.st, out |-> Now(c)'.out]
    BY DEF Shown, Running
  <2> QED BY <2>1, <2>2 DEF Viewed
<1> HIDE DEF t
<1>5. /\ q \in Registers /\ q.cnt = (IF t.csr THEN 0 ELSE t.cnt)
      /\ q.pr = t.pr /\ q.cc = t.cc /\ q.buffer = t.buffer /\ q.ber = t.ber /\ q.oe = t.oe
      /\ q.ssr = t.ssr /\ q.csr = t.csr /\ q.st = t.st /\ q.out = t.out
      /\ (Running(q) <=> t.ssr)
  BY <1>1, SignalledParts
<1> HIDE DEF q
<1>6. Edged(q) \in BOOLEAN
  BY DEF Edged
<1> DEFINE e == Edged(t)
           f == Edged(q)
<1>7. v = Viewed(t, e) /\ u = Viewed(q, f) /\ e \in BOOLEAN /\ f \in BOOLEAN
  BY <1>3, <1>4, <1>6
<1> HIDE DEF e, f
<1>8. /\ v \in View /\ (v.running <=> Running(t)) /\ v.cnt = t.cnt /\ v.pr = t.pr
      /\ v.cc = t.cc /\ v.buffer = t.buffer /\ v.ber = t.ber /\ v.oe = t.oe /\ v.ssr = t.ssr
      /\ v.csr = t.csr /\ v.st = t.st /\ v.out = t.out
  BY <1>1, <1>7, ViewedParts
<1>9. /\ u \in View /\ (u.running <=> Running(q)) /\ u.cnt = q.cnt /\ u.pr = q.pr
      /\ u.cc = q.cc /\ u.buffer = q.buffer /\ u.ber = q.ber /\ u.oe = q.oe /\ u.ssr = q.ssr
      /\ u.csr = q.csr /\ u.st = q.st /\ u.out = q.out
  BY <1>5, <1>7, ViewedParts
<1> DEFINE g == v.running \/ v.ssr
           n == IF v.csr THEN 0 ELSE v.cnt
           k == u.edge
           w == [v EXCEPT !.running = g, !.edge = k, !.cnt = n]
<1>10. g \in BOOLEAN /\ k \in BOOLEAN /\ n \in 0..Mask /\ u.running = g /\ u.cnt = n
  <2>1. v.running \in BOOLEAN /\ v.ssr \in BOOLEAN /\ u.running \in BOOLEAN /\ k \in BOOLEAN
    BY <1>8, <1>9 DEF View
  <2>2. u.running = g
    BY <2>1, <1>1, <1>5, <1>8, <1>9 DEF t
  <2>3. u.cnt = n /\ u.cnt \in 0..Mask
    BY <1>5, <1>8, <1>9 DEF View
  <2> QED BY <2>1, <2>2, <2>3
<1>11. w = [v EXCEPT !.running = @ \/ v.ssr, !.edge = u.edge, !.cnt = IF v.csr THEN 0 ELSE @]
  OBVIOUS
<1>12. w = u
  <2> HIDE DEF g, n, k
  <2>1. /\ w \in View /\ w.running = g /\ w.edge = k /\ w.cnt = n /\ w.pr = v.pr
        /\ w.cc = v.cc /\ w.buffer = v.buffer /\ w.ber = v.ber /\ w.oe = v.oe /\ w.ssr = v.ssr
        /\ w.csr = v.csr /\ w.st = v.st /\ w.out = v.out
    <3>1. v \in View /\ g \in BOOLEAN /\ k \in BOOLEAN /\ n \in 0..Mask
      BY <1>8, <1>10
    <3> QED BY ONLY <3>1 DEF View
  <2> HIDE DEF w
  <2>2. w.running = u.running /\ w.cnt = u.cnt
    BY <2>1, <1>10
  <2>3. /\ w.pr = u.pr /\ w.cc = u.cc /\ w.buffer = u.buffer /\ w.ber = u.ber /\ w.oe = u.oe
        /\ w.ssr = u.ssr /\ w.csr = u.csr /\ w.st = u.st /\ w.out = u.out
    BY <2>1, <1>5, <1>8, <1>9
  <2>4. w.edge = u.edge
    BY <2>1 DEF k
  <2> QED BY <2>1, <2>2, <2>3, <2>4, <1>9, SameView
<1> QED BY <1>2, <1>11, <1>12 DEF Cued

\* a link signal its signal,
LEMMA SignalMaps ==
    ASSUME GptAssumption, Timely, GptInv, GptInv', ElcSignal
    PROVE  Ticking!Signal
<1>1. ASSUME NEW c \in Channel
      PROVE  LET v == [d \in Channel |-> Shown(d)][c]
                 u == [d \in Channel |-> Shown(d)'][c]
             IN  /\ u = [v EXCEPT !.running = @ \/ v.ssr, !.edge = u.edge, !.cnt = IF v.csr THEN 0 ELSE @]
                 /\ [d \in Channel |-> Fired(d)][c] = <<>>
  <2> DEFINE v == Shown(c)
             u == Shown(c)'
  <2>1. Cued(v, u) /\ Fired(c) = <<>>
    BY SignalMap
  <2> QED BY <2>1 DEF Cued
<1>2. [d \in Channel |-> Fired(d)'] = [d \in Channel |-> Fired(d)]
  BY SignalMap
<1> QED BY <1>1, <1>2 DEF Ticking!Signal

\* and the passing of time its tick.
LEMMA PassMaps ==
    ASSUME GptAssumption, Timely, GptInv, GptInv', Pass
    PROVE  Ticking!Tick
<1>1. ASSUME NEW c \in Channel
      PROVE  /\ Shown(c)' = IF Shown(c).running THEN Ticking!Ticked(Shown(c)) ELSE Shown(c)
             /\ Fired(c)' = IF Shown(c).running THEN Ticking!Owing(Shown(c), Fired(c), lag[c]) ELSE Fired(c)
  <2> DEFINE v == Shown(c)
             w == Shown(c)'
  <2>1. /\ w = IF v.running THEN Ticking!Ticked(v) ELSE v
        /\ Fired(c)' = IF v.running THEN Ticking!Owing(v, Fired(c), lag[c]) ELSE Fired(c)
    BY PassShows
  <2> QED BY <2>1
<1>2. lag' = [c \in Channel |-> lag[c] + 1]
  BY DEF Pass
<1> QED BY <1>1, <1>2 DEF Ticking!Tick

\* The initial states map to its initial state,
LEMMA InitMaps == ASSUME GptAssumption, Timely, Init, GptInv PROVE Ticking!Init
<1>1. ASSUME NEW c \in Channel PROVE ~Shown(c).running /\ Shown(c).st = {} /\ Fired(c) = <<>>
  <2>1. timer[c] = Reset /\ lag[c] = 0
    BY DEF Init
  <2>2. ~Running(Reset) /\ Reset.st = {}
    BY ResetParts
  <2> HIDE DEF Reset
  <2>3. Now(c) = Reset /\ Fired(c) = <<>>
    BY <2>1, ChannelParts
  <2>4. Shown(c) = Viewed(Reset, Edged(Reset)) /\ Edged(Reset) \in BOOLEAN /\ Reset \in Registers
    BY <2>3, ShownNow
  <2>5. (Shown(c).running <=> Running(Reset)) /\ Shown(c).st = Reset.st
    <3> DEFINE e == Edged(Reset)
               v == Shown(c)
    <3>1. v = Viewed(Reset, e) /\ e \in BOOLEAN
      BY <2>4
    <3> HIDE DEF e, v
    <3>2. (v.running <=> Running(Reset)) /\ v.st = Reset.st
      BY <3>1, <2>4, ViewedParts
    <3> QED BY <3>2 DEF v
  <2> QED BY <2>2, <2>3, <2>5
<1>2. lag = [c \in Channel |-> 0] /\ [c \in Channel |-> Fired(c)] = [c \in Channel |-> <<>>]
  BY <1>1 DEF Init
<1> QED BY <1>1, <1>2 DEF Ticking!Init

\* a stutter to a stutter,
LEMMA StutterMaps == ASSUME UNCHANGED vars PROVE UNCHANGED Ticking!vars
<1>1. ASSUME NEW c \in Channel PROVE Shown(c)' = Shown(c) /\ Fired(c)' = Fired(c)
  BY DEF Shown, Fired, Now, AtEdge, Running, vars
<1> QED BY <1>1 DEF Ticking!vars, vars

\* and every step to a step or a stutter.
LEMMA NextMaps ==
    ASSUME GptAssumption, Timely, GptInv, GptInv', [Next]_vars
    PROVE  [Ticking!Next]_(Ticking!vars)
BY PassMaps, TickReads, WritesMap, SignalMaps, StutterMaps DEF Next, Ticking!Next

\* The walk is invisible: catching up in any number of walks, cut anywhere, gives every
\* reader the counts, flags, outputs and events, with their order and times, of a
\* channel that counts at every instruction.
THEOREM WalkInvisible == ASSUME GptAssumption, Timely PROVE Spec => IsTicking
<1>1. Init => GptInv
  BY InitInv
<1>2. GptInv /\ [Next]_vars => GptInv'
  BY NextInv
<1>3. Init /\ GptInv => Ticking!Init
  BY InitMaps
<1>4. GptInv /\ GptInv' /\ [Next]_vars => [Ticking!Next]_(Ticking!vars)
  BY NextMaps
<1> QED BY <1>1, <1>2, <1>3, <1>4, PTL DEF Spec, IsTicking, Ticking!Spec

-----------------------------------------------------------------------------
(* The AGT: one instruction after another.                                   *)

\* A channel with the underflows of a walk.
AgtWalk == [u : AgtRegisters, n : Nat]

\* A walk that is that far short of a count.
Short(w, a) == [w EXCEPT !.u = [w.u EXCEPT !.acc = a]]

\* k counts, from w: the first is w, each other a turn of the one before.
CountsOf(f, w, k) == f = [i \in 0..k |-> IF i = 0 THEN w ELSE Turn(f[i - 1])]

\* Counts are defined whatever their number, and differ only in how many they are.
LEMMA CountsExist == ASSUME NEW w, NEW k \in Nat PROVE \E f : CountsOf(f, w, k)
<1> DEFINE S == {m \in Nat : \E f : CountsOf(f, w, m)}
<1>1. 0 \in S
  <2>1. CountsOf([i \in 0..0 |-> w], w, 0)
    BY DEF CountsOf
  <2> QED BY <2>1
<1>2. ASSUME NEW m \in Nat, m \in S PROVE m + 1 \in S
  <2>1. PICK f : CountsOf(f, w, m)
    BY <1>2
  <2> DEFINE g == [i \in 0..(m + 1) |-> IF i = m + 1 THEN Turn(f[m]) ELSE f[i]]
  <2>2. \A i \in 0..m : g[i] = f[i]
    OBVIOUS
  <2>3. ASSUME NEW i \in 0..(m + 1)
        PROVE g[i] = IF i = 0 THEN w ELSE Turn(g[i - 1])
    <3>1. CASE i = m + 1
      <4>1. i - 1 = m /\ i # 0 /\ m \in 0..m
        BY <3>1
      <4> QED BY <4>1, <2>2, <3>1
    <3>2. CASE i # m + 1
      <4>1. i \in 0..m /\ (i # 0 => i - 1 \in 0..m)
        BY <3>2
      <4>2. f[i] = IF i = 0 THEN w ELSE Turn(f[i - 1])
        BY <4>1, <2>1 DEF CountsOf
      <4>3. g[i] = f[i] /\ (i # 0 => g[i - 1] = f[i - 1])
        BY <4>1, <2>2
      <4> HIDE DEF g
      <4> QED BY <4>2, <4>3
    <3> QED BY <3>1, <3>2
  <2>4. CountsOf(g, w, m + 1)
    <3>1. g = [i \in 0..(m + 1) |-> g[i]]
      OBVIOUS
    <3> HIDE DEF g
    <3> QED BY <3>1, <2>3 DEF CountsOf
  <2> QED BY <2>4
<1> HIDE DEF S
<1>3. k \in S
  BY <1>1, <1>2, Induction
<1> QED BY <1>3 DEF S

\* What has been counted is a channel, with the registers a count leaves alone.
LEMMA TurnKeeps ==
    ASSUME NEW w \in AgtWalk
    PROVE  /\ Turn(w) \in AgtWalk /\ Turn(w).u.run = w.u.run
           /\ Turn(w).u.reload = w.u.reload /\ Turn(w).u.acc = w.u.acc
           /\ \A a \in 0..(Div - 1) : Turn(Short(w, a)) = Short(Turn(w), a)
<1>1. CASE w.u.cnt > 0
  <2>1. Turn(w) = [w EXCEPT !.u = [w.u EXCEPT !.cnt = w.u.cnt - 1]]
    BY <1>1 DEF Turn, AgtWalk
  <2>2. \A a \in 0..(Div - 1) : Turn(Short(w, a)) = Short(Turn(w), a)
    BY <1>1, <2>1 DEF Turn, Short, AgtWalk, AgtRegisters
  <2> QED BY <1>1, <2>1, <2>2 DEF AgtWalk, AgtRegisters
<1>2. CASE ~(w.u.cnt > 0)
  <2> DEFINE v == [w.u EXCEPT !.cnt = w.u.reload, !.tundf = TRUE]
  <2>1. Turn(w) = [u |-> v, n |-> w.n + 1]
    BY <1>2 DEF Turn
  <2>2. v \in AgtRegisters /\ v.run = w.u.run /\ v.reload = w.u.reload /\ v.acc = w.u.acc
    BY DEF AgtWalk, AgtRegisters
  <2>3. [u |-> v, n |-> w.n + 1] \in AgtWalk
    BY <2>2 DEF AgtWalk
  <2>4. ASSUME NEW a \in 0..(Div - 1) PROVE Turn(Short(w, a)) = Short(Turn(w), a)
    <3> DEFINE x == [w.u EXCEPT !.acc = a]
    <3>1. Short(w, a) = [u |-> x, n |-> w.n] /\ x.cnt = w.u.cnt /\ x.reload = w.u.reload
      BY DEF Short, AgtWalk, AgtRegisters
    <3>2. [x EXCEPT !.cnt = w.u.reload, !.tundf = TRUE] = [v EXCEPT !.acc = a]
      BY DEF AgtWalk, AgtRegisters
    <3>3. Short(Turn(w), a) = [u |-> [v EXCEPT !.acc = a], n |-> w.n + 1]
      BY <2>1 DEF Short
    <3> HIDE DEF x, v
    <3>4. Turn([u |-> x, n |-> w.n]) = [u |-> [x EXCEPT !.cnt = w.u.reload, !.tundf = TRUE], n |-> w.n + 1]
      BY <1>2, <3>1 DEF Turn
    <3> QED BY <3>1, <3>2, <3>3, <3>4
  <2> HIDE DEF v
  <2> QED BY <2>1, <2>2, <2>3, <2>4
<1> QED BY <1>1, <1>2

\* A channel before the first count of a walk.
Begin(u, a) == [u |-> [u EXCEPT !.acc = a], n |-> 0]

\* Every count of a walk is a channel of the same kind; the walk that began another
\* way short of a count differs from it only in that.
LEMMA CountsKeep ==
    ASSUME NEW u \in AgtRegisters, NEW a \in 0..(Div - 1), NEW b \in 0..(Div - 1), NEW k \in Nat, NEW m \in Nat, NEW f, NEW g,
           CountsOf(f, Begin(u, a), k), CountsOf(g, Begin(u, b), m)
    PROVE  /\ \A i \in 0..k : f[i] \in AgtWalk /\ f[i].u.run = u.run /\ f[i].u.reload = u.reload /\ f[i].u.acc = a
           /\ \A i \in 0..k : i <= m => g[i] = Short(f[i], b)
<1> DEFINE Same(i) == /\ f[i] \in AgtWalk /\ f[i].u.run = u.run /\ f[i].u.reload = u.reload /\ f[i].u.acc = a
                      /\ i <= m => g[i] = Short(f[i], b)
<1> DEFINE S == {i \in Nat : i <= k => Same(i)}
<1>1. 0 \in S
  <2>1. f[0] = Begin(u, a) /\ g[0] = Begin(u, b)
    BY DEF CountsOf
  <2>2. Begin(u, a) \in AgtWalk
    <3>1. [u EXCEPT !.acc = a] \in AgtRegisters
      BY DEF AgtRegisters
    <3> QED BY <3>1 DEF Begin, AgtWalk
  <2>4. Begin(u, b) = Short(Begin(u, a), b)
    <3>1. [[u EXCEPT !.acc = a] EXCEPT !.acc = b] = [u EXCEPT !.acc = b]
      BY DEF AgtRegisters
    <3> QED BY <3>1 DEF Begin, Short
  <2>3. Begin(u, a).u.run = u.run /\ Begin(u, a).u.reload = u.reload /\ Begin(u, a).u.acc = a
    BY DEF Begin, AgtRegisters
  <2> QED BY <2>1, <2>2, <2>3, <2>4
<1>2. ASSUME NEW i \in Nat, i \in S PROVE i + 1 \in S
  <2> SUFFICES ASSUME i + 1 <= k PROVE Same(i + 1)
    OBVIOUS
  <2>1. Same(i)
    BY <1>2
  <2>2. f[i + 1] = Turn(f[i])
    <3>1. i + 1 \in 0..k /\ i + 1 # 0 /\ (i + 1) - 1 = i
      OBVIOUS
    <3> QED BY <3>1 DEF CountsOf
  <2>3. ASSUME i + 1 <= m PROVE g[i + 1] = Turn(g[i]) /\ g[i] = Short(f[i], b)
    <3>1. i + 1 \in 0..m /\ i + 1 # 0 /\ (i + 1) - 1 = i /\ i <= m
      BY <2>3
    <3> QED BY <3>1, <2>1 DEF CountsOf
  <2> HIDE DEF Same
  <2>4. f[i] \in AgtWalk /\ f[i].u.run = u.run /\ f[i].u.reload = u.reload /\ f[i].u.acc = a
    BY <2>1 DEF Same
  <2> QED BY <2>2, <2>3, <2>4, TurnKeeps DEF Same
<1> HIDE DEF S
<1>3. Nat \subseteq S
  BY <1>1, <1>2, Induction
<1> QED BY <1>3 DEF S

\* What Elapsed returns: as many counts as fit in the time, from what is left over.
LEMMA ElapsedIs ==
    ASSUME AgtAssumption, NEW u \in AgtRegisters, NEW time \in Nat, u.run
    PROVE  LET total == u.acc + time IN
           \E f : /\ CountsOf(f, Begin(u, total % Div), total \div Div)
                 /\ Elapsed(u, time) = f[total \div Div]
<1> DEFINE total == u.acc + time
<1> DEFINE k == total \div Div
<1> DEFINE w == Begin(u, total % Div)
<1> DEFINE f == CHOOSE h : CountsOf(h, w, k)
<1>1. total \in Nat /\ k \in Nat
  BY DEF AgtAssumption, AgtRegisters
<1>2. CountsOf(f, w, k)
  <2> HIDE DEF k, w
  <2> QED BY <1>1, CountsExist
<1>3. Elapsed(u, time) = f[k]
  BY DEF Elapsed, CountsOf, Begin, LeftOver
<1> QED BY <1>2, <1>3

\* A running channel after a time is of the same kind, with the registers time leaves alone.
LEMMA ElapsedParts ==
    ASSUME AgtAssumption, NEW u \in AgtRegisters, NEW time \in Nat
    PROVE  /\ Elapsed(u, time) \in AgtWalk
           /\ Elapsed(u, time).u.run = u.run /\ Elapsed(u, time).u.reload = u.reload
           /\ u.run => Elapsed(u, time).u.acc = (u.acc + time) % Div
           /\ ~u.run => Elapsed(u, time) = [u |-> u, n |-> 0]
<1>1. CASE ~u.run
  BY <1>1 DEF Elapsed, AgtWalk
<1>2. CASE u.run
  <2> DEFINE total == u.acc + time
  <2> DEFINE k == total \div Div
  <2>1. total \in Nat /\ k \in Nat /\ total % Div \in 0..(Div - 1)
    BY DEF AgtAssumption, AgtRegisters
  <2>2. PICK f : CountsOf(f, Begin(u, total % Div), k) /\ Elapsed(u, time) = f[k]
    BY <1>2, ElapsedIs
  <2> HIDE DEF k
  <2>3. f[k] \in AgtWalk /\ f[k].u.run = u.run /\ f[k].u.reload = u.reload /\ f[k].u.acc = total % Div
    <3> HIDE DEF total
    <3>1. k \in 0..k
      BY <2>1
    <3> QED BY <2>1, <2>2, <3>1, CountsKeep
  <2> QED BY <1>2, <2>2, <2>3
<1> QED BY <1>1, <1>2

\* No time leaves a channel as it is.
LEMMA NoTime ==
    ASSUME AgtAssumption, NEW u \in AgtRegisters
    PROVE  Elapsed(u, 0) = [u |-> u, n |-> 0]
<1>1. CASE ~u.run
  BY <1>1 DEF Elapsed
<1>2. CASE u.run
  <2>1. u.acc + 0 = u.acc /\ u.acc % Div = u.acc /\ u.acc \div Div = 0
    BY DEF AgtAssumption, AgtRegisters
  <2>2. PICK f : CountsOf(f, Begin(u, u.acc), 0) /\ Elapsed(u, 0) = f[0]
    <3>1. 0 \in Nat
      OBVIOUS
    <3> QED BY <1>2, <2>1, <3>1, ElapsedIs
  <2>3. f[0] = Begin(u, u.acc)
    BY <2>2 DEF CountsOf
  <2>4. Begin(u, u.acc) = [u |-> u, n |-> 0]
    BY DEF Begin, AgtRegisters
  <2> QED BY <2>2, <2>3, <2>4
<1> QED BY <1>1, <1>2

\* Quotient and remainder of the next number.
LEMMA DivNext ==
    ASSUME NEW d \in Nat \ {0}, NEW t \in Nat
    PROVE  IF (t % d) + 1 < d THEN (t + 1) \div d = t \div d /\ (t + 1) % d = (t % d) + 1
           ELSE (t + 1) \div d = (t \div d) + 1 /\ (t + 1) % d = 0
<1> DEFINE k == t \div d
<1> DEFINE a == t % d
<1> DEFINE m == (t + 1) \div d
<1> DEFINE b == (t + 1) % d
<1>1. k \in Nat /\ m \in Nat /\ a \in 0..(d - 1) /\ b \in 0..(d - 1) /\ t = d * k + a /\ t + 1 = d * m + b
  OBVIOUS
<1> HIDE DEF k, a, m, b
<1>2. d * (m - k) = a + 1 - b
  BY <1>1
<1>3. m - k > -1
  <2>1. ASSUME m - k <= -1 PROVE FALSE
    <3>1. d * (m - k) <= -d
      BY <1>1, <2>1
    <3> QED BY <1>1, <1>2, <3>1
  <2> QED BY <1>1, <2>1
<1>4. m - k < 2
  <2>1. ASSUME m - k >= 2 PROVE FALSE
    <3>1. d * (m - k) >= 2 * d
      BY <1>1, <2>1
    <3> QED BY <1>1, <1>2, <3>1
  <2> QED BY <1>1, <2>1
<1>5. CASE m = k
  BY <1>1, <1>2, <1>5 DEF m, k, a, b
<1>6. CASE m = k + 1
  <2>1. d * (m - k) = d
    BY <1>1, <1>6
  <2> QED BY <1>1, <1>2, <1>6, <2>1 DEF m, k, a, b
<1> QED BY <1>1, <1>3, <1>4, <1>5, <1>6

\* Counting modulo a number, one at a time.
LEMMA ModNext ==
    ASSUME NEW d \in Nat \ {0}, NEW t \in Nat
    PROVE  (t + 1) % d = ((t % d) + 1) % d
<1> DEFINE a == t % d
<1>1. a \in 0..(d - 1)
  OBVIOUS
<1>2. IF a + 1 < d THEN (t + 1) % d = a + 1 ELSE (t + 1) % d = 0
  BY DivNext
<1> HIDE DEF a
<1>3. a + 1 < d => (a + 1) % d = a + 1
  BY <1>1
<1>4. ~(a + 1 < d) => a + 1 = d /\ d % d = 0
  BY <1>1
<1> QED BY <1>1, <1>2, <1>3, <1>4 DEF a

\* One instruction more: an instruction of the next count, or the next count.
LEMMA OneInstructionMore ==
    ASSUME AgtAssumption, NEW u \in AgtRegisters, NEW time \in Nat, u.run
    PROVE  LET w == Elapsed(u, time) IN
           Elapsed(u, time + 1) = IF w.u.acc + 1 < Div THEN Short(w, w.u.acc + 1) ELSE Turn(Short(w, 0))
<1> DEFINE total == u.acc + time
<1> DEFINE k == total \div Div
<1> DEFINE m == (total + 1) \div Div
<1> DEFINE a == total % Div
<1> DEFINE b == (total + 1) % Div
<1> DEFINE w == Elapsed(u, time)
<1>1. /\ total \in Nat /\ k \in Nat /\ m \in Nat
      /\ a \in 0..(Div - 1) /\ b \in 0..(Div - 1) /\ Div \in Nat \ {0}
  BY DEF AgtAssumption, AgtRegisters
<1>2. IF a + 1 < Div THEN m = k /\ b = a + 1 ELSE m = k + 1 /\ b = 0
  <2> HIDE DEF total
  <2> QED BY <1>1, DivNext
<1>3. PICK f : CountsOf(f, Begin(u, a), k) /\ w = f[k]
  BY ElapsedIs
<1>4. PICK g : CountsOf(g, Begin(u, b), m) /\ Elapsed(u, time + 1) = g[m]
  <2>1. time + 1 \in Nat /\ u.acc + (time + 1) = total + 1
    BY DEF AgtAssumption, AgtRegisters
  <2> QED BY <2>1, ElapsedIs
<1> HIDE DEF total, a, b, k, m, w
<1>5. f[k].u.acc = a /\ f[k] \in AgtWalk /\ (k <= m => g[k] = Short(f[k], b))
  <2>1. k \in 0..k
    BY <1>1
  <2> QED BY <1>1, <1>3, <1>4, <2>1, CountsKeep
<1>6. CASE a + 1 < Div
  BY <1>1, <1>2, <1>3, <1>4, <1>5, <1>6 DEF w
<1>7. CASE ~(a + 1 < Div)
  <2>1. m = k + 1 /\ b = 0 /\ k <= m /\ m \in 0..m /\ m # 0 /\ m - 1 = k
    BY <1>1, <1>2, <1>7
  <2>2. g[m] = Turn(g[k])
    BY <1>4, <2>1 DEF CountsOf
  <2> QED BY <1>3, <1>4, <1>5, <1>7, <2>1, <2>2 DEF w
<1> QED BY <1>6, <1>7

\* What every look does: the channel catches up, and firmware's part of it is as written.
LEMMA LookedParts ==
    ASSUME AgtAssumption, AgtTypeOK, NEW v \in AgtRegisters, Looked(v)
    PROVE  /\ AgtTypeOK'
           /\ agt'.run = v.run /\ agt'.reload = v.reload
           /\ Ahead' = [u |-> agt', n |-> 0]
           /\ agt'.cnt = v.cnt /\ agt'.tundf = v.tundf /\ agt'.acc = Ahead.u.acc
           /\ (raised' + Ahead'.n) % Wrap = (raised + Ahead.n) % Wrap
<1> DEFINE w == Elapsed(agt, agtLag)
<1>1. w \in AgtWalk /\ agtLag \in Nat /\ agt \in AgtRegisters
  BY ElapsedParts DEF AgtTypeOK
<1>2. /\ agt' = [w.u EXCEPT !.run = v.run, !.cnt = v.cnt, !.reload = v.reload, !.tundf = v.tundf]
      /\ raised' = (raised + w.n) % Wrap /\ agtLag' = 0
  BY DEF Looked
<1> HIDE DEF w
<1>3. /\ agt' \in AgtRegisters /\ agt'.run = v.run /\ agt'.reload = v.reload
      /\ agt'.cnt = v.cnt /\ agt'.tundf = v.tundf /\ agt'.acc = w.u.acc
  BY <1>1, <1>2 DEF AgtWalk, AgtRegisters
<1>4. raised' \in 0..(Wrap - 1) /\ (raised' + 0) % Wrap = raised'
  <2>1. raised \in Nat /\ w.n \in Nat /\ Wrap \in Nat \ {0}
    BY <1>1 DEF AgtTypeOK, AgtAssumption, AgtWalk
  <2> DEFINE r == (raised + w.n) % Wrap
  <2>2. r \in 0..(Wrap - 1)
    BY <2>1
  <2> HIDE DEF r
  <2>3. (r + 0) % Wrap = r
    BY <2>1, <2>2
  <2>4. raised' = r
    BY <1>2 DEF r
  <2> QED BY <2>2, <2>3, <2>4
<1>5. Elapsed(agt', 0) = [u |-> agt', n |-> 0]
  BY <1>3, NoTime
<1>6. Ahead' = [u |-> agt', n |-> 0]
  BY <1>2, <1>5 DEF Ahead
<1>7. AgtTypeOK'
  BY <1>2, <1>3, <1>4 DEF AgtTypeOK, AgtAssumption
<1>8. Ahead = w
  BY DEF Ahead, w
<1>9. (raised' + Ahead'.n) % Wrap = (raised + Ahead.n) % Wrap
  <2>1. Ahead'.n = 0
    BY <1>6
  <2> QED BY <1>2, <1>4, <1>8, <2>1
<1> QED BY <1>3, <1>6, <1>7, <1>8, <1>9

\* The channel as it would be now is a channel.
LEMMA AheadParts ==
    ASSUME AgtAssumption, AgtTypeOK
    PROVE  /\ Ahead \in AgtWalk /\ Caught = Ahead.u /\ Caught \in AgtRegisters
           /\ Caught.run = agt.run /\ Caught.reload = agt.reload
<1>1. Ahead \in AgtWalk /\ Ahead.u.run = agt.run /\ Ahead.u.reload = agt.reload
  BY ElapsedParts DEF Ahead, AgtTypeOK
<1> QED BY <1>1 DEF Caught, Ahead, AgtWalk

\* Time that passes is one tick of a counter.
LEMMA PassTicks == ASSUME AgtAssumption, AgtTypeOK, AgtPass PROVE AgtTypeOK' /\ Down!Tick
<1>1. agtLag' = agtLag + 1 /\ agt' = agt /\ raised' = raised /\ agtLag \in Nat /\ agt \in AgtRegisters
  BY DEF AgtPass, AgtTypeOK
<1>2. AgtTypeOK'
  BY <1>1 DEF AgtPass, AgtTypeOK, AgtAssumption
<1> DEFINE w == Elapsed(agt, agtLag)
<1> DEFINE x == Elapsed(agt, agtLag + 1)
<1>3. Ahead = w /\ Ahead' = x
  BY <1>1 DEF Ahead
<1>4. w \in AgtWalk
  BY <1>1, ElapsedParts
<1>5. CASE ~agt.run
  <2>1. w = x
    BY <1>1, <1>5, ElapsedParts
  <2> QED BY <1>1, <1>2, <1>3, <1>5, <2>1 DEF Down!Tick
<1>6. CASE agt.run
  <2>1. x = IF w.u.acc + 1 < Div THEN Short(w, w.u.acc + 1) ELSE Turn(Short(w, 0))
    BY <1>1, <1>6, OneInstructionMore
  <2> HIDE DEF w, x
  <2>2. CASE w.u.acc + 1 < Div
    <3>1. x = Short(w, w.u.acc + 1)
      BY <2>1, <2>2
    <3>2. x.u.acc = w.u.acc + 1 /\ x.u.cnt = w.u.cnt /\ x.u.tundf = w.u.tundf /\ x.n = w.n
      BY <1>4, <3>1 DEF Short, AgtWalk, AgtRegisters
    <3> QED BY <1>1, <1>2, <1>3, <1>6, <2>2, <3>2 DEF Down!Tick
  <2>3. CASE ~(w.u.acc + 1 < Div)
    <3> DEFINE z == Short(w, 0)
    <3>1. z.u.acc = 0 /\ z.u.cnt = w.u.cnt /\ z.u.tundf = w.u.tundf /\ z.u.reload = w.u.reload /\ z.n = w.n /\ z \in AgtWalk
      BY <1>4 DEF Short, AgtWalk, AgtRegisters, AgtAssumption
    <3>2. x = Turn(z)
      BY <2>1, <2>3
    <3>3. w.u.reload = agt.reload
      BY <1>1, ElapsedParts DEF w
    <3> HIDE DEF z
    <3>4. x.u.acc = 0
      BY <3>1, <3>2, TurnKeeps
    <3>5. CASE w.u.cnt > 0
      <4>1. x = [z EXCEPT !.u = [z.u EXCEPT !.cnt = z.u.cnt - 1]]
        BY <3>1, <3>2, <3>5 DEF Turn, AgtWalk
      <4>2. x.u.cnt = w.u.cnt - 1 /\ x.u.tundf = w.u.tundf /\ x.n = w.n
        BY <3>1, <4>1 DEF AgtWalk, AgtRegisters
      <4> QED BY <1>1, <1>2, <1>3, <1>6, <2>3, <3>4, <3>5, <4>2 DEF Down!Tick, Down!CountDown
    <3>6. CASE ~(w.u.cnt > 0)
      <4>1. x = [u |-> [z.u EXCEPT !.cnt = z.u.reload, !.tundf = TRUE], n |-> z.n + 1]
        BY <3>1, <3>2, <3>6 DEF Turn
      <4>2. x.u.cnt = agt.reload /\ x.u.tundf = TRUE /\ x.n = w.n + 1
        BY <3>1, <3>3, <4>1 DEF AgtWalk, AgtRegisters
      <4>3. (raised + (w.n + 1)) % Wrap = (((raised + w.n) % Wrap) + 1) % Wrap
        <5>1. raised + w.n \in Nat /\ Wrap \in Nat \ {0} /\ raised + (w.n + 1) = (raised + w.n) + 1
          BY <1>4 DEF AgtTypeOK, AgtAssumption, AgtWalk
        <5> QED BY <5>1, DivNext, ModNext
      <4> QED BY <1>1, <1>2, <1>3, <1>6, <2>3, <3>4, <3>6, <4>2, <4>3 DEF Down!Tick, Down!CountDown
    <3> QED BY <3>5, <3>6
  <2> QED BY <2>2, <2>3
<1> QED BY <1>5, <1>6

\* A tick of the driver and a read only show what the counter has come to.
LEMMA LookShows == ASSUME AgtAssumption, AgtTypeOK, Look PROVE AgtTypeOK' /\ UNCHANGED Down!view
<1>1. Looked(Caught) /\ Caught \in AgtRegisters
  BY AheadParts DEF Look
<1> QED BY <1>1, AheadParts, LookedParts DEF Down!view

\* AGTCR starts and stops the counter and clears its flag, at the count it has come to.
LEMMA AgtcrControls ==
    ASSUME AgtAssumption, AgtTypeOK, NEW tstart \in BOOLEAN, NEW tstop \in BOOLEAN, NEW keep \in BOOLEAN,
           WriteAgtcr(tstart, tstop, keep)
    PROVE  AgtTypeOK' /\ Down!Control
<1> DEFINE run == tstart /\ ~tstop
<1> DEFINE v == [Caught EXCEPT !.run = run, !.tundf = Caught.tundf /\ keep,
                               !.cnt = IF run /\ ~agt.run THEN agt.reload ELSE Caught.cnt]
<1>1. Looked(v)
  BY DEF WriteAgtcr
<1>2. Caught \in AgtRegisters /\ agt \in AgtRegisters
  BY AheadParts DEF AgtTypeOK
<1>3. /\ v \in AgtRegisters /\ v.run = run /\ v.tundf = (Caught.tundf /\ keep) /\ v.reload = Caught.reload
      /\ v.cnt = IF run /\ ~agt.run THEN agt.reload ELSE Caught.cnt
  BY <1>2 DEF AgtRegisters
<1> HIDE DEF v
<1>4. /\ AgtTypeOK' /\ agt'.run = run /\ agt'.reload = agt.reload /\ Ahead'.u = agt'
      /\ agt'.cnt = IF run /\ ~agt.run THEN agt.reload ELSE Ahead.u.cnt
      /\ agt'.tundf = (Ahead.u.tundf /\ keep) /\ agt'.acc = Ahead.u.acc
      /\ (raised' + Ahead'.n) % Wrap = (raised + Ahead.n) % Wrap
  BY <1>1, <1>3, AheadParts, LookedParts
<1>5. agt'.tundf \in BOOLEAN /\ (agt'.tundf => Ahead.u.tundf) /\ agt'.run \in BOOLEAN
  BY <1>4 DEF AgtTypeOK, AgtRegisters
<1> HIDE DEF run
<1> QED BY <1>4, <1>5 DEF Down!Control

\* A write of the count programs it.
LEMMA CountPrograms ==
    ASSUME AgtAssumption, AgtTypeOK, NEW c \in AgtCount, WriteCount(c)
    PROVE  AgtTypeOK' /\ Down!Program
<1> DEFINE v == [Caught EXCEPT !.cnt = c, !.reload = c]
<1>1. Looked(v)
  BY DEF WriteCount
<1>2. Caught \in AgtRegisters /\ c \in Nat
  BY AheadParts DEF AgtAssumption
<1>3. v \in AgtRegisters /\ v.run = Caught.run /\ v.tundf = Caught.tundf /\ v.reload = c /\ v.cnt = c
  BY <1>2 DEF AgtRegisters
<1> HIDE DEF v
<1>4. /\ AgtTypeOK' /\ agt'.run = agt.run /\ agt'.reload = c /\ Ahead'.u = agt' /\ agt'.cnt = c
      /\ agt'.tundf = Ahead.u.tundf /\ agt'.acc = Ahead.u.acc
      /\ (raised' + Ahead'.n) % Wrap = (raised + Ahead.n) % Wrap
  BY <1>1, <1>3, AheadParts, LookedParts
<1> QED BY <1>4 DEF Down!Program

\* For every divider, count and bound: however time is cut into ticks, reads and writes,
\* an AGT channel is a counter that counts one instruction at a time, raises its
\* flag with every underflow and asks for one request each (advance).
THEOREM AgtCounts == ASSUME AgtAssumption PROVE AgtSpec => IsCounting
<1>1. AgtInit => AgtTypeOK /\ Down!Init
  <2> SUFFICES ASSUME AgtInit PROVE AgtTypeOK /\ Down!Init
    OBVIOUS
  <2>1. AgtTypeOK
    BY DEF AgtInit, AgtTypeOK, AgtRegisters, AgtAssumption
  <2>2. Ahead = [u |-> agt, n |-> 0]
    BY <2>1, NoTime DEF AgtInit, Ahead, AgtTypeOK
  <2>3. (raised + 0) % Wrap = 0
    BY DEF AgtInit, AgtAssumption
  <2> QED BY <2>1, <2>2, <2>3 DEF AgtInit, Down!Init
<1>2. AgtTypeOK /\ [AgtNext]_agtVars => AgtTypeOK' /\ [Down!Tick \/ Down!Control \/ Down!Program]_Down!view
  <2> SUFFICES ASSUME AgtTypeOK, [AgtNext]_agtVars
               PROVE  AgtTypeOK' /\ [Down!Tick \/ Down!Control \/ Down!Program]_Down!view
    OBVIOUS
  <2>1. CASE AgtPass
    BY <2>1, PassTicks
  <2>2. CASE Look
    BY <2>2, LookShows
  <2>3. ASSUME NEW tstart \in BOOLEAN, NEW tstop \in BOOLEAN, NEW keep \in BOOLEAN, WriteAgtcr(tstart, tstop, keep)
        PROVE  AgtTypeOK' /\ Down!Control
    BY <2>3, AgtcrControls
  <2>4. ASSUME NEW c \in AgtCount, WriteCount(c) PROVE AgtTypeOK' /\ Down!Program
    BY <2>4, CountPrograms
  <2>5. CASE UNCHANGED agtVars
    BY <2>5 DEF agtVars, AgtTypeOK, Down!view, Ahead
  <2> QED BY <2>1, <2>2, <2>3, <2>4, <2>5 DEF AgtNext
<1> QED BY <1>1, <1>2, PTL DEF AgtSpec, IsCounting, Down!Spec

-----------------------------------------------------------------------------
(* The RTC: seconds, carries and alarms.                                     *)

\* Seconds from u: the first is u, each other the next of the one before.
SecondsOf(f, u, k) == f = [i \in 0..k |-> IF i = 0 THEN u ELSE NextSecond(f[i - 1])]

\* Seconds are defined whatever their number.
LEMMA SecondsExist == ASSUME NEW u, NEW k \in Nat PROVE \E f : SecondsOf(f, u, k)
<1> DEFINE S == {m \in Nat : \E f : SecondsOf(f, u, m)}
<1>1. 0 \in S
  <2>1. SecondsOf([i \in 0..0 |-> u], u, 0)
    BY DEF SecondsOf
  <2> QED BY <2>1
<1>2. ASSUME NEW m \in Nat, m \in S PROVE m + 1 \in S
  <2>1. PICK f : SecondsOf(f, u, m)
    BY <1>2
  <2> DEFINE g == [i \in 0..(m + 1) |-> IF i = m + 1 THEN NextSecond(f[m]) ELSE f[i]]
  <2>2. \A i \in 0..m : g[i] = f[i]
    OBVIOUS
  <2>3. ASSUME NEW i \in 0..(m + 1)
        PROVE g[i] = IF i = 0 THEN u ELSE NextSecond(g[i - 1])
    <3>1. CASE i = m + 1
      <4>1. i - 1 = m /\ i # 0 /\ m \in 0..m
        BY <3>1
      <4> QED BY <4>1, <2>2, <3>1
    <3>2. CASE i # m + 1
      <4>1. i \in 0..m /\ (i # 0 => i - 1 \in 0..m)
        BY <3>2
      <4>2. f[i] = IF i = 0 THEN u ELSE NextSecond(f[i - 1])
        BY <4>1, <2>1 DEF SecondsOf
      <4>3. g[i] = f[i] /\ (i # 0 => g[i - 1] = f[i - 1])
        BY <4>1, <2>2
      <4> HIDE DEF g
      <4> QED BY <4>2, <4>3
    <3> QED BY <3>1, <3>2
  <2>4. SecondsOf(g, u, m + 1)
    <3>1. g = [i \in 0..(m + 1) |-> g[i]]
      OBVIOUS
    <3> HIDE DEF g
    <3> QED BY <3>1, <2>3 DEF SecondsOf
  <2> QED BY <2>4
<1> HIDE DEF S
<1>3. k \in S
  BY <1>1, <1>2, Induction
<1> QED BY <1>3 DEF S

\* The second that a channel shows, and what a second leaves alone.
ShownBy(u) == SecondOfDay(u.hour, u.min, u.sec)
Rest(u) == <<u.run, u.aie, u.alarm>>

\* bump counts in digits, and comes back to 0 at the top.
LEMMA BumpCounts ==
    ASSUME NEW top \in {24, 60}, NEW b \in Bcd(top)
    PROVE  /\ Bumped(b, top) \in Bcd(top)
           /\ Value(Bumped(b, top)) = IF Value(b) + 1 = top THEN 0 ELSE Value(b) + 1
           /\ (Bumped(b, top) = 0) = (Value(b) + 1 = top)
<1> DEFINE v == Value(b) + 1
<1>1. Value(b) \in Nat /\ v \in Nat /\ v > 0 /\ v <= top /\ top \in Nat /\ top <= 60
  BY DEF Bcd, Value
<1>2. CASE v = top
  <2>1. Bumped(b, top) = 0
    BY <1>1, <1>2 DEF Bumped
  <2>2. 0 \in Bcd(top) /\ Value(0) = 0
    BY <1>1 DEF Bcd, Value
  <2> QED BY <1>2, <2>1, <2>2
<1>3. CASE v < top
  <2> DEFINE q == v \div 10
  <2> DEFINE r == v % 10
  <2>1. q \in 0..5 /\ r \in 0..9 /\ v = 10 * q + r
    <3>1. v \in Nat /\ v < 60
      BY <1>1, <1>3
    <3> HIDE DEF v
    <3> QED BY <3>1
  <2>2. Bumped(b, top) = q * 16 + r
    BY <1>1, <1>3 DEF Bumped
  <2> HIDE DEF q, r
  <2>3. (q * 16 + r) \div 16 = q /\ (q * 16 + r) % 16 = r /\ q * 16 + r \in Nat
    BY <2>1
  <2>4. Value(q * 16 + r) = v
    BY <2>1, <2>3 DEF Value
  <2>5. q * 16 + r # 0
    BY <1>1, <2>1
  <2>6. q * 16 + r \in Bcd(top)
    BY <1>3, <2>1, <2>3, <2>4 DEF Bcd
  <2> HIDE DEF v
  <2>7. v # top
    BY <1>1, <1>3
  <2> QED BY <2>2, <2>4, <2>5, <2>6, <2>7 DEF v
<1> QED BY <1>1, <1>2, <1>3

\* A second is the next of the day, through every carry.
LEMMA SecondPasses ==
    ASSUME NEW u \in RtcRegisters
    PROVE  /\ NextSecond(u) \in RtcRegisters /\ Rest(NextSecond(u)) = Rest(u)
           /\ ShownBy(u) \in Nat /\ ShownBy(u) < Day /\ ShownBy(NextSecond(u)) = (ShownBy(u) + 1) % Day
<1> DEFINE s == Bumped(u.sec, 60)
<1> DEFINE m == IF s = 0 THEN Bumped(u.min, 60) ELSE u.min
<1> DEFINE h == IF s = 0 /\ m = 0 THEN Bumped(u.hour, 24) ELSE u.hour
<1>1. u.sec \in Bcd(60) /\ u.min \in Bcd(60) /\ u.hour \in Bcd(24)
  BY DEF RtcRegisters
<1>2. NextSecond(u) = [u EXCEPT !.sec = s, !.min = m, !.hour = h]
  BY DEF NextSecond
<1>3. /\ s \in Bcd(60) /\ Value(s) = IF Value(u.sec) + 1 = 60 THEN 0 ELSE Value(u.sec) + 1
      /\ (s = 0) = (Value(u.sec) + 1 = 60)
  BY <1>1, BumpCounts
<1>4. /\ m \in Bcd(60)
      /\ s = 0 => /\ Value(m) = IF Value(u.min) + 1 = 60 THEN 0 ELSE Value(u.min) + 1
                  /\ (m = 0) = (Value(u.min) + 1 = 60)
  <2> HIDE DEF s
  <2> QED BY <1>1, BumpCounts
<1>5. /\ h \in Bcd(24)
      /\ s = 0 /\ m = 0 => Value(h) = IF Value(u.hour) + 1 = 24 THEN 0 ELSE Value(u.hour) + 1
  <2> HIDE DEF s, m
  <2> QED BY <1>1, BumpCounts
<1>6. (s # 0 => m = u.min) /\ (~(s = 0 /\ m = 0) => h = u.hour)
  OBVIOUS
<1> HIDE DEF s, m, h
<1>7. /\ NextSecond(u) \in RtcRegisters /\ Rest(NextSecond(u)) = Rest(u)
      /\ NextSecond(u).sec = s /\ NextSecond(u).min = m /\ NextSecond(u).hour = h
  BY <1>2, <1>3, <1>4, <1>5 DEF RtcRegisters, Rest
<1>8. \A top \in {24, 60} : \A b \in Bcd(top) : Value(b) \in Nat /\ Value(b) < top
  BY DEF Bcd, Value
<1> DEFINE vs == Value(u.sec)
<1> DEFINE vm == Value(u.min)
<1> DEFINE vh == Value(u.hour)
<1>9. vs \in Nat /\ vs < 60 /\ vm \in Nat /\ vm < 60 /\ vh \in Nat /\ vh < 24
  BY <1>1, <1>8
<1>10. ShownBy(u) = vh * 3600 + vm * 60 + vs
  BY DEF ShownBy, SecondOfDay
<1>11. ShownBy(NextSecond(u)) = Value(h) * 3600 + Value(m) * 60 + Value(s)
  BY <1>7 DEF ShownBy, SecondOfDay
<1>12. ShownBy(u) \in Nat /\ ShownBy(u) < 86400
  <2> HIDE DEF vs, vm, vh
  <2> QED BY <1>9, <1>10
<1>13. Day = 86400
  BY DEF Day
<1>14. ShownBy(NextSecond(u)) = (ShownBy(u) + 1) % 86400
  <2>1. CASE vs # 59
    <3>1. Value(s) = vs + 1 /\ m = u.min /\ h = u.hour
      BY <1>3, <1>6, <1>9, <2>1
    <3>2. ShownBy(NextSecond(u)) = vh * 3600 + vm * 60 + (vs + 1)
      BY <1>11, <3>1
    <3> HIDE DEF vs, vm, vh
    <3> QED BY <1>9, <1>10, <2>1, <3>2
  <2>2. CASE vs = 59 /\ vm # 59
    <3>1. Value(s) = 0 /\ s = 0
      BY <1>3, <2>2
    <3>2. Value(m) = vm + 1 /\ m # 0
      BY <1>4, <1>9, <2>2, <3>1
    <3>3. ShownBy(NextSecond(u)) = vh * 3600 + (vm + 1) * 60 + 0
      BY <1>6, <1>11, <3>1, <3>2
    <3> HIDE DEF vs, vm, vh
    <3> QED BY <1>9, <1>10, <2>2, <3>3
  <2>3. CASE vs = 59 /\ vm = 59
    <3>1. Value(s) = 0 /\ s = 0
      BY <1>3, <2>3
    <3>2. Value(m) = 0 /\ m = 0
      BY <1>4, <2>3, <3>1
    <3>3. Value(h) = IF vh = 23 THEN 0 ELSE vh + 1
      BY <1>5, <1>9, <3>1, <3>2
    <3>4. ShownBy(NextSecond(u)) = (IF vh = 23 THEN 0 ELSE vh + 1) * 3600 + 0 * 60 + 0
      BY <1>11, <3>1, <3>2, <3>3
    <3> HIDE DEF vs, vm, vh
    <3> QED BY <1>9, <1>10, <2>3, <3>4
  <2> QED BY <1>9, <2>1, <2>2, <2>3
<1> QED BY <1>7, <1>12, <1>13, <1>14

\* What Advanced returns: as many seconds as fit in the time.
LEMMA AdvancedIs ==
    ASSUME RtcAssumption, NEW u, NEW time \in Nat, u.run
    PROVE  \E f : SecondsOf(f, u, time \div Second) /\ Advanced(u, time) = f[time \div Second]
<1> DEFINE k == time \div Second
<1> DEFINE f == CHOOSE h : SecondsOf(h, u, k)
<1>1. k \in Nat
  BY DEF RtcAssumption
<1>2. SecondsOf(f, u, k)
  <2> HIDE DEF k
  <2> QED BY <1>1, SecondsExist
<1>3. Advanced(u, time) = f[k]
  BY DEF Advanced, SecondsOf
<1> QED BY <1>2, <1>3

\* A clock that goes on for longer shows the same seconds first.
LEMMA SecondsAgree ==
    ASSUME NEW u, NEW k \in Nat, NEW m \in Nat, NEW f, NEW g, k <= m, SecondsOf(f, u, k), SecondsOf(g, u, m)
    PROVE  \A i \in 0..k : g[i] = f[i]
<1> DEFINE S == {i \in Nat : i <= k => g[i] = f[i]}
<1>1. 0 \in S
  BY DEF SecondsOf
<1>2. ASSUME NEW i \in Nat, i \in S PROVE i + 1 \in S
  <2> SUFFICES ASSUME i + 1 <= k PROVE g[i + 1] = f[i + 1]
    OBVIOUS
  <2>1. i + 1 \in 0..k /\ i + 1 \in 0..m /\ i + 1 # 0 /\ (i + 1) - 1 = i /\ g[i] = f[i]
    BY <1>2
  <2> QED BY <2>1 DEF SecondsOf
<1> HIDE DEF S
<1>3. Nat \subseteq S
  BY <1>1, <1>2, Induction
<1> QED BY <1>3 DEF S

\* Less than a second leaves the clock alone, and so does any time while it is stopped.
LEMMA NoSecond ==
    ASSUME RtcAssumption, NEW u, NEW time \in Nat, ~u.run \/ time < Second
    PROVE  Advanced(u, time) = u
<1>1. CASE ~u.run
  BY <1>1 DEF Advanced
<1>2. CASE u.run
  <2>1. time \div Second = 0
    BY <1>2 DEF RtcAssumption
  <2>2. PICK f : SecondsOf(f, u, 0) /\ Advanced(u, time) = f[0]
    BY <1>2, <2>1, AdvancedIs
  <2> QED BY <2>2 DEF SecondsOf
<1> QED BY <1>1, <1>2

\* One instruction more ends a second or does not.
LEMMA OneMoreInSecond ==
    ASSUME RtcAssumption, NEW u, NEW time \in Nat, u.run
    PROVE  IF (time % Second) + 1 < Second
           THEN Advanced(u, time + 1) = Advanced(u, time) /\ (time + 1) % Second = (time % Second) + 1
           ELSE Advanced(u, time + 1) = NextSecond(Advanced(u, time)) /\ (time + 1) % Second = 0
<1> DEFINE k == time \div Second
<1> DEFINE m == (time + 1) \div Second
<1> DEFINE short == (time % Second) + 1 < Second
<1>1. k \in Nat /\ m \in Nat /\ time + 1 \in Nat
  BY DEF RtcAssumption
<1>2. IF short THEN m = k /\ (time + 1) % Second = (time % Second) + 1 ELSE m = k + 1 /\ (time + 1) % Second = 0
  BY DivNext DEF RtcAssumption
<1>3. PICK f : SecondsOf(f, u, k) /\ Advanced(u, time) = f[k]
  BY AdvancedIs
<1>4. PICK g : SecondsOf(g, u, m) /\ Advanced(u, time + 1) = g[m]
  BY <1>1, AdvancedIs
<1> HIDE DEF k, m, short
<1>5. k <= m /\ g[k] = f[k]
  <2>1. k <= m /\ k \in 0..k
    BY <1>1, <1>2
  <2> QED BY <1>1, <1>3, <1>4, <2>1, SecondsAgree
<1>6. CASE short
  BY <1>2, <1>3, <1>4, <1>5, <1>6 DEF short
<1>7. CASE ~short
  <2>1. m \in 0..m /\ m # 0 /\ m - 1 = k
    BY <1>1, <1>2, <1>7
  <2>2. g[m] = NextSecond(g[k])
    BY <1>4, <2>1 DEF SecondsOf
  <2> QED BY <1>2, <1>3, <1>4, <1>5, <1>7, <2>2 DEF short
<1> QED BY <1>6, <1>7

\* A clock that has advanced is a clock, with what time leaves alone.
LEMMA AdvancedParts ==
    ASSUME RtcAssumption, NEW u \in RtcRegisters, NEW time \in Nat
    PROVE  Advanced(u, time) \in RtcRegisters /\ Rest(Advanced(u, time)) = Rest(u)
<1> DEFINE S == {t \in Nat : Advanced(u, t) \in RtcRegisters /\ Rest(Advanced(u, t)) = Rest(u)}
<1>1. 0 \in S
  <2>1. 0 < Second /\ 0 \in Nat
    BY DEF RtcAssumption
  <2> QED BY <2>1, NoSecond
<1>2. ASSUME NEW t \in Nat, t \in S PROVE t + 1 \in S
  <2>1. CASE ~u.run
    BY <2>1, NoSecond
  <2>2. CASE u.run
    <3>1. Advanced(u, t + 1) = Advanced(u, t) \/ Advanced(u, t + 1) = NextSecond(Advanced(u, t))
      BY <2>2, OneMoreInSecond
    <3>2. Advanced(u, t) \in RtcRegisters /\ Rest(Advanced(u, t)) = Rest(u)
      BY <1>2
    <3> QED BY <3>1, <3>2, SecondPasses
  <2> QED BY <2>1, <2>2
<1> HIDE DEF S
<1>3. time \in S
  BY <1>1, <1>2, Induction
<1> QED BY <1>3 DEF S

\* The time a look would find, and how far into its second it is.
RtcInv ==
    /\ RtcTypeOK /\ since \in Nat
    /\ ShownBy(Advanced(rtc, rtcLag)) = due
    /\ rtc.run => rtcLag % Second = since

\* What the invariant says of the clock.
LEMMA RtcParts ==
    ASSUME RtcAssumption, RtcInv
    PROVE  /\ rtc \in RtcRegisters /\ rtcLag \in Nat /\ rtcLag <= MaxWait /\ Second \in Nat \ {0}
           /\ Advanced(rtc, rtcLag) \in RtcRegisters /\ Rest(Advanced(rtc, rtcLag)) = Rest(rtc)
<1>1. rtc \in RtcRegisters /\ rtcLag \in Nat /\ rtcLag <= MaxWait /\ Second \in Nat \ {0}
  BY DEF RtcInv, RtcTypeOK, RtcAssumption
<1> QED BY <1>1, AdvancedParts

\* A number below the modulus is its own remainder.
LEMMA SmallMod == ASSUME NEW d \in Nat \ {0}, NEW x \in Nat, x < d PROVE x % d = x
OBVIOUS

\* A clock without a time on it shows what its registers say.
LEMMA RtcSet ==
    ASSUME RtcAssumption, rtc' \in RtcRegisters, rtcLag' \in 0..MaxWait, since' \in Nat,
           ~rtc'.run \/ rtcLag' < Second, ShownBy(rtc') = due', rtc'.run => rtcLag' = since'
    PROVE  RtcInv' /\ Advanced(rtc, rtcLag)' = rtc'
<1>1. rtcLag' \in Nat
  BY DEF RtcAssumption
<1>2. Advanced(rtc', rtcLag') = rtc'
  BY <1>1, NoSecond
<1>3. rtc'.run => rtcLag' % Second = since'
  <2>1. rtcLag' < Second => rtcLag' % Second = rtcLag'
    BY <1>1, SmallMod DEF RtcAssumption
  <2> QED BY <2>1
<1> QED BY <1>2, <1>3 DEF RtcInv, RtcTypeOK

\* An instruction is part of the second or ends it.
LEMMA RtcPasses == ASSUME RtcAssumption, RtcInv, RtcPass PROVE RtcInv'
<1> DEFINE u == Advanced(rtc, rtcLag)
<1>1. rtcLag' = rtcLag + 1 /\ rtc' = rtc /\ rtcLag < MaxWait
  BY DEF RtcPass
<1>2. RtcTypeOK'
  BY <1>1, RtcParts DEF RtcInv, RtcTypeOK, RtcAssumption
<1>3. CASE ~rtc.run
  <2>1. since' = 0 /\ due' = due
    BY <1>3 DEF RtcPass
  <2>2. Advanced(rtc, rtcLag + 1) = rtc /\ u = rtc
    BY <1>3, RtcParts, NoSecond
  <2> QED BY <1>1, <1>2, <1>3, <2>1, <2>2 DEF RtcInv
<1>4. CASE rtc.run
  <2>1. rtcLag % Second = since /\ since \in Nat /\ ShownBy(u) = due
    BY <1>4 DEF RtcInv
  <2>2. since < Second
    BY <2>1, RtcParts
  <2>3. CASE since + 1 < Second
    <3>1. Advanced(rtc, rtcLag + 1) = u /\ (rtcLag + 1) % Second = since + 1
      BY <1>4, <2>1, <2>3, RtcParts, OneMoreInSecond
    <3>2. since' = since + 1 /\ due' = due
      BY <1>4, <2>1, <2>3, RtcParts DEF RtcPass
    <3> QED BY <1>1, <1>2, <2>1, <3>1, <3>2 DEF RtcInv
  <2>4. CASE ~(since + 1 < Second)
    <3>1. Advanced(rtc, rtcLag + 1) = NextSecond(u) /\ (rtcLag + 1) % Second = 0
      BY <1>4, <2>1, <2>4, RtcParts, OneMoreInSecond
    <3>2. since + 1 = Second
      BY <2>1, <2>2, <2>4, RtcParts
    <3>3. since' = 0 /\ due' = (due + 1) % Day
      BY <1>4, <3>2 DEF RtcPass
    <3>4. ShownBy(NextSecond(u)) = (ShownBy(u) + 1) % Day
      BY RtcParts, SecondPasses
    <3> HIDE DEF u
    <3> QED BY <1>1, <1>2, <2>1, <3>1, <3>3, <3>4 DEF RtcInv
  <2> QED BY <2>3, <2>4
<1> QED BY <1>3, <1>4

\* A look takes over what has passed and keeps the fraction.
LEMMA RtcLooks == ASSUME RtcAssumption, RtcInv, RtcLook PROVE RtcInv' /\ rtcLag' < Second /\ rtcLag' \in Nat
<1> DEFINE u == Advanced(rtc, rtcLag)
<1>1. rtc' = u /\ rtcLag' = rtcLag % Second /\ due' = due /\ since' = since
  BY DEF RtcLook, Fraction
<1>2. u \in RtcRegisters /\ u.run = rtc.run
  BY RtcParts DEF Rest
<1>3. rtcLag % Second \in Nat /\ rtcLag % Second < Second /\ rtcLag % Second <= rtcLag
  BY RtcParts
<1>4. rtcLag % Second \in 0..MaxWait
  BY <1>3, RtcParts DEF RtcAssumption
<1>5. rtc'.run => rtcLag' = since'
  BY <1>1, <1>2 DEF RtcInv
<1>6. ShownBy(rtc') = due' /\ since' \in Nat
  BY <1>1 DEF RtcInv
<1> HIDE DEF u
<1> QED BY <1>1, <1>2, <1>3, <1>4, <1>5, <1>6, RtcSet

\* RCR2 begins a second anew, of the same time or of midnight.
LEMMA RtcStarts ==
    ASSUME RtcAssumption, RtcInv, NEW start \in BOOLEAN, NEW reset \in BOOLEAN, WriteRcr2(start, reset)
    PROVE  RtcInv' /\ rtcLag' = 0 /\ Advanced(rtc, rtcLag) = rtc
<1>1. rtcLag' = 0 /\ since' = 0
  BY DEF WriteRcr2
<1>2. Advanced(rtc, rtcLag) = rtc
  <2>1. ~rtc.run \/ rtcLag < Second
    BY DEF WriteRcr2, JustRead
  <2> QED BY <2>1, RtcParts, NoSecond
<1>3. ShownBy(rtc) = due
  BY <1>2 DEF RtcInv
<1>4. rtc' \in RtcRegisters /\ ShownBy(rtc') = due'
  <2>1. CASE reset
    <3>1. rtc' = [rtc EXCEPT !.run = start, !.sec = 0, !.min = 0, !.hour = 0] /\ due' = 0
      BY <2>1 DEF WriteRcr2
    <3>2. 0 \in Bcd(60) /\ 0 \in Bcd(24) /\ Value(0) = 0
      BY DEF Bcd, Value
    <3>3. rtc' \in RtcRegisters /\ rtc'.sec = 0 /\ rtc'.min = 0 /\ rtc'.hour = 0
      BY <3>1, <3>2, RtcParts DEF RtcRegisters
    <3> QED BY <3>1, <3>2, <3>3 DEF ShownBy, SecondOfDay
  <2>2. CASE ~reset
    <3>1. rtc' = [rtc EXCEPT !.run = start] /\ due' = due
      BY <2>2 DEF WriteRcr2
    <3>2. rtc' \in RtcRegisters /\ rtc'.sec = rtc.sec /\ rtc'.min = rtc.min /\ rtc'.hour = rtc.hour
      BY <3>1, RtcParts DEF RtcRegisters
    <3> QED BY <1>3, <3>1, <3>2 DEF ShownBy
  <2> QED BY <2>1, <2>2
<1>5. 0 \in 0..MaxWait /\ 0 < Second /\ 0 \in Nat
  BY DEF RtcAssumption
<1> QED BY <1>1, <1>2, <1>4, <1>5, RtcSet

\* The time that firmware sets is the time.
LEMMA RtcIsSet ==
    ASSUME RtcAssumption, RtcInv, NEW t \in Times, WriteTime(t)
    PROVE  RtcInv' /\ ~rtc'.run
<1>1. /\ rtc' = [rtc EXCEPT !.hour = t[1], !.min = t[2], !.sec = t[3]] /\ ~rtc.run
      /\ due' = SecondOfDay(t[1], t[2], t[3]) /\ rtcLag' = rtcLag /\ since' = since
  BY DEF WriteTime
<1>2. t[1] \in Bcd(24) /\ t[2] \in Bcd(60) /\ t[3] \in Bcd(60)
  BY DEF RtcAssumption
<1>3. /\ rtc' \in RtcRegisters /\ ~rtc'.run
      /\ rtc'.hour = t[1] /\ rtc'.min = t[2] /\ rtc'.sec = t[3]
  BY <1>1, <1>2, RtcParts DEF RtcRegisters
<1>4. ShownBy(rtc') = due'
  BY <1>1, <1>3 DEF ShownBy
<1>5. rtcLag' \in 0..MaxWait /\ since' \in Nat
  BY <1>1 DEF RtcInv, RtcTypeOK
<1> QED BY <1>3, <1>4, <1>5, RtcSet

\* A write of the alarm does not touch the time.
LEMMA RtcAlarmed ==
    ASSUME RtcAssumption, RtcInv, NEW a \in Alarms, NEW aie \in BOOLEAN, WriteAlarm(a, aie)
    PROVE  /\ RtcInv' /\ rtc'.run = rtc.run /\ rtcLag' = rtcLag
<1>1. rtc' = [rtc EXCEPT !.alarm = a, !.aie = aie] /\ rtcLag' = rtcLag /\ due' = due /\ since' = since
  BY DEF WriteAlarm
<1>2. ~rtc.run \/ rtcLag < Second
  BY DEF WriteAlarm, JustRead
<1>3. ShownBy(rtc) = due /\ since \in Nat
  BY <1>2, RtcParts, NoSecond DEF RtcInv
<1>4. /\ rtc' \in RtcRegisters /\ rtc'.run = rtc.run
      /\ rtc'.hour = rtc.hour /\ rtc'.min = rtc.min /\ rtc'.sec = rtc.sec
  BY <1>1, RtcParts DEF RtcRegisters
<1>5. rtc'.run => rtcLag' = since'
  <2>1. rtcLag < Second => rtcLag % Second = rtcLag
    BY RtcParts
  <2> QED BY <1>1, <1>2, <1>4, <2>1 DEF RtcInv
<1>6. ShownBy(rtc') = due' /\ since' \in Nat /\ rtcLag' \in 0..MaxWait
  BY <1>1, <1>3, <1>4 DEF ShownBy, RtcInv, RtcTypeOK
<1> QED BY <1>1, <1>2, <1>4, <1>5, <1>6, RtcSet

\* A clock that is reset shows midnight.
LEMMA RtcBegins == ASSUME RtcAssumption, RtcInit PROVE RtcInv
<1>1. ~rtc.run /\ rtcLag = 0 /\ rtcLag \in Nat /\ since \in Nat /\ due = 0 /\ rtc.sec = 0 /\ rtc.min = 0 /\ rtc.hour = 0
  BY DEF RtcInit
<1>2. 0 \in Bcd(60) /\ 0 \in Bcd(24) /\ Value(0) = 0
  BY DEF Bcd, Value
<1>3. RtcTypeOK
  BY <1>1, <1>2 DEF RtcInit, RtcTypeOK, RtcRegisters, RtcAssumption
<1>4. Advanced(rtc, rtcLag) = rtc
  BY <1>1, NoSecond
<1>5. ShownBy(rtc) = 0
  BY <1>1, <1>2 DEF ShownBy, SecondOfDay
<1> QED BY <1>1, <1>3, <1>4, <1>5 DEF RtcInv

\* Every step keeps the invariant.
LEMMA RtcKept == ASSUME RtcAssumption, RtcInv, [RtcNext]_rtcVars PROVE RtcInv'
<1>1. CASE RtcPass
  BY <1>1, RtcPasses
<1>2. CASE RtcLook
  BY <1>2, RtcLooks
<1>3. ASSUME NEW start \in BOOLEAN, NEW reset \in BOOLEAN, WriteRcr2(start, reset) PROVE RtcInv'
  BY <1>3, RtcStarts
<1>4. ASSUME NEW t \in Times, WriteTime(t) PROVE RtcInv'
  BY <1>4, RtcIsSet
<1>5. ASSUME NEW a \in Alarms, NEW aie \in BOOLEAN, WriteAlarm(a, aie) PROVE RtcInv'
  BY <1>5, RtcAlarmed
<1>6. CASE UNCHANGED rtcVars
  BY <1>6 DEF rtcVars, RtcInv, RtcTypeOK
<1> QED BY <1>1, <1>2, <1>3, <1>4, <1>5, <1>6 DEF RtcNext

\* For every length of a second, every time firmware may set and every way to cut time
\* into ticks and reads, the RTC shows the second of the day that it is, in digits.
THEOREM TimeKept == ASSUME RtcAssumption PROVE RtcSpec => []ClockKeepsTime
<1>1. RtcInit => RtcInv
  BY RtcBegins
<1>2. RtcInv /\ [RtcNext]_rtcVars => RtcInv'
  BY RtcKept
<1>3. RtcInv => ClockKeepsTime
  <2> SUFFICES ASSUME RtcInv PROVE ClockKeepsTime
    OBVIOUS
  <2> DEFINE u == Advanced(rtc, rtcLag)
  <2>1. u \in RtcRegisters
    BY RtcParts
  <2>2. SecondOfDay(u.hour, u.min, u.sec) = due
    BY DEF RtcInv, ShownBy
  <2>3. u.sec % 16 < 10 /\ u.min % 16 < 10 /\ u.hour % 16 < 10
    <3> HIDE DEF u
    <3> QED BY <2>1 DEF RtcRegisters, Bcd
  <2>4. rtc.run => Fraction(rtcLag) = since
    BY DEF RtcInv, Fraction
  <2> QED BY <2>2, <2>3, <2>4 DEF ClockKeepsTime
<1> QED BY <1>1, <1>2, <1>3, PTL DEF RtcSpec

\* Driven often enough, less than two seconds apart, the RTC raises its alarm once
\* for every second that matches.
THEOREM AlarmsTold ==
    ASSUME RtcAssumption, MaxWait < 2 * Second
    PROVE  RtcSpec => []AlarmTold
<1>1. RtcInit => RtcInv /\ AlarmTold
  <2> SUFFICES ASSUME RtcInit PROVE RtcInv /\ AlarmTold
    OBVIOUS
  <2>1. ~AlarmRises /\ owed = 0
    BY DEF RtcInit, AlarmRises
  <2> QED BY <2>1, RtcBegins DEF AlarmTold
<1>2. RtcInv /\ AlarmTold /\ [RtcNext]_rtcVars => RtcInv' /\ AlarmTold'
  <2> SUFFICES ASSUME RtcInv, AlarmTold, [RtcNext]_rtcVars PROVE AlarmTold'
    BY RtcKept
  <2>0. rtcLag \in Nat /\ Second \in Nat \ {0}
    BY RtcParts
  <2>1. CASE RtcPass
    <3>1. rtcLag' = rtcLag + 1 /\ rtc' = rtc /\ rtcLag + 1 < 2 * Second
      BY <2>0, <2>1 DEF RtcPass, RtcAssumption
    <3> DEFINE ends == rtc.run /\ since + 1 = Second
    <3>2. owed' = IF ends /\ rtc.aie /\ Matches(Advanced(rtc, rtcLag + 1)) THEN owed + 1 ELSE owed
      BY <2>1 DEF RtcPass
    <3>3. AlarmRises' = (rtc.run /\ rtc.aie /\ rtcLag + 1 >= Second /\ Matches(Advanced(rtc, rtcLag + 1)))
      BY <3>1 DEF AlarmRises
    <3>4. CASE ~rtc.run
      BY <3>2, <3>3, <3>4 DEF AlarmTold, AlarmRises
    <3>5. CASE rtc.run /\ rtcLag + 1 < Second
      <4>1. rtcLag % Second = rtcLag /\ since = rtcLag
        BY <2>0, <3>5 DEF RtcInv
      <4>2. ~ends /\ ~AlarmRises /\ ~AlarmRises'
        BY <2>0, <3>3, <3>5, <4>1 DEF AlarmRises
      <4> HIDE DEF ends
      <4> QED BY <3>2, <4>2 DEF AlarmTold
    <3>6. CASE rtc.run /\ rtcLag + 1 = Second
      <4>1. rtcLag % Second = rtcLag /\ since = rtcLag
        BY <2>0, <3>6 DEF RtcInv
      <4>2. ends /\ ~AlarmRises
        BY <2>0, <3>6, <4>1 DEF AlarmRises
      <4>3. AlarmRises' = (rtc.aie /\ Matches(Advanced(rtc, rtcLag + 1)))
        BY <2>0, <3>3, <3>6
      <4>4. owed = 0
        BY <4>2 DEF AlarmTold
      <4> HIDE DEF ends
      <4>5. CASE rtc.aie /\ Matches(Advanced(rtc, rtcLag + 1))
        <5>1. owed' = 1
          BY <3>2, <4>2, <4>4, <4>5
        <5> QED BY <4>3, <4>5, <5>1 DEF AlarmTold
      <4>6. CASE ~(rtc.aie /\ Matches(Advanced(rtc, rtcLag + 1)))
        BY <3>2, <4>3, <4>4, <4>6 DEF AlarmTold
      <4> QED BY <4>5, <4>6
    <3>7. CASE rtc.run /\ rtcLag >= Second
      <4>1. rtcLag % Second = rtcLag - Second
        <5>1. rtcLag - Second \in Nat /\ rtcLag - Second < Second /\ rtcLag = 1 * Second + (rtcLag - Second)
          BY <2>0, <3>1, <3>7
        <5> QED BY <2>0, <5>1
      <4>2. (rtcLag % Second) + 1 < Second /\ since = rtcLag % Second
        BY <2>0, <3>1, <3>7, <4>1 DEF RtcInv
      <4>3. ~ends /\ Advanced(rtc, rtcLag + 1) = Advanced(rtc, rtcLag)
        <5>1. since + 1 < Second
          BY <4>2
        <5>2. ~ends
          BY <2>0, <5>1
        <5>3. Advanced(rtc, rtcLag + 1) = Advanced(rtc, rtcLag)
          <6> HIDE DEF ends
          <6> QED BY <2>0, <3>7, <4>2, OneMoreInSecond
        <5> QED BY <5>2, <5>3
      <4>4. AlarmRises' = AlarmRises
        BY <2>0, <3>3, <3>7, <4>3 DEF AlarmRises
      <4> HIDE DEF ends
      <4> QED BY <3>2, <4>3, <4>4 DEF AlarmTold
    <3> QED BY <2>0, <3>4, <3>5, <3>6, <3>7
  <2>2. CASE RtcLook
    <3>1. rtcLag' < Second /\ rtcLag' \in Nat
      BY <2>2, RtcLooks
    <3>2. ~AlarmRises'
      BY <2>0, <3>1 DEF AlarmRises
    <3>3. owed' = IF AlarmRises THEN owed - 1 ELSE owed
      BY <2>2 DEF RtcLook
    <3> QED BY <3>2, <3>3 DEF AlarmTold
  <2>3. ASSUME NEW start \in BOOLEAN, NEW reset \in BOOLEAN, WriteRcr2(start, reset) PROVE AlarmTold'
    <3>1. ~AlarmRises /\ owed' = owed
      BY <2>0, <2>3 DEF WriteRcr2, JustRead, AlarmRises
    <3>2. rtcLag' = 0
      BY <2>3 DEF WriteRcr2
    <3>3. ~AlarmRises'
      BY <2>0, <3>2 DEF AlarmRises
    <3> QED BY <3>1, <3>3 DEF AlarmTold
  <2>4. ASSUME NEW t \in Times, WriteTime(t) PROVE AlarmTold'
    <3>1. ~AlarmRises /\ owed' = owed
      BY <2>4 DEF WriteTime, AlarmRises
    <3>2. ~AlarmRises'
      BY <2>4, RtcIsSet DEF AlarmRises
    <3> QED BY <3>1, <3>2 DEF AlarmTold
  <2>5. ASSUME NEW a \in Alarms, NEW aie \in BOOLEAN, WriteAlarm(a, aie) PROVE AlarmTold'
    <3>1. ~AlarmRises /\ owed' = owed
      BY <2>0, <2>5 DEF WriteAlarm, JustRead, AlarmRises
    <3>2. ~AlarmRises'
      <4>1. ~rtc.run \/ rtcLag < Second
        BY <2>5 DEF WriteAlarm, JustRead
      <4>2. rtc'.run = rtc.run /\ rtcLag' = rtcLag
        BY <2>5, RtcAlarmed
      <4>3. ~(rtc'.run /\ rtcLag' >= Second)
        BY <2>0, <4>1, <4>2
      <4> QED BY <4>3 DEF AlarmRises
    <3> QED BY <3>1, <3>2 DEF AlarmTold
  <2>6. CASE UNCHANGED rtcVars
    BY <2>6 DEF rtcVars, AlarmTold, AlarmRises
  <2> QED BY <2>1, <2>2, <2>3, <2>4, <2>5, <2>6 DEF RtcNext
<1> QED BY <1>1, <1>2, PTL DEF RtcSpec

-----------------------------------------------------------------------------
(* The watchdogs, SysTick and the cycle counter.                             *)

\* A driver that restarts no SysTick period and gates no counter that runs.
Gentle == ClockRude = {}

\* A watchdog is short of its period by the ticks since it was served.
Served(w, n) == w.reload \in Nat \ {0} /\ w.down \in Nat /\ n \in Nat /\ w.down + n = w.reload

\* A request of SysTick is as far back as the last look that reset the phase.
SysTickInv ==
    /\ tick \in [rvr : Nat, period : Nat]
    /\ ~early /\ tickLag \in Nat /\ gap \in Nat /\ tickLag <= gap /\ gap <= ClockMaxLag

\* The counter is behind by what it has not looked at.
CycleInv ==
    /\ dwt \in [ena : BOOLEAN, trc : BOOLEAN, cyc : Nat] /\ dwt.cyc < MaxCycles
    /\ dwtLag \in Nat /\ gated \in Nat /\ gated < MaxCycles /\ Synced = gated

DogInv ==
    /\ DOMAIN dog = Dog /\ DOMAIN idle = Dog
    /\ dog \in [Dog -> [down : Nat, reload : Nat, flag : BOOLEAN]] /\ idle \in [Dog -> Nat]
    /\ \A d \in Dog : Served(dog[d], idle[d])
    /\ asked \in BOOLEAN /\ asked = missed

\* A watchdog with another count and flag.
LEMMA Recounted ==
    ASSUME NEW v \in [down : Nat, reload : Nat, flag : BOOLEAN], NEW n \in Nat, NEW b \in BOOLEAN
    PROVE  LET w == [v EXCEPT !.down = n, !.flag = b] IN
           w \in [down : Nat, reload : Nat, flag : BOOLEAN] /\ w.down = n /\ w.reload = v.reload /\ w.flag = b
OBVIOUS

\* A tick of the driver tells the dogs whose period it ends.
LEMMA DogsTicked == ASSUME DogInv, TickDogs PROVE DogInv'
<1>1. \A d \in Dog : /\ dog[d] \in [down : Nat, reload : Nat, flag : BOOLEAN] /\ idle[d] \in Nat /\ Served(dog[d], idle[d])
  BY DEF DogInv
<1>2. /\ dog' = [d \in Dog |-> CountDown(dog[d])]
      /\ idle' = [d \in Dog |-> IF idle[d] < dog[d].reload THEN idle[d] + 1 ELSE idle[d]]
      /\ asked' = (asked \/ \E d \in Dog : dog'[d].flag /\ dog[d].down = 1)
      /\ missed' = (missed \/ \E d \in Dog : idle[d] + 1 = dog[d].reload)
  BY DEF TickDogs
<1>3. ASSUME NEW d \in Dog
      PROVE  /\ dog'[d] \in [down : Nat, reload : Nat, flag : BOOLEAN] /\ idle'[d] \in Nat
             /\ Served(dog'[d], idle'[d])
             /\ (dog'[d].flag /\ dog[d].down = 1) = (idle[d] + 1 = dog[d].reload)
  <2>1. CASE dog[d].down = 0
    <3>1. dog'[d] = dog[d]
      BY <1>2, <2>1 DEF CountDown
    <3>2. ~(idle[d] < dog[d].reload) /\ idle[d] + 1 # dog[d].reload
      BY <1>1, <2>1 DEF Served
    <3>3. idle'[d] = idle[d]
      BY <1>2, <3>2
    <3> QED BY <1>1, <2>1, <3>1, <3>2, <3>3
  <2>2. CASE dog[d].down # 0
    <3> DEFINE b == dog[d].flag \/ dog[d].down = 1
    <3> DEFINE w == [dog[d] EXCEPT !.down = dog[d].down - 1, !.flag = b]
    <3>1. dog'[d] = w
      BY <1>2, <2>2 DEF CountDown
    <3>0. b \in BOOLEAN
      OBVIOUS
    <3> HIDE DEF b
    <3>2. /\ w \in [down : Nat, reload : Nat, flag : BOOLEAN] /\ w.down = dog[d].down - 1 /\ w.reload = dog[d].reload
          /\ w.flag = b
      <4>1. dog[d] \in [down : Nat, reload : Nat, flag : BOOLEAN] /\ dog[d].down - 1 \in Nat
        BY <1>1, <2>2
      <4> QED BY <3>0, <4>1, Recounted
    <3>3. idle'[d] = idle[d] + 1
      BY <1>1, <1>2, <2>2 DEF Served
    <3> HIDE DEF w
    <3>4. Served(w, idle[d] + 1)
      BY <1>1, <2>2, <3>2 DEF Served
    <3>5. (w.flag /\ dog[d].down = 1) = (idle[d] + 1 = dog[d].reload)
      <4>1. dog[d].down = 1 => b
        BY DEF b
      <4>2. dog[d].down = 1 <=> idle[d] + 1 = dog[d].reload
        BY <1>1 DEF Served
      <4> QED BY <3>2, <4>1, <4>2
    <3> QED BY <3>1, <3>2, <3>3, <3>4, <3>5, <1>1
  <2> QED BY <2>1, <2>2
<1>4. (\E d \in Dog : dog'[d].flag /\ dog[d].down = 1) = (\E d \in Dog : idle[d] + 1 = dog[d].reload)
  BY <1>3
<1>5. asked' = missed' /\ asked' \in BOOLEAN
  BY <1>2, <1>4 DEF DogInv
<1>6. /\ DOMAIN dog' = Dog /\ DOMAIN idle' = Dog
      /\ dog' \in [Dog -> [down : Nat, reload : Nat, flag : BOOLEAN]] /\ idle' \in [Dog -> Nat]
  BY <1>2, <1>3
<1> QED BY <1>3, <1>5, <1>6 DEF DogInv

\* Serving one dog begins its period and leaves the others alone.
LEMMA DogServed ==
    ASSUME DogInv, NEW d \in Dog, NEW w \in [down : Nat, reload : Nat, flag : BOOLEAN],
           w.down = w.reload, w.reload # 0, Serve(d, w)
    PROVE  DogInv'
<1>1. dog' = [dog EXCEPT ![d] = w] /\ idle' = [idle EXCEPT ![d] = 0] /\ asked' = asked /\ missed' = missed
  BY DEF Serve
<1>2. Served(w, 0)
  BY DEF Served
<1>3. \A e \in Dog : Served(dog'[e], idle'[e])
  BY <1>1, <1>2 DEF DogInv
<1> QED BY <1>1, <1>3 DEF DogInv

\* The cycles that would be counted stay below the modulus.
LEMMA SyncedType ==
    ASSUME ClockAssumption, CycleInv
    PROVE  Synced \in Nat /\ Synced < MaxCycles
BY DEF CycleInv

\* An access to the counter that leaves it at `count'.
LEMMA CyclesAccessed ==
    ASSUME ClockAssumption, CycleInv, NEW u \in [ena : BOOLEAN, trc : BOOLEAN, cyc : Nat], u.cyc < MaxCycles,
           Access(u, u.cyc)
    PROVE  CycleInv'
<1>1. dwt' = u /\ dwtLag' = 0 /\ gated' = u.cyc
  BY DEF Access
<1>2. (u.cyc + 0) % MaxCycles = u.cyc
  BY SmallMod DEF ClockAssumption
<1>3. Synced' = u.cyc
  BY <1>1, <1>2 DEF Synced
<1> QED BY <1>1, <1>3 DEF CycleInv

\* An instruction is a cycle if both gates are open, and one more since the last request.
LEMMA ClocksPass ==
    ASSUME ClockAssumption, SysTickInv, CycleInv, ClockPass
    PROVE  SysTickInv' /\ CycleInv'
<1>1. SysTickInv'
  <2>1. CASE "systick" \in Clocks
    <3>1. tickLag' = tickLag + 1 /\ tickLag < ClockMaxLag /\ gap' = Up(gap) /\ early' = early /\ tick' = tick
      BY <2>1 DEF ClockPass
    <3> QED BY <3>1 DEF SysTickInv, Up, ClockAssumption
  <2>2. CASE "systick" \notin Clocks
    BY <2>2 DEF ClockPass, SysTickInv
  <2> QED BY <2>1, <2>2
<1>2. CycleInv'
  <2>1. CASE "cycles" \in Clocks
    <3>1. /\ dwt' = dwt /\ dwtLag' = dwtLag + 1
          /\ gated' = IF dwt.ena /\ dwt.trc THEN (gated + 1) % MaxCycles ELSE gated
      BY <2>1 DEF ClockPass
    <3>2. MaxCycles \in Nat \ {0} /\ dwt.cyc \in Nat /\ dwtLag \in Nat /\ gated \in Nat /\ gated < MaxCycles
      BY DEF ClockAssumption, CycleInv
    <3>3. CASE dwt.ena /\ dwt.trc
      <4>1. Synced = (dwt.cyc + dwtLag) % MaxCycles /\ Synced = gated
        BY <3>3 DEF Synced, CycleInv
      <4>2. Synced' = (dwt.cyc + (dwtLag + 1)) % MaxCycles
        BY <3>1, <3>3 DEF Synced
      <4>3. dwt.cyc + dwtLag \in Nat /\ dwt.cyc + (dwtLag + 1) = (dwt.cyc + dwtLag) + 1
        BY <3>2
      <4>4. Synced' = (gated + 1) % MaxCycles
        BY <3>2, <4>1, <4>2, <4>3, ModNext
      <4>5. (gated + 1) % MaxCycles \in Nat /\ (gated + 1) % MaxCycles < MaxCycles
        BY <3>2
      <4> QED BY <3>1, <3>2, <3>3, <4>4, <4>5 DEF CycleInv
    <3>4. CASE ~(dwt.ena /\ dwt.trc)
      <4>1. gated' = gated /\ Synced' = Synced
        BY <3>1, <3>4 DEF Synced
      <4> QED BY <3>1, <3>2, <4>1 DEF CycleInv
    <3> QED BY <3>3, <3>4
  <2>2. CASE "cycles" \notin Clocks
    <3>1. dwt' = dwt /\ dwtLag' = dwtLag /\ gated' = gated
      BY <2>2 DEF ClockPass
    <3> QED BY <3>1 DEF CycleInv, Synced
  <2> QED BY <2>1, <2>2
<1> QED BY <1>1, <1>2

ClocksInv == DogInv /\ SysTickInv /\ CycleInv

\* A clock that is reset.
LEMMA ClocksBegin == ASSUME ClockAssumption, ClockInit PROVE ClocksInv
<1>1. DogInv
  <2>1. asked = FALSE /\ missed = FALSE
    BY DEF ClockInit
  <2>2. \A d \in Dog : Served(dog[d], idle[d])
    BY DEF ClockInit, ClockAssumption, Served
  <2>3. /\ DOMAIN dog = Dog /\ DOMAIN idle = Dog
        /\ dog \in [Dog -> [down : Nat, reload : Nat, flag : BOOLEAN]] /\ idle \in [Dog -> Nat]
    BY DEF ClockInit, ClockAssumption
  <2> QED BY <2>1, <2>2, <2>3 DEF DogInv
<1>2. SysTickInv
  BY DEF ClockInit, ClockAssumption, SysTickInv
<1>3. CycleInv
  BY DEF ClockInit, ClockAssumption, CycleInv, Synced
<1> QED BY <1>1, <1>2, <1>3 DEF ClocksInv

\* A step of the others leaves alone the dogs,
LEMMA DogsAlone == ASSUME DogInv, UNCHANGED dogVars PROVE DogInv'
BY DEF dogVars, DogInv

\* SysTick,
LEMMA TickAlone == ASSUME SysTickInv, UNCHANGED tickVars PROVE SysTickInv'
BY DEF tickVars, SysTickInv

\* the counter.
LEMMA CyclesAlone == ASSUME CycleInv, UNCHANGED cycleVars PROVE CycleInv'
BY DEF cycleVars, CycleInv, Synced

\* Every step keeps the invariant.
LEMMA ClocksStep == ASSUME ClockAssumption, Gentle, ClocksInv, [ClockNext]_clockVars PROVE ClocksInv'
<1>0. DogInv /\ SysTickInv /\ CycleInv
  BY DEF ClocksInv
<1>1. CASE ClockPass
  <2>1. UNCHANGED dogVars
    BY <1>1 DEF ClockPass
  <2> QED BY <1>0, <1>1, <2>1, ClocksPass, DogsAlone DEF ClocksInv
<1>2. CASE TickDogs
  <2>1. UNCHANGED tickVars /\ UNCHANGED cycleVars
    BY <1>2 DEF TickDogs, tickVars
  <2> QED BY <1>0, <1>2, <2>1, DogsTicked, TickAlone, CyclesAlone DEF ClocksInv
<1>3. CASE AskReset
  <2>1. UNCHANGED tickVars /\ UNCHANGED cycleVars
    BY <1>3 DEF AskReset, tickVars
  <2>2. DogInv'
    BY <1>0, <1>3 DEF AskReset, DogInv
  <2> QED BY <1>0, <2>1, <2>2, TickAlone, CyclesAlone DEF ClocksInv
<1>4. ASSUME NEW d \in Dog, WriteWdtrr(d) \/ \E n \in Periods : WriteWdtcr(d, n) PROVE ClocksInv'
  <2>0. dog[d] \in [down : Nat, reload : Nat, flag : BOOLEAN] /\ dog[d].reload # 0
    BY <1>0 DEF DogInv, Served
  <2>1. PICK w \in [down : Nat, reload : Nat, flag : BOOLEAN] : Serve(d, w) /\ w.down = w.reload /\ w.reload # 0
    <3>1. CASE WriteWdtrr(d)
      <4> DEFINE w == [dog[d] EXCEPT !.down = dog[d].reload, !.flag = FALSE]
      <4>1. Serve(d, w)
        BY <3>1 DEF WriteWdtrr
      <4>2. w \in [down : Nat, reload : Nat, flag : BOOLEAN] /\ w.down = w.reload /\ w.reload # 0
        BY <2>0
      <4> QED BY <4>1, <4>2
    <3>2. ASSUME NEW n \in Periods, WriteWdtcr(d, n)
          PROVE \E w \in [down : Nat, reload : Nat, flag : BOOLEAN] : Serve(d, w) /\ w.down = w.reload /\ w.reload # 0
      <4> DEFINE w == [dog[d] EXCEPT !.down = n, !.reload = n]
      <4>1. Serve(d, w)
        BY <3>2 DEF WriteWdtcr
      <4>2. w \in [down : Nat, reload : Nat, flag : BOOLEAN] /\ w.down = w.reload /\ w.reload # 0
        BY <2>0 DEF ClockAssumption
      <4> QED BY <4>1, <4>2
    <3> QED BY <1>4, <3>1, <3>2
  <2>2. UNCHANGED tickVars /\ UNCHANGED cycleVars
    BY <2>1 DEF Serve, tickVars
  <2> QED BY <1>0, <2>1, <2>2, DogServed, TickAlone, CyclesAlone DEF ClocksInv
<1>5. CASE LookSysTick
  <2>1. UNCHANGED dogVars /\ UNCHANGED cycleVars
    BY <1>5 DEF LookSysTick
  <2>2. SysTickInv'
    <3>1. tickLag' = 0 /\ gap' = 0 /\ early' = (early \/ gap <= tick.period) /\ tickLag > tick.period /\ tick' = tick
      BY <1>5 DEF LookSysTick, TickDue
    <3>2. tick.period \in Nat /\ tickLag \in Nat /\ gap \in Nat /\ tickLag <= gap /\ ~early /\ ClockMaxLag \in Nat
      BY <1>0 DEF SysTickInv, ClockAssumption
    <3>3. ~(gap <= tick.period)
      BY <3>1, <3>2
    <3>4. ~early'
      BY <3>1, <3>2, <3>3
    <3> QED BY <1>0, <3>1, <3>2, <3>4 DEF SysTickInv
  <2> QED BY <1>0, <2>1, <2>2, DogsAlone, CyclesAlone DEF ClocksInv
<1>6. CASE WriteCvr
  <2>1. UNCHANGED dogVars /\ UNCHANGED cycleVars
    BY <1>6 DEF WriteCvr
  <2>2. SysTickInv'
    BY <1>0, <1>6 DEF WriteCvr, SysTickInv
  <2> QED BY <1>0, <2>1, <2>2, DogsAlone, CyclesAlone DEF ClocksInv
<1>7. ASSUME NEW enable \in BOOLEAN, WriteCsr(enable) PROVE ClocksInv'
  <2>1. UNCHANGED dogVars /\ UNCHANGED cycleVars
    BY <1>7 DEF WriteCsr
  <2>2. SysTickInv'
    <3> DEFINE period == IF enable /\ tick.rvr # 0 THEN tick.rvr ELSE 0
    <3>1. period \in Nat
      BY <1>0 DEF SysTickInv
    <3>2. /\ tick' = [tick EXCEPT !.period = period] /\ tickLag' = tickLag /\ early' = early
          /\ gap' = gap \/ gap' = ClockMaxLag
      BY <1>7 DEF WriteCsr, Gentle
    <3> HIDE DEF period
    <3> QED BY <1>0, <3>1, <3>2 DEF SysTickInv, ClockAssumption
  <2> QED BY <1>0, <2>1, <2>2, DogsAlone, CyclesAlone DEF ClocksInv
<1>8. ASSUME NEW n \in Reloads, WriteRvr(n) PROVE ClocksInv'
  <2>1. UNCHANGED dogVars /\ UNCHANGED cycleVars
    BY <1>8 DEF WriteRvr
  <2>2. SysTickInv'
    BY <1>0, <1>8 DEF WriteRvr, SysTickInv, ClockAssumption
  <2> QED BY <1>0, <2>1, <2>2, DogsAlone, CyclesAlone DEF ClocksInv
<1>9. ASSUME NEW u \in [ena : BOOLEAN, trc : BOOLEAN, cyc : Nat], u.cyc < MaxCycles, Access(u, u.cyc) PROVE ClocksInv'
  <2>1. UNCHANGED dogVars /\ UNCHANGED tickVars
    BY <1>9 DEF Access, tickVars
  <2> QED BY <1>0, <1>9, <2>1, CyclesAccessed, DogsAlone, TickAlone DEF ClocksInv
<1>10. dwt \in [ena : BOOLEAN, trc : BOOLEAN, cyc : Nat] /\ Synced = gated /\ Synced \in Nat /\ Synced < MaxCycles
  BY <1>0, SyncedType DEF CycleInv
<1>11. CASE ReadCyccnt
  <2> DEFINE u == [dwt EXCEPT !.cyc = Synced]
  <2>1. u \in [ena : BOOLEAN, trc : BOOLEAN, cyc : Nat] /\ u.cyc = gated
    BY <1>10
  <2>2. Access(u, gated)
    BY <1>11 DEF ReadCyccnt
  <2> HIDE DEF u
  <2> QED BY <1>9, <1>10, <2>1, <2>2
<1>12. ASSUME NEW on \in BOOLEAN, WriteCtrl(on) PROVE ClocksInv'
  <2> DEFINE u == [dwt EXCEPT !.cyc = Synced, !.ena = on]
  <2>1. u \in [ena : BOOLEAN, trc : BOOLEAN, cyc : Nat] /\ u.cyc = gated
    BY <1>10
  <2>2. Access(u, gated)
    BY <1>12 DEF WriteCtrl
  <2> HIDE DEF u
  <2> QED BY <1>9, <1>10, <2>1, <2>2
<1>13. ASSUME NEW on \in BOOLEAN, WriteDemcr(on) PROVE ClocksInv'
  <2>1. dwt' = [dwt EXCEPT !.trc = on] /\ ~dwt.ena /\ dwtLag' = dwtLag /\ gated' = gated
    BY <1>13 DEF WriteDemcr, Gentle
  <2>2. dwt' \in [ena : BOOLEAN, trc : BOOLEAN, cyc : Nat] /\ dwt'.cyc = dwt.cyc /\ ~dwt'.ena
    BY <1>10, <2>1
  <2>3. Synced' = dwt.cyc /\ Synced = dwt.cyc
    BY <2>1, <2>2 DEF Synced
  <2>4. CycleInv'
    BY <1>0, <2>1, <2>2, <2>3 DEF CycleInv
  <2>5. UNCHANGED dogVars /\ UNCHANGED tickVars
    BY <1>13 DEF WriteDemcr, tickVars
  <2> QED BY <1>0, <2>4, <2>5, DogsAlone, TickAlone DEF ClocksInv
<1>14. ASSUME NEW n \in {0, 1}, WriteCyccnt(n) PROVE ClocksInv'
  <2> DEFINE u == [dwt EXCEPT !.cyc = n]
  <2>1. u \in [ena : BOOLEAN, trc : BOOLEAN, cyc : Nat] /\ u.cyc = n /\ n < MaxCycles
    BY <1>10 DEF ClockAssumption
  <2>2. Access(u, n)
    BY <1>14 DEF WriteCyccnt
  <2> HIDE DEF u
  <2> QED BY <1>9, <2>1, <2>2
<1>15. CASE UNCHANGED clockVars
  BY <1>0, <1>15, DogsAlone, TickAlone, CyclesAlone DEF clockVars, tickVars, ClocksInv
<1> QED
  BY <1>1, <1>2, <1>3, <1>4, <1>5, <1>6, <1>7, <1>8, <1>11, <1>12, <1>13, <1>14, <1>15 DEF ClockNext

\* For any number of watchdogs, periods, reloads and bounds, whenever the driver and
\* firmware look: a reset is asked for exactly when a watchdog was left alone for its period,
\* requests of SysTick are more than a period apart, and the cycles counted are those
\* for which both gates were open.
THEOREM ClocksAreKept == ASSUME ClockAssumption, Gentle PROVE ClockSpec => []ClocksKept
<1>1. ClockInit => ClocksInv
  BY ClocksBegin
<1>2. ClocksInv /\ [ClockNext]_clockVars => ClocksInv'
  BY ClocksStep
<1>3. ClocksInv => ClocksKept
  BY DEF ClocksInv, DogInv, SysTickInv, CycleInv, ClocksKept, WatchdogTells, TicksApart, CyclesGated
<1> QED BY <1>1, <1>2, <1>3, PTL DEF ClockSpec
=============================================================================
