------------------------------ MODULE ThumbArith -----------------------------
(***************************************************************************)
(* The interpreter's arithmetic on FP words (cpu/thumb.rs): the fused         *)
(* multiply-add, the directed divide and square root and their common         *)
(* rounding, the conversions to and from half precision.  A word has a sign,  *)
(* E exponent bits and F fraction bits in place of 1, 8 and 23, a half HE and *)
(* HF in place of 5 and 10.  NaN operands, FZ and DN are left out.            *)
(***************************************************************************)
EXTENDS Integers

CONSTANTS
    F, E, HF, HE,
    Limit,        \* a shift that fpu_pack takes to leave nothing; 128 in the code
    NarrowLimit,  \* the same of f32_to_f16_bits; 32 in the code
    First, Second, Third,   \* the operands tried, by place
    RModes,       \* rounding modes: nearest, up, down, to zero
    Kinds         \* the operations tried

VARIABLE sum      \* the last operation, its operands and its result

Idle == [k |-> "none"]
Init == sum = Idle

-----------------------------------------------------------------------------
(* Words.                                                                    *)

Bias(e)  == 2 ^ (e - 1) - 1
Emax     == Bias(E)
Emin     == 1 - Bias(E)
Hidden   == 2 ^ F
SignBit  == 2 ^ (E + F)
Inf      == (2 ^ E - 1) * Hidden
NaN      == Inf + Hidden \div 2

Sign(w)  == w \div SignBit
Mag(w)   == w % SignBit
IsInf(w) == Mag(w) = Inf
With(s, m) == s * SignBit + m

Result(w, fl) == [w |-> w, fl |-> fl]

\* The length of a number in bits.
Bits(n) == CHOOSE l \in 0..40 : n < 2 ^ l /\ (l > 0 => n >= 2 ^ (l - 1))

\* fpu_norm: sign, exponent, and mantissa with its hidden bit.
Norm(w) ==
    LET e == Mag(w) \div Hidden
        f == w % Hidden
        sh == F - Bits(f)
    IN  IF e = 0 THEN [s |-> Sign(w), e |-> -Bias(E) - sh, m |-> Hidden + ((f * 2 ^ (sh + 1)) % Hidden)]
        ELSE [s |-> Sign(w), e |-> e - Bias(E), m |-> f + Hidden]

-----------------------------------------------------------------------------
(* Rounding.                                                                 *)

\* Mutant: a tie goes up.
RoundUpTies(rest, drop, lsb, rm, neg) ==
    /\ rest # 0
    /\ CASE rm = 0 -> (rest \div 2 ^ (drop - 1)) % 2 = 1
         [] rm = 1 -> ~neg
         [] rm = 2 -> neg
         [] OTHER  -> FALSE

RoundUp(rest, drop, lsb, rm, neg) ==
    /\ rest # 0
    /\ CASE rm = 0 -> (rest \div 2 ^ (drop - 1)) % 2 = 1 /\ (rest % (2 ^ (drop - 1)) # 0 \/ lsb = 1)
         [] rm = 1 -> ~neg
         [] rm = 2 -> neg
         [] OTHER  -> FALSE

One(b) == IF b THEN 1 ELSE 0

Overflow(s, rm) ==
    Result(With(s, IF rm = 0 \/ (rm = 1 /\ s = 0) \/ (rm = 2 /\ s = 1) THEN Inf ELSE Inf - 1),
           {"OFC", "IXC"})

\* fpu_fma_subnormal
Subnormal(kept, below, s, rm, sh) ==
    LET q == kept \div 2 ^ sh
        guard == (kept \div 2 ^ (sh - 1)) % 2
        sticky == below \/ kept % (2 ^ (sh - 1)) # 0
        k == q + One(RoundUp(guard * 2 + One(sticky), 2, q % 2, rm, s # 0))
    IN  IF k >= Hidden THEN Result(With(s, Hidden), {"UFC", "IXC"})
        ELSE Result(With(s, k), IF guard # 0 \/ sticky THEN {"UFC", "IXC"} ELSE {})

\* fpu_pack: kept has two bits more than the fraction, and value kept * 2^(exp - F - 1).
Pack(kept, sticky, exp, s, rm) ==
    LET guard == kept % 2
        k  == kept \div 2 + One(RoundUp(guard * 2 + One(sticky), 2, (kept \div 2) % 2, rm, s # 0))
        e  == IF k = 2 * Hidden THEN exp + 1 ELSE exp
        sh == Emin + 1 - exp
    IN  IF exp >= Emin
        THEN IF exp > Emax \/ e > Emax THEN Overflow(s, rm)
             ELSE Result(With(s, (e + Bias(E)) * Hidden + (k % Hidden)), IF guard # 0 \/ sticky THEN {"IXC"} ELSE {})
        ELSE IF sh >= Limit THEN Result(With(s, 0), {"UFC", "IXC"})
        ELSE Subnormal(kept, sticky, s, rm, sh)

-----------------------------------------------------------------------------
(* The reference: the exact quotient num/den, in units of the smallest word    *)
(* of a format, rounded to a neighbour among all its words.  Magnitudes are    *)
(* ordered as their words, and what overflows is the infinite word's.         *)

Single == [f |-> F, e |-> E]
Half   == [f |-> HF, e |-> HE]

SignBitOf(t) == 2 ^ (t.e + t.f)
InfOf(t)     == (2 ^ t.e - 1) * 2 ^ t.f

Units(w, t) ==
    LET m == w % SignBitOf(t)
        e == m \div 2 ^ t.f
    IN  IF e = 0 THEN m ELSE ((m % (2 ^ t.f)) + 2 ^ t.f) * 2 ^ (e - 1)

Signed(w, t) == IF w < SignBitOf(t) THEN Units(w, t) ELSE -Units(w, t)
UnitsOfOne   == 2 ^ (F - Emin)
UnitsOfHalf  == 2 ^ ((1 - Bias(HE) - HF) - (Emin - F))

Abs(n) == IF n < 0 THEN -n ELSE n

Rounded(num, den, rm, t) ==
    LET s  == One(num < 0)
        n  == Abs(num)
        lo == CHOOSE w \in 0..InfOf(t) :
                 Units(w, t) * den <= n /\ (w < InfOf(t) => n < Units(w + 1, t) * den)
        exact == lo < InfOf(t) /\ Units(lo, t) * den = n
        mid   == (Units(lo, t) + Units(lo + 1, t)) * den
        away  == CASE rm = 0 -> lo = InfOf(t) \/ 2 * n > mid \/ (2 * n = mid /\ lo % 2 = 1)
                   [] rm = 1 -> s = 0
                   [] rm = 2 -> s = 1
                   [] OTHER  -> FALSE
        m == IF exact THEN lo ELSE IF lo = InfOf(t) THEN lo - One(~away) ELSE lo + One(away)
    IN  [w |-> s * SignBitOf(t) + m,
         fl |-> IF exact THEN {}
                ELSE {"IXC"} \cup (IF lo = InfOf(t) \/ m = InfOf(t) THEN {"OFC"} ELSE {})
                             \cup (IF lo < 2 ^ t.f THEN {"UFC"} ELSE {})]

-----------------------------------------------------------------------------
(* Fused multiply-add.                                                       *)

\* The two terms at the larger exponent: acc, the product, and whether bits were lost.
Aligned(x, p) ==
    LET c == x.m * Hidden
        d == Abs(p.e - x.e)
        shifted(v) == v \div 2 ^ d
        lost(v) == v % (2 ^ d) # 0
    IN  IF p.e >= x.e THEN [c |-> shifted(c), p |-> p.m, e |-> p.e, lost |-> lost(c)]
        ELSE [c |-> c, p |-> shifted(p.m), e |-> x.e, lost |-> lost(p.m)]

Product(a, b, sub) ==
    LET y == Norm(a)
        z == Norm(b)
    IN  [s |-> (y.s + z.s + sub) % 2, e |-> y.e + z.e, m |-> y.m * z.m]

FmaFinite(acc, a, b, sub, rm) ==
    LET x == Norm(acc)
        p == Product(a, b, sub)
        t == Aligned(x, p)
        mag == IF x.s = p.s THEN t.p + t.c ELSE Abs(t.c - t.p)
        s == IF x.s = p.s \/ t.c >= t.p THEN x.s ELSE p.s
        drop == Bits(mag) - (F + 2)
        kept == IF drop > 0 THEN mag \div 2 ^ drop ELSE mag * 2 ^ (-drop)
        rest == IF drop > 0 THEN mag % (2 ^ drop) ELSE 0
    IN  IF mag = 0 THEN Result(With(One(rm = 2), 0), {})
        ELSE Pack(kept, t.lost \/ rest # 0, t.e + drop - (F - 1), s, rm)

\* A zero addend: the host multiplies, exactly in f64, and rounds (fpu_mul).  Its
\* flags are read off the rounded word.
HostFlags(w) == IF IsInf(w) THEN {"OFC", "IXC"} ELSE IF Mag(w) \in 1..(Hidden - 1) THEN {"UFC", "IXC"} ELSE {}

HostMul(a, b, sub, rm) ==
    LET r == Rounded((1 - 2 * sub) * Signed(a, Single) * Signed(b, Single), UnitsOfOne, rm, Single)
    IN  Result(With((Sign(a) + Sign(b) + sub) % 2, Mag(r.w)),
               HostFlags(r.w) \cup (r.fl \cap {"IXC"}))

Fma(acc, a, b, sub, rm) ==
    LET ps == (Sign(a) + Sign(b) + sub) % 2 IN
    CASE (a = 0 /\ IsInf(b)) \/ (IsInf(a) /\ b = 0) -> Result(NaN, {"IOC"})
      [] (a = 0 /\ ~IsInf(b)) \/ (b = 0 /\ ~IsInf(a)) ->
            IF acc # 0 THEN Result(acc, {})
            ELSE Result(With(One(rm = 2), 0), {})
      [] a # 0 /\ b # 0 /\ (IsInf(a) \/ IsInf(b)) ->
            IF IsInf(acc) /\ Sign(acc) # ps THEN Result(NaN, {"IOC"}) ELSE Result(With(ps, Inf), {})
      [] OTHER ->
            IF IsInf(acc) THEN Result(acc, {})
            ELSE IF acc = 0 THEN HostMul(a, b, sub, rm)
            ELSE FmaFinite(acc, a, b, sub, rm)

FusedMultiplyAdd ==
    /\ sum = Idle /\ "fma" \in Kinds
    /\ \E acc \in First, a \in Second, b \in Third, sub \in {0, 1}, rm \in RModes :
          sum' = [k |-> "fma", acc |-> acc, a |-> a, b |-> b, sub |-> sub, rm |-> rm,
                  out |-> Fma(acc, a, b, sub, rm)]

-----------------------------------------------------------------------------
(* Directed division and square root; to the nearest, the host does them.    *)

DivExact(a, b, rm) ==
    LET x == Norm(a)
        y == Norm(b)
        num == x.m * 2 ^ (F + 3)
        q == num \div y.m
        wide == q >= 2 ^ (F + 3)
    IN  Pack(IF wide THEN q \div 4 ELSE q \div 2,
             q % (IF wide THEN 4 ELSE 2) # 0 \/ num % y.m # 0,
             x.e - y.e - One(~wide), (x.s + y.s) % 2, rm)

Divide ==
    /\ sum = Idle /\ "div" \in Kinds
    /\ \E a \in First, b \in Second, rm \in RModes \ {0} :
          /\ Mag(a) \in 1..(Inf - 1) /\ Mag(b) \in 1..(Inf - 1)
          /\ sum' = [k |-> "div", a |-> a, b |-> b, rm |-> rm, out |-> DivExact(a, b, rm)]

\* isqrt_u128: Newton's iteration from a power of two above the root.
RECURSIVE Newton(_, _)
Newton(n, x) == LET y == (x + n \div x) \div 2 IN IF y >= x THEN x ELSE Newton(n, y)
Isqrt(n) == IF n = 0 THEN 0 ELSE Newton(n, 2 ^ ((Bits(n) + 1) \div 2))

\* The mantissa is given an even exponent, and more bits than the root is to keep.
SqrtExact(a, rm) ==
    LET x == Norm(a)
        odd == (x.e - F) % 2 = 1
        f == (x.e - F - One(odd)) \div 2
        big == x.m * (IF odd THEN 2 ELSE 1) * 2 ^ (2 * (F + 3))
        sq == Isqrt(big)
        top == Bits(sq)
        sh == top - (F + 2)
    IN  Pack(sq \div 2 ^ sh, sq % (2 ^ sh) # 0 \/ sq * sq # big, f + sh - 2, x.s, rm)

SquareRoot ==
    /\ sum = Idle /\ "sqrt" \in Kinds
    /\ \E a \in First, rm \in RModes \ {0} :
          /\ a \in 1..(Inf - 1)
          /\ sum' = [k |-> "sqrt", a |-> a, rm |-> rm, out |-> SqrtExact(a, rm)]

-----------------------------------------------------------------------------
(* Half precision.                                                           *)

NarrowWord(w, rm) ==
    LET s  == Sign(w)
        e  == Mag(w) \div Hidden
        f  == w % Hidden
        sh == F - Bits(f)
        exp  == IF e = 0 THEN -Bias(E) - sh ELSE e - Bias(E)
        mant == Hidden + (IF e = 0 THEN (f * 2 ^ sh) % Hidden ELSE f)
        h    == exp + Bias(HE)
        drop == F - HF + (IF h <= 0 THEN 1 - h ELSE 0)
        rest == mant % (2 ^ drop)
        k    == mant \div 2 ^ drop
                + One(RoundUp(rest, drop, (mant \div 2 ^ drop) % 2, rm, s # 0))
        half(m, fl) == Result(s * SignBitOf(Half) + m, fl)
        tiny(m) == half(m, IF rest # 0 THEN {"UFC", "IXC"} ELSE {})
        normal(m) == IF m >= InfOf(Half) THEN half(InfOf(Half), {"OFC", "IXC"})
                     ELSE half(m, IF rest # 0 THEN {"IXC"} ELSE {})
    IN  CASE Mag(w) = Inf -> half(InfOf(Half), {})
          [] Mag(w) = 0 -> half(0, {})
          [] Mag(w) \in 1..(Inf - 1) /\ h >= 2 ^ HE - 1 -> half(InfOf(Half), {"OFC", "IXC"})
          [] Mag(w) \in 1..(Inf - 1) /\ h <= 0 ->
                IF drop >= NarrowLimit THEN half(0, {"UFC", "IXC"})
                ELSE tiny(IF k >= 2 ^ HF THEN 2 ^ HF ELSE k)
          [] OTHER ->
                normal(IF k >= 2 ^ (HF + 1) THEN (h + 1) * 2 ^ HF ELSE h * 2 ^ HF + (k % (2 ^ HF)))

WidenWord(v) ==
    LET s  == v \div SignBitOf(Half)
        e  == (v % SignBitOf(Half)) \div 2 ^ HF
        f  == v % (2 ^ HF)
        sh == HF - Bits(f)
        up == Bias(E) - Bias(HE)
        wide(e32, m) == With(s, e32 * Hidden + m * 2 ^ (F - HF))
    IN  IF e = 2 ^ HE - 1 THEN With(s, Inf)
        ELSE IF e # 0 THEN wide(e + up, f)
        ELSE IF f = 0 THEN With(s, 0) ELSE wide(up - sh, (f * 2 ^ (sh + 1)) % (2 ^ HF))

Narrow ==
    /\ sum = Idle /\ "narrow" \in Kinds
    /\ \E a \in First, rm \in RModes :
          sum' = [k |-> "narrow", a |-> a, rm |-> rm, out |-> NarrowWord(a, rm)]

Widen ==
    /\ sum = Idle /\ "widen" \in Kinds
    /\ \E v \in 0..(2 * SignBitOf(Half) - 1) :
          /\ v % SignBitOf(Half) <= InfOf(Half)
          /\ sum' = [k |-> "widen", a |-> v, out |-> WidenWord(v)]

Again == sum # Idle /\ sum' = Idle

Next == FusedMultiplyAdd \/ Divide \/ SquareRoot \/ Narrow \/ Widen \/ Again

Spec == Init /\ [][Next]_sum

-----------------------------------------------------------------------------
(* Properties.                                                               *)

\* The same word and flags, but for the sign of a zero.
Same(r, s, t) ==
    /\ r.fl = s.fl
    /\ r.w = s.w \/ (r.w % SignBitOf(t) = 0 /\ s.w % SignBitOf(t) = 0)

FmaNum == Signed(sum.acc, Single) * UnitsOfOne
          + (1 - 2 * sum.sub) * Signed(sum.a, Single) * Signed(sum.b, Single)

FmaFiniteCase == sum.k = "fma" /\ ~IsInf(sum.acc) /\ ~IsInf(sum.a) /\ ~IsInf(sum.b)

\* VFMA and its relatives round once: the result is the exact sum of the addend and
\* the product, rounded ("exact via u128 integer arithmetic", thumb.rs:330-333).
FmaExact == FmaFiniteCase => Same(sum.out, Rounded(FmaNum, UnitsOfOne, sum.rm, Single), Single)

\* Where the code does sum exactly: the product is not left to the host, no operand
\* is a negative zero, and terms of opposite sign overlap.
Overlap ==
    \/ 0 \in {sum.a, sum.b}
    \/ Sign(sum.acc) = Product(sum.a, sum.b, sum.sub).s
    \/ ~Aligned(Norm(sum.acc), Product(sum.a, sum.b, sum.sub)).lost

\* In a directed mode, a value too small for fpu_pack to tell from nothing.
Vanishes(num, den) == sum.rm # 0 /\ Abs(num) * 2 ^ (Limit - F - 2) < den

FmaHolds ==
    /\ FmaFiniteCase /\ SignBit \notin {sum.acc, sum.a, sum.b} /\ ~Vanishes(FmaNum, UnitsOfOne)
       /\ (sum.acc = 0 => 0 \in {sum.a, sum.b}) /\ Overlap
          => FmaExact
    /\ sum.k = "fma" /\ ~FmaFiniteCase /\ SignBit \notin {sum.a, sum.b} =>
          LET ps == (Sign(sum.a) + Sign(sum.b) + sum.sub) % 2
              infinite == IsInf(sum.a) \/ IsInf(sum.b)
              invalid == \/ infinite /\ 0 \in {sum.a, sum.b}
                         \/ infinite /\ IsInf(sum.acc) /\ Sign(sum.acc) # ps
          IN  sum.out = IF invalid THEN Result(NaN, {"IOC"})
                        ELSE Result(IF infinite THEN With(ps, Inf) ELSE sum.acc, {})

DivHolds ==
    sum.k = "div" =>
        LET num == (1 - 2 * Sign(sum.b)) * Signed(sum.a, Single) * UnitsOfOne
            den == Units(sum.b, Single)
        IN  Vanishes(num, den) \/ Same(sum.out, Rounded(num, den, sum.rm, Single), Single)

SqrtHolds ==
    sum.k = "sqrt" =>
        LET r == sum.out.w
            square(w) == Units(w, Single) * Units(w, Single)
            exact == Signed(sum.a, Single) * UnitsOfOne
        IN  /\ IF sum.rm = 1 THEN square(r - 1) < exact /\ exact <= square(r)
               ELSE square(r) <= exact /\ exact < square(r + 1)
            /\ sum.out.fl = IF square(r) = exact THEN {} ELSE {"IXC"}

\* The directed modes of a conversion to half hold within its range.
InHalfRange ==
    LET n == Abs(Signed(sum.a, Single)) IN
    /\ n < Units(InfOf(Half), Half) * UnitsOfHalf
    /\ n = 0 \/ n * 2 ^ (NarrowLimit - F - 1) >= UnitsOfHalf

NarrowHolds ==
    sum.k = "narrow" =>
        IF IsInf(sum.a) THEN sum.out = Result(Sign(sum.a) * SignBitOf(Half) + InfOf(Half), {})
        ELSE /\ sum.rm = 0 \/ InHalfRange =>
                  Same(sum.out, Rounded(Signed(sum.a, Single), UnitsOfHalf, sum.rm, Half), Half)
             /\ sum.out.w \div SignBitOf(Half) = Sign(sum.a)

WidenHolds ==
    sum.k = "widen" =>
        /\ Sign(sum.out) = sum.a \div SignBitOf(Half)
        /\ IF sum.a % SignBitOf(Half) = InfOf(Half) THEN IsInf(sum.out)
           ELSE Signed(sum.out, Single) = Signed(sum.a, Half) * UnitsOfHalf

\* Every result is the exact one, rounded as its instruction says, and
\* the flags say whether it is, whatever the operands; the code's known exceptions
\* (FmaExact; directed modes at the ends of the range) are left open.
ArithExact == FmaHolds /\ DivHolds /\ SqrtHolds /\ NarrowHolds /\ WidenHolds
=============================================================================
