------------------------------- MODULE ThumbVfp ------------------------------
(***************************************************************************)
(* The FPU's registers in the interpreter (cpu/thumb.rs, exec_fpu): moves,   *)
(* loads and stores of one or many, FPSCR, comparison, the conversions to     *)
(* and from integers and fixed point, and arithmetic on NaNs, infinities and  *)
(* zeros.  ThumbArith has the arithmetic on numbers.  A word has a sign, E    *)
(* exponent bits and F fraction bits, and an integer has as many bits.        *)
(***************************************************************************)
EXTENDS Integers, FiniteSets

CONSTANTS
    F, E,
    Slots,      \* S registers; half as many D registers
    Reg, SP, PC,
    Instr,      \* the instructions tried
    States      \* the registers, FPSCR and memory they are tried with

VARIABLES
    s, r, cells,    \* S registers, core registers, words of memory
    fpscr,          \* cumulative flags, comparison flags, rm, fz, dn
    apsr,           \* the comparison flags of the core
    fpca,           \* CONTROL.FPCA
    refused,        \* the instruction is a fault
    last            \* the last instruction

vfpVars == <<s, r, cells, fpscr, apsr, fpca, refused, last>>

Idle == [k |-> "none"]

Init ==
    /\ \E f \in States : s = f.s /\ r = f.r /\ cells = f.cells /\ fpscr = f.fpscr
    /\ apsr = {} /\ fpca = FALSE /\ refused = FALSE /\ last = Idle

-----------------------------------------------------------------------------
(* Words.                                                                    *)

Hidden  == 2 ^ F
SignBit == 2 ^ (E + F)
Size    == 2 * SignBit
Inf     == (2 ^ E - 1) * Hidden
Quiet   == Hidden \div 2
NaN     == Inf + Quiet

Sign(w) == w \div SignBit
Mag(w)  == w % SignBit
Neg(w)  == (w + SignBit) % Size
With(sign, m) == sign * SignBit + m

Subnormal(w) == Mag(w) \in 1..(Hidden - 1)
IsInf(w)  == Mag(w) = Inf
IsNaN(w)  == Mag(w) > Inf
IsSNaN(w) == IsNaN(w) /\ Mag(w) - Inf < Quiet
IsZero(w) == Mag(w) = 0

\* fpu_flush and fpu_dn.
Flush(w) == IF fpscr.fz /\ Subnormal(w) THEN With(Sign(w), 0) ELSE w
Dn(w) == IF fpscr.dn /\ IsNaN(w) THEN NaN ELSE w

\* A number in units of the smallest subnormal, of which One is 1.
One == 2 ^ (2 ^ (E - 1) - 2 + F)
Units(m) == IF m < Hidden THEN m ELSE (Hidden + (m % Hidden)) * 2 ^ (m \div Hidden - 1)
Signed(w) == IF Sign(w) = 1 THEN -Units(Mag(w)) ELSE Units(Mag(w))

Whole(w, signed) == IF signed /\ Sign(w) = 1 THEN w - Size ELSE w

-----------------------------------------------------------------------------
(* Arithmetic on what is not a number, to the nearest.                        *)

Out(w, fl) == [w |-> w, fl |-> fl]

\* fpu_nan_scan, of operands at least one of which is a NaN: the first signaling
\* one, made quiet, or else the first quiet one.
NanScan(ops) ==
    LET snans == {x \in DOMAIN ops : IsSNaN(ops[x])}
        nans  == {x \in DOMAIN ops : IsNaN(ops[x])}
        first(S) == ops[CHOOSE x \in S : \A y \in S : x <= y]
    IN  IF snans # {} THEN Out(Dn(first(snans) + Quiet), {"IOC"}) ELSE Out(Dn(first(nans)), {})

AnyNaN(a, b) == IsNaN(a) \/ IsNaN(b)
Invalid == Out(NaN, {"IOC"})

\* fpu_final: an infinite result counts as an overflow and a subnormal one as an
\* underflow, whatever the operands were.
Final(w) ==
    Out(w, CASE IsInf(w) -> {"OFC", "IXC"} [] Subnormal(w) -> {"UFC", "IXC"} [] OTHER -> {})

Add(a0, b0, sub) ==
    LET a == Flush(a0)  b == Flush(b0)  sb == (Sign(b) + sub) % 2 IN
    IF AnyNaN(a, b) THEN NanScan(<<a, b>>)
    ELSE IF IsInf(a) /\ IsInf(b) /\ Sign(a) # sb THEN Invalid
    ELSE IF IsZero(a) /\ IsZero(b) THEN Final(With(Sign(a) * sb, 0))
    ELSE IF IsInf(a) \/ IsZero(b) THEN Final(a)
    ELSE Final(With(sb, Mag(b)))

\* The sign is changed before the operands are looked at.
Mul(a0, b0, neg) ==
    LET flushed == Flush(a0)
        a == IF neg THEN Neg(flushed) ELSE flushed
        b == Flush(b0)
        sign == (Sign(a) + Sign(b)) % 2
    IN  CASE AnyNaN(a, b) -> NanScan(<<a, b>>)
          [] (IsZero(a) /\ IsInf(b)) \/ (IsInf(a) /\ IsZero(b)) -> Invalid
          [] IsInf(a) \/ IsInf(b) -> Final(With(sign, Inf))
          [] OTHER -> Final(With(sign, 0))

Div(a0, b0) ==
    LET a == Flush(a0)  b == Flush(b0)  sign == (Sign(a) + Sign(b)) % 2 IN
    IF AnyNaN(a, b) THEN NanScan(<<a, b>>)
    ELSE IF (IsZero(a) /\ IsZero(b)) \/ (IsInf(a) /\ IsInf(b)) THEN Invalid
    ELSE IF IsZero(b) THEN Out(With(sign, Inf), {"DZC"})
    ELSE IF IsInf(b) THEN Out(With(sign, 0), IF IsZero(a) THEN {} ELSE {"UFC", "IXC"})
    ELSE Final(With(sign, IF IsInf(a) THEN Inf ELSE 0))

Sqrt(a0) ==
    LET a == Flush(a0) IN
    IF IsNaN(a) THEN NanScan(<<a>>)
    ELSE IF IsZero(a) THEN Out(a, {})
    ELSE IF Sign(a) = 1 THEN Invalid
    ELSE Final(a)

\* fpu_mla: a product and a sum; VNMLA and VNMLS change two signs first.
Mla(acc0, a0, b, sub, neg) ==
    LET acc == IF neg THEN Neg(acc0) ELSE acc0
        p == Mul(IF neg THEN Neg(a0) ELSE a0, b, FALSE)
        sum == Add(acc, p.w, sub)
    IN  Out(Dn(sum.w), p.fl \cup sum.fl)

-----------------------------------------------------------------------------
(* Integers and fixed point.                                                 *)

\* fpu_round_int: x is a number of units of which one is unit.
RoundInt(x, unit, rm) ==
    LET down == x \div unit
        rest == x % unit
        up == down + 1
    IN  IF rest = 0 THEN down
        ELSE CASE rm = 0 -> IF 2 * rest < unit \/ (2 * rest = unit /\ down % 2 = 0) THEN down ELSE up
               [] rm = 1 -> up
               [] rm = 2 -> down
               [] OTHER -> IF x < 0 THEN up ELSE down

Least(signed) == IF signed THEN -SignBit ELSE 0
Most(signed) == IF signed THEN SignBit - 1 ELSE Size - 1

\* A word times 2^n as an integer: the nearest end of the range if it does not fit.
ToInt(w0, n, signed) ==
    LET w == Flush(w0)
        x == Signed(w) * 2 ^ n
        v == RoundInt(x, One, fpscr.rm)
    IN  IF IsNaN(w) THEN Out(0, {"IOC"})
        ELSE IF IsInf(w) \/ v < Least(signed) \/ v > Most(signed)
        THEN Out((IF Sign(w) = 1 THEN Least(signed) ELSE Most(signed)) % Size, {"IOC"})
        ELSE Out(v % Size, IF v * One = x THEN {} ELSE {"IXC"})

\* Mutant: up and down are those of the magnitude.
AdjustMagnitude(x, rm, low, near) ==
    CASE rm = 1 -> low + 1 [] rm = 2 -> low [] OTHER -> near

\* fpu_round_f32: the host's nearest, and its neighbour if the mode wants the other.
Adjust(x, rm, low, near) ==
    CASE rm = 0 -> near
      [] rm = 1 -> IF x > 0 THEN low + 1 ELSE low
      [] rm = 2 -> IF x > 0 THEN low ELSE low + 1
      [] OTHER -> low

\* x units as a word.
RoundF32(x, rm) ==
    LET m == IF x < 0 THEN -x ELSE x
        low == Cardinality({w \in 0..(Inf - 1) : Units(w) <= m}) - 1
        below == m - Units(low)
        above == Units(low + 1) - m
        near == IF below < above \/ (below = above /\ low % 2 = 0) THEN low ELSE low + 1
        exact == below = 0
    IN  Out(With(IF x < 0 THEN 1 ELSE 0, IF exact THEN low ELSE Adjust(x, rm, low, near)),
            IF exact THEN {} ELSE {"IXC"})

FromInt(w, n, signed) == RoundF32(Whole(w, signed) * (One \div 2 ^ n), fpscr.rm)

\* vfp_expand_imm: sign, the exponent by three bits, the fraction.
Expand(imm) ==
    LET sign == imm \div (8 * Hidden)
        b == (imm \div (4 * Hidden)) % 2
        cd == (imm \div Hidden) % 4
        exp == (1 - b) * 2 ^ (E - 1) + b * (2 ^ (E - 1) - 4) + cd
    IN  With(sign, exp * Hidden + (imm % Hidden))

\* VCMP and VCMPE: unordered compares as neither less nor equal.
Compared(a0, b0, e) ==
    LET a == Flush(a0)  b == Flush(b0) IN
    IF AnyNaN(a, b)
    THEN [nzcv |-> {"C", "V"}, fl |-> IF IsSNaN(a) \/ IsSNaN(b) \/ e THEN {"IOC"} ELSE {}]
    ELSE LET x == Signed(a)  y == Signed(b) IN
         [nzcv |-> (IF x < y THEN {"N"} ELSE {"C"}) \cup (IF x = y THEN {"Z"} ELSE {}), fl |-> {}]

-----------------------------------------------------------------------------
(* Instructions.                                                             *)

\* Every instruction that completes marks the context as one of the FPU.
Completes == refused' = FALSE /\ fpca' = TRUE
Refuse == refused' = TRUE /\ UNCHANGED <<s, r, cells, fpscr, apsr, fpca>>

\* The result and the flags that accumulate.
Yields(d, out) ==
    /\ s' = [s EXCEPT ![d] = out.w] /\ fpscr' = [fpscr EXCEPT !.fl = @ \cup out.fl]
    /\ Completes /\ UNCHANGED <<r, cells, apsr>>

Gives(newS, newR) == s' = newS /\ r' = newR /\ Completes /\ UNCHANGED <<cells, fpscr, apsr>>

Arithmetic(i) ==
    LET n == s[i.n]  m == s[i.m]  acc == s[i.d] IN
    Yields(i.d,
        CASE i.op = "add" -> Add(n, m, 0)
          [] i.op = "sub" -> Add(n, m, 1)
          [] i.op = "mul" -> Mul(n, m, FALSE)
          [] i.op = "nmul" -> Mul(n, m, TRUE)
          [] i.op = "div" -> Div(n, m)
          [] i.op = "sqrt" -> Sqrt(m)
          [] i.op = "mla" -> Mla(acc, n, m, 0, FALSE)
          [] i.op = "mls" -> Mla(acc, n, m, 1, FALSE)
          [] i.op = "nmla" -> Mla(acc, n, m, 0, TRUE)
          [] i.op = "nmls" -> Mla(acc, n, m, 1, TRUE)
          [] i.op = "mov" -> Out(m, {})
          [] i.op = "abs" -> Out(Mag(m), {})
          [] i.op = "neg" -> Out(Neg(m), {})
          [] i.op = "imm" -> Out(Expand(i.imm), {}))

Convert(i) ==
    LET w == s[IF i.frac = 0 THEN i.m ELSE i.d] IN
    Yields(i.d, IF i.toint THEN ToInt(w, i.frac, i.signed) ELSE FromInt(w, i.frac, i.signed))

Compare(i) ==
    LET c == Compared(s[i.d], IF i.zero THEN 0 ELSE s[i.m], i.e) IN
    /\ fpscr' = [fpscr EXCEPT !.nzcv = c.nzcv, !.fl = @ \cup c.fl]
    /\ Completes /\ UNCHANGED <<s, r, cells, apsr>>

\* VMOV with a core register.
Core(i) ==
    IF i.t \in {SP, PC} THEN Refuse
    ELSE IF i.tocore THEN Gives(s, [r EXCEPT ![i.t] = s[i.n]])
    ELSE Gives([s EXCEPT ![i.n] = r[i.t]], r)

\* VMOV of a D register with two of them.
Pair(i) ==
    IF 2 * i.dm >= Slots \/ {i.t, i.t2} \cap {SP, PC} # {} THEN Refuse
    ELSE IF i.tocore THEN Gives(s, [r EXCEPT ![i.t] = s[2 * i.dm], ![i.t2] = s[2 * i.dm + 1]])
    ELSE Gives([s EXCEPT ![2 * i.dm] = r[i.t], ![2 * i.dm + 1] = r[i.t2]], r)

\* VMRS of the comparison flags.
ReadFlags == apsr' = fpscr.nzcv /\ Completes /\ UNCHANGED <<s, r, cells, fpscr>>

\* VMSR: the modes and the flags all at once.
WriteFpscr(i) == fpscr' = i.value /\ Completes /\ UNCHANGED <<s, r, cells, apsr>>

\* The first S register by the fields of a list of S or of D registers.
First(i) == IF i.double THEN 2 * (i.dbit * (Slots \div 2) + i.vd) ELSE 2 * i.vd + i.dbit

At(a) == (a \div 4) % Cardinality(DOMAIN cells)

\* So many words from an address on, in ascending order.
Move(load, first, n, addr) ==
    IF load
    THEN /\ s' = [x \in DOMAIN s |-> IF x \in first..(first + n - 1) THEN cells[At(addr + 4 * (x - first))] ELSE s[x]]
         /\ cells' = cells
    ELSE /\ cells' = [c \in DOMAIN cells |->
                        IF \E x \in 0..(n - 1) : At(addr + 4 * x) = c
                        THEN s[first + CHOOSE x \in 0..(n - 1) : At(addr + 4 * x) = c] ELSE cells[c]]
         /\ s' = s

\* VLDR and VSTR, upwards only.
Single(i) ==
    LET n == IF i.double THEN 2 ELSE 1
        base == IF i.n = PC THEN 4 ELSE r[i.n]
    IN  IF First(i) + n > Slots THEN Refuse
        ELSE /\ Move(i.load, First(i), n, base + 4 * i.imm)
             /\ Completes /\ UNCHANGED <<r, fpscr, apsr>>

\* Mutant: a list of D registers is counted in D registers.
MultipleHalved(i) ==
    LET n == IF i.double THEN i.imm \div 2 ELSE i.imm
        addr == IF i.p THEN (r[i.n] - 4 * n) % Size ELSE r[i.n]
    IN  IF \/ i.p = i.u \/ (i.p /\ ~i.w) \/ i.n = PC
           \/ i.imm = 0 \/ (i.double /\ i.imm % 2 = 1) \/ First(i) + i.imm > Slots
        THEN Refuse
        ELSE /\ Move(i.load, First(i), i.imm, addr)
             /\ r' = [r EXCEPT ![i.n] = IF ~i.w THEN @ ELSE IF i.p THEN addr ELSE (@ + 4 * n) % Size]
             /\ Completes /\ UNCHANGED <<fpscr, apsr>>

\* VLDM and VSTM, VPUSH and VPOP among them: after the base, or before it and then
\* with the base written back.
Multiple(i) ==
    LET addr == IF i.p THEN (r[i.n] - 4 * i.imm) % Size ELSE r[i.n] IN
    IF \/ i.p = i.u \/ (i.p /\ ~i.w) \/ i.n = PC
       \/ i.imm = 0 \/ (i.double /\ i.imm % 2 = 1) \/ First(i) + i.imm > Slots
    THEN Refuse
    ELSE /\ Move(i.load, First(i), i.imm, addr)
         /\ r' = [r EXCEPT ![i.n] = IF ~i.w THEN @ ELSE IF i.p THEN addr ELSE (@ + 4 * i.imm) % Size]
         /\ Completes /\ UNCHANGED <<fpscr, apsr>>

Execute(i) ==
    /\ last = Idle /\ last' = i
    /\ CASE i.k = "arith" -> Arithmetic(i)
         [] i.k = "convert" -> Convert(i)
         [] i.k = "compare" -> Compare(i)
         [] i.k = "core" -> Core(i)
         [] i.k = "pair" -> Pair(i)
         [] i.k = "vmrs" -> ReadFlags
         [] i.k = "vmsr" -> WriteFpscr(i)
         [] i.k = "single" -> Single(i)
         [] i.k = "multiple" -> Multiple(i)

Next == \E i \in Instr : Execute(i)

Spec == Init /\ [][Next]_vfpVars

-----------------------------------------------------------------------------
(* What the architecture says: of arithmetic by orders of magnitude, of        *)
(* conversions and comparisons by numbers, of moves by the place of a register  *)
(* in its list.                                                                *)

Order(w) == (1 - 2 * Sign(w)) * (IF IsInf(w) THEN 3 ELSE IF IsZero(w) THEN 0 ELSE 1)
Size3(n) == IF n < 0 THEN -n ELSE n

Sums == {"add", "sub"}
Fused == {"mla", "mls", "nmla", "nmls"}
Factors(i) == <<Order(Flush(s[i.n])), Order(Flush(s[i.m]))>>
Product(i) == Factors(i)[1] * Factors(i)[2] * (IF i.op \in {"nmul", "mls", "nmla"} THEN -1 ELSE 1)
Addend(i) == Order(Flush(s[i.d])) * (IF i.op \in {"nmla", "nmls"} THEN -1 ELSE 1)

Operands(i) ==
    CASE i.op = "sqrt" -> {i.m} [] i.op \in Fused -> {i.d, i.n, i.m} [] OTHER -> {i.n, i.m}

\* The terms of a sum.
Terms(i) ==
    CASE i.op \in Fused -> <<Addend(i), Product(i)>>
      [] OTHER -> <<Factors(i)[1], Factors(i)[2] * (IF i.op = "sub" THEN -1 ELSE 1)>>

Opposite(t) == Size3(t[1]) >= 3 /\ Size3(t[2]) >= 3 /\ (t[1] < 0) # (t[2] < 0)
ZeroTimesInf(i) == {Size3(Factors(i)[1]), Size3(Factors(i)[2])} = {0, 3}

NoLimit(i) ==
    CASE i.op \in Sums -> Opposite(Terms(i))
      [] i.op \in {"mul", "nmul"} -> ZeroTimesInf(i)
      [] i.op \in Fused -> ZeroTimesInf(i) \/ Opposite(Terms(i))
      [] i.op = "div" -> Size3(Factors(i)[1]) = Size3(Factors(i)[2]) /\ Size3(Factors(i)[1]) # 1
      [] i.op = "sqrt" -> Order(Flush(s[i.m])) < 0

\* How large the result is: infinite, nothing, or as large as the only term there is.
Magnitude(i) ==
    CASE i.op \in Sums \cup Fused ->
            IF \E t \in {1, 2} : Size3(Terms(i)[t]) >= 3 THEN Inf
            ELSE IF Terms(i)[2] = 0 THEN Mag(Flush(IF i.op \in Fused THEN s[i.d] ELSE s[i.n]))
            ELSE Mag(Flush(s[i.m]))
      [] i.op \in {"mul", "nmul"} -> IF Size3(Product(i)) >= 3 THEN Inf ELSE 0
      [] i.op = "div" -> IF Size3(Factors(i)[1]) > Size3(Factors(i)[2]) THEN Inf ELSE 0
      [] i.op = "sqrt" -> Mag(Flush(s[i.m]))

\* A NaN comes from a NaN or where there is no limit, quiet and, if so chosen, the
\* default one; it is invalid without a NaN, or with a signaling one.
NaNsSound(i, out) ==
    LET nan == \E o \in Operands(i) : IsNaN(s[o])
        snan == \E o \in Operands(i) : IsSNaN(s[o])
    IN  /\ IsNaN(out) <=> nan \/ NoLimit(i)
        /\ IsNaN(out) => ~IsSNaN(out) /\ (fpscr.dn \/ ~nan => out = NaN)
        /\ "IOC" \in fpscr'.fl <=> "IOC" \in fpscr.fl \/ snan \/ (NoLimit(i) /\ ~nan)
                                  \/ (i.op \in Fused /\ ZeroTimesInf(i) /\ ~IsNaN(s[i.n]) /\ ~IsNaN(s[i.m]))

\* Signs multiply; a sum has that of its larger term.
SignSound(i, out) ==
    CASE i.op \in {"mul", "nmul", "div"} ->
            Sign(out) = (Sign(s[i.n]) + Sign(s[i.m]) + (IF i.op = "nmul" THEN 1 ELSE 0)) % 2
      [] i.op = "sqrt" -> Sign(out) = Sign(s[i.m])
      [] OTHER -> LET t == Terms(i) IN t[1] + t[2] # 0 => Sign(out) = IF t[1] + t[2] < 0 THEN 1 ELSE 0

\* The result is exact, and only a number is divided by zero.
ExactFlags(i) ==
    /\ fpscr'.fl \cap {"OFC", "UFC", "IXC"} = fpscr.fl \cap {"OFC", "UFC", "IXC"}
    /\ i.op = "div" /\ IsInf(s[i.n]) => "DZC" \notin fpscr'.fl \ fpscr.fl

Moves == {"mov", "abs", "neg", "imm"}
MoveSound(i, out) ==
    CASE i.op = "mov" -> out = s[i.m]
      [] i.op = "abs" -> Mag(out) = Mag(s[i.m]) /\ Sign(out) = 0
      [] i.op = "neg" -> Mag(out) = Mag(s[i.m]) /\ Sign(out) # Sign(s[i.m])
      [] i.op = "imm" -> 32 * Signed(out) = i.value * One

ArithmeticSound(i) ==
    LET out == s'[i.d] IN
    IF i.op \in Moves THEN MoveSound(i, out) /\ fpscr' = fpscr
    ELSE /\ NaNsSound(i, out)
         /\ ~IsNaN(out) => Mag(out) = Magnitude(i) /\ SignSound(i, out)
         /\ "DZC" \in fpscr'.fl <=> i.op = "div" /\ ~IsNaN(out) /\ IsZero(Flush(s[i.m])) /\ ~IsZero(Flush(s[i.n]))

\* Whether v is x, a number of units, rounded to a multiple of unit that is in V.
Distance(v, x) == IF v < x THEN x - v ELSE v - x
RoundedTo(v, x, V, even) ==
    CASE fpscr.rm = 0 -> \A y \in V : Distance(v, x) < Distance(y, x) \/ y = v
                                    \/ (Distance(v, x) = Distance(y, x) /\ even)
      [] fpscr.rm = 1 -> v >= x /\ \A y \in V : y >= x => v <= y
      [] fpscr.rm = 2 -> v <= x /\ \A y \in V : y <= x => v >= y
      [] OTHER -> (IF x < 0 THEN v >= x /\ v <= 0 ELSE v <= x /\ v >= 0)
                  /\ \A y \in V : (IF x < 0 THEN y >= x ELSE y <= x) => Distance(v, x) <= Distance(y, x)

Numbers == {Signed(w) : w \in {v \in 0..(Size - 1) : Mag(v) < Inf}}

\* An integer that fits is the nearest in the rounding mode's direction; one that
\* does not is the end of the range.
ConvertSound(i) ==
    LET w == Flush(s[IF i.frac = 0 THEN i.m ELSE i.d])
        out == s'[i.d]
        x == Signed(w) * 2 ^ i.frac
        v == Whole(out, i.signed)
        y == Whole(s[IF i.frac = 0 THEN i.m ELSE i.d], i.signed) * (One \div 2 ^ i.frac)
        news == fpscr'.fl \ fpscr.fl
    IN  IF ~i.toint
        THEN /\ RoundedTo(Signed(out), y, Numbers, Mag(out) % 2 = 0)
             /\ news = (IF Signed(out) = y THEN {} ELSE {"IXC"}) \ fpscr.fl
        ELSE IF IsNaN(w) THEN v = 0 /\ "IOC" \in fpscr'.fl
        ELSE IF "IOC" \in news
        THEN /\ v = IF Sign(w) = 1 THEN Least(i.signed) ELSE Most(i.signed)
             /\ IsInf(w) \/ \E n \in {Least(i.signed) - 1, Most(i.signed) + 1} :
                    \/ RoundedTo(n * One, x, {(n - 1) * One, n * One, (n + 1) * One}, n % 2 = 0)
                    \/ (n < 0 /\ x < n * One) \/ (n > 0 /\ x > n * One)
        ELSE /\ RoundedTo(v * One, x, {(v - 1) * One, v * One, (v + 1) * One}, v % 2 = 0)
             /\ news = (IF v * One = x THEN {} ELSE {"IXC"}) \ fpscr.fl

CompareSound(i) ==
    LET a == Flush(s[i.d])
        b == IF i.zero THEN 0 ELSE Flush(s[i.m])
        nzcv == fpscr'.nzcv
    IN  /\ "V" \in nzcv <=> AnyNaN(a, b)
        /\ "Z" \in nzcv <=> (a = b \/ (IsZero(a) /\ IsZero(b))) /\ ~AnyNaN(a, b)
        /\ "N" \in nzcv => Order(a) < Order(b) \/ Signed(a) < Signed(b)
        /\ "C" \in nzcv <=> "N" \notin nzcv
        /\ "IOC" \in fpscr'.fl <=> "IOC" \in fpscr.fl \/ IsSNaN(a) \/ IsSNaN(b) \/ (i.e /\ AnyNaN(a, b))

\* The registers of a list, each in its words from the lowest address on.
List(i) ==
    LET base == IF i.n = PC THEN 4 ELSE r[i.n] IN
    IF i.k = "single" THEN [first |-> First(i), n |-> IF i.double THEN 2 ELSE 1, addr |-> base + 4 * i.imm]
    ELSE [first |-> First(i), n |-> i.imm, addr |-> IF i.u THEN base ELSE base - 4 * i.imm]
Allowed(i) ==
    /\ List(i).n > 0 /\ List(i).first + List(i).n <= Slots
    /\ i.k = "multiple" => i.n # PC /\ (i.double => i.imm % 2 = 0) /\ (IF i.u THEN ~i.p ELSE i.p /\ i.w)

MoveManySound(i) ==
    LET l == List(i)
        word(x) == At(l.addr + 4 * (x - l.first) + 4 * Cardinality(DOMAIN cells))
        inList == {x \in DOMAIN s : x >= l.first /\ x < l.first + l.n}
    IN  /\ refused' <=> ~Allowed(i)
        /\ refused' => s' = s /\ cells' = cells /\ r' = r
        /\ ~refused' =>
              /\ \A x \in inList : IF i.load THEN s'[x] = cells[word(x)] ELSE cells'[word(x)] = s[x]
              /\ \A x \in DOMAIN s : ~i.load \/ x \notin inList => s'[x] = s[x]
              /\ \A c \in DOMAIN cells : i.load \/ c \notin {word(x) : x \in inList} => cells'[c] = cells[c]
              /\ \A n \in Reg : r'[n] = IF i.k = "multiple" /\ i.w /\ n = i.n
                                         THEN (IF i.u THEN r[n] + 4 * l.n ELSE r[n] - 4 * l.n) % Size ELSE r[n]

\* A core register and the S register it goes with; a D register's lower half is the first.
TransferSound(i) ==
    LET pairs == IF i.k = "core" THEN {<<i.t, i.n>>} ELSE {<<i.t, 2 * i.dm>>, <<i.t2, 2 * i.dm + 1>>} IN
    /\ refused' <=> \E p \in pairs : p[1] \in {SP, PC} \/ p[2] \notin DOMAIN s
    /\ ~refused' => \A p \in pairs : IF i.tocore THEN r'[p[1]] = s[p[2]] ELSE s'[p[2]] = r[p[1]]

-----------------------------------------------------------------------------
(* Properties.                                                               *)

\* Every instruction has the result the architecture gives it, whatever NaN, infinity,
\* rounding mode or list it meets, and one that completes marks the FP context as in use.
VfpOf(i) ==
    /\ fpca' <=> fpca \/ ~refused'
    /\ CASE i.k = "arith" -> ArithmeticSound(i)
         [] i.k = "convert" -> ConvertSound(i)
         [] i.k = "compare" -> CompareSound(i)
         [] i.k \in {"single", "multiple"} -> MoveManySound(i)
         [] i.k \in {"core", "pair"} -> TransferSound(i)
         [] OTHER -> apsr' = (IF i.k = "vmrs" THEN fpscr.nzcv ELSE apsr) /\ s' = s /\ r' = r

VfpExact == [][last' # Idle => VfpOf(last')]_vfpVars

\* An operation with an infinity or a zero is exact and raises no flag of rounding
\* (thumb.rs:179-181 leaves infinities to the callers of fpu_ou_flags).
FlagsHaveCause == [][last'.k = "arith" => ExactFlags(last')]_vfpVars
=============================================================================
