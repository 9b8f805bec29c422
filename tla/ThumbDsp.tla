------------------------------- MODULE ThumbDsp ------------------------------
(***************************************************************************)
(* Integer instructions of the interpreter (cpu/thumb.rs) beyond sums and     *)
(* shifts: parallel lanes, saturation, extension, permutation of bits, fields, *)
(* multiplication and division.  A word has four bytes of Byte bits.  The     *)
(* result is <<w, q>>: the word, and whether the instruction sets Q.          *)
(***************************************************************************)
EXTENDS Integers, FiniteSetsExt

CONSTANTS
    Byte,                  \* bits of a byte
    First, Second, Third,  \* the operands tried, by place
    Kinds                  \* the groups of instructions tried

VARIABLE sum               \* the last operation, its operands and its result

Half == 2 * Byte
Word == 4 * Byte
Long == 8 * Byte
Flavors == {"Q", "UQ", "SH", "UH"}

Idle == [k |-> "none"]
Init == sum = Idle

-----------------------------------------------------------------------------
(* Words and their parts.                                                    *)

Cut(v, bits) == v % 2 ^ bits
AsSigned(v, bits) == IF v >= 2 ^ (bits - 1) THEN v - 2 ^ bits ELSE v
Part(v, i, bits) == Cut(v \div 2 ^ (i * bits), bits)
SignedHalf(v, i) == AsSigned(Part(v, i, Half), Half)
S(v) == AsSigned(v, Word)
Ror(v, n) == (v \div 2 ^ n) + Cut(v, n) * 2 ^ (Word - n)

\* The word whose i-th part, counted from the lowest, is part[i].
Joined(part, bits) == SumSet({part[i] * 2 ^ (i * bits) : i \in DOMAIN part})

Clamped(v, lo, hi) == IF v > hi THEN hi ELSE IF v < lo THEN lo ELSE v

-----------------------------------------------------------------------------
(* Lanes.                                                                    *)

Low(bits, unsigned)  == IF unsigned THEN 0 ELSE -(2 ^ (bits - 1))
High(bits, unsigned) == IF unsigned THEN 2 ^ bits - 1 ELSE 2 ^ (bits - 1) - 1

\* sat_lane: the lane, and whether it saturated.
SatLane(v, bits, unsigned) ==
    <<Cut(Clamped(v, Low(bits, unsigned), High(bits, unsigned)), bits),
      v > High(bits, unsigned) \/ v < Low(bits, unsigned)>>

\* lane16, and the same of a byte.
LaneOp(a, b, bits, sub, flavor) ==
    LET signed == AsSigned(a, bits) + (IF sub THEN -AsSigned(b, bits) ELSE AsSigned(b, bits))
        plain  == a + (IF sub THEN -b ELSE b)
    IN  CASE flavor = "Q"  -> SatLane(signed, bits, FALSE)
          [] flavor = "UQ" -> SatLane(plain, bits, TRUE)
          [] flavor = "SH" -> <<Cut(signed \div 2, bits), FALSE>>
          [] flavor = "UH" -> <<Cut(Cut(plain, Word) \div 2, bits), FALSE>>

\* One lane of each pair: `cross' exchanges the second operand's halves, and the
\* lanes in `subs' are subtracted.
Parallel(n, m, bits, cross, subs, flavor) ==
    LET lanes == 0..(Word \div bits - 1)
        lane == [i \in lanes |-> LaneOp(Part(n, i, bits), Part(m, IF cross THEN 1 - i ELSE i, bits),
                                        bits, i \in subs, flavor)]
    IN  <<Joined([i \in lanes |-> lane[i][1]], bits), \E i \in lanes : lane[i][2]>>

Shapes ==
    {[bits |-> b, cross |-> FALSE, subs |-> s] : b \in {Byte}, s \in {{}, 0..3}}
    \cup {[bits |-> b, cross |-> FALSE, subs |-> s] : b \in {Half}, s \in {{}, 0..1}}
    \cup {[bits |-> b, cross |-> TRUE, subs |-> s] : b \in {Half}, s \in {{0}, {1}}}

Lanes ==
    /\ sum = Idle /\ "lanes" \in Kinds
    /\ \E n \in First, m \in Second, s \in Shapes, fl \in Flavors :
          sum' = [k |-> "lanes", n |-> n, m |-> m, shape |-> s, flavor |-> fl,
                  out |-> Parallel(n, m, s.bits, s.cross, s.subs, fl)]

\* UADD8, USUB8 and the SEL of what they find: the bytes and GE.
Compared(n, m, sub) ==
    LET s == [i \in 0..3 |-> Part(n, i, Byte) + (IF sub THEN -Part(m, i, Byte) ELSE Part(m, i, Byte))]
    IN  <<Joined([i \in 0..3 |-> Cut(s[i], Byte)], Byte),
          {i \in 0..3 : IF sub THEN s[i] >= 0 ELSE s[i] >= 2 ^ Byte}>>

Selected(n, m, ge) == Joined([i \in 0..3 |-> Part(IF i \in ge THEN n ELSE m, i, Byte)], Byte)

Select ==
    /\ sum = Idle /\ "select" \in Kinds
    /\ \E n \in First, m \in Second, sub \in BOOLEAN :
          LET c == Compared(n, m, sub) IN
          sum' = [k |-> "select", n |-> n, m |-> m, sub |-> sub, out |-> c, sel |-> Selected(n, m, c[2])]

-----------------------------------------------------------------------------
(* Saturation of a word.                                                     *)

\* sat32x
Sat32(v) == <<Cut(Clamped(v, Low(Word, FALSE), High(Word, FALSE)), Word),
              v > High(Word, FALSE) \/ v < Low(Word, FALSE)>>

\* QADD, QSUB, QDADD, QDSUB: of m, with n, which may be doubled.
QSum(n, m, dbl, sub) ==
    LET d == IF dbl THEN Sat32(2 * S(n)) ELSE <<n, FALSE>>
        r == Sat32(S(m) + (IF sub THEN -S(d[1]) ELSE S(d[1])))
    IN  <<r[1], d[2] \/ r[2]>>

QAdd ==
    /\ sum = Idle /\ "qadd" \in Kinds
    /\ \E n \in First, m \in Second, dbl, sub \in BOOLEAN :
          sum' = [k |-> "qadd", n |-> n, m |-> m, dbl |-> dbl, sub |-> sub, out |-> QSum(n, m, dbl, sub)]

\* USAT takes a signed word, shifted left; SSAT shifts either way and names one
\* bit more than it encodes.
Usat(a, bits, amt) ==
    LET v == S(Cut(a * 2 ^ amt, Word))
        hi == 2 ^ bits - 1
    IN  <<Clamped(v, 0, hi), v < 0 \/ v > hi>>

Ssat(a, field, left, amt) ==
    LET v == IF left THEN S(Cut(a * 2 ^ amt, Word)) ELSE S(a) \div 2 ^ amt
        lo == -(2 ^ field)
        hi == 2 ^ field - 1
    IN  IF field + 1 >= Word THEN <<Cut(v, Word), FALSE>>
        ELSE <<Cut(Clamped(v, lo, hi), Word), v < lo \/ v > hi>>

Saturate ==
    /\ sum = Idle /\ "sat" \in Kinds
    /\ \E a \in First, field, amt \in 0..(Word - 1), signed, left \in BOOLEAN :
          /\ ~signed => left
          /\ sum' = [k |-> "sat", a |-> a, field |-> field, amt |-> amt, signed |-> signed, left |-> left,
                     out |-> IF signed THEN Ssat(a, field, left, amt) ELSE Usat(a, field, amt)]

-----------------------------------------------------------------------------
(* Extension, permutation, fields.                                           *)

\* SXTB, UXTB, SXTH, UXTH of a rotated word, and their sums with a word.
Extended(m, bits, rot, signed) ==
    LET v == Cut(Ror(m, rot * Byte), bits) IN IF signed THEN Cut(AsSigned(v, bits), Word) ELSE v

Extend ==
    /\ sum = Idle /\ "extend" \in Kinds
    /\ \E n \in Third, m \in First, bits \in {Byte, Half}, rot \in 0..3, signed \in BOOLEAN :
          sum' = [k |-> "extend", n |-> n, m |-> m, bits |-> bits, rot |-> rot, signed |-> signed,
                  out |-> Cut(n + Extended(m, bits, rot, signed), Word)]

Swapped(v) == Joined([i \in 0..1 |-> Part(v, 1 - i, Byte)], Byte)
Reversed(v) == Joined([i \in 0..(Word - 1) |-> Part(v, Word - 1 - i, 1)], 1)

\* REV, REV16, REVSH, RBIT and CLZ.
Permuted(o, v) ==
    CASE o = "rev" -> Joined([i \in 0..3 |-> Part(v, 3 - i, Byte)], Byte)
      [] o = "rev16" -> Joined([i \in 0..1 |-> Swapped(Part(v, i, Half))], Half)
      [] o = "revsh" -> Cut(AsSigned(Swapped(Cut(v, Half)), Half), Word)
      [] o = "rbit" -> Reversed(v)
      [] o = "clz" -> Cardinality({i \in 0..(Word - 1) : v < 2 ^ i})

Permute ==
    /\ sum = Idle /\ "permute" \in Kinds
    /\ \E o \in {"rev", "rev16", "revsh", "rbit", "clz"}, v \in 0..(2 ^ Word - 1) :
          sum' = [k |-> "permute", o |-> o, a |-> v, out |-> Permuted(o, v)]

\* UBFX and SBFX of a width, BFI and BFC of a highest bit.
Taken(v, lsb, w, signed) ==
    LET f == Cut(v \div 2 ^ lsb, w) IN IF signed THEN Cut(AsSigned(f, w), Word) ELSE f

Inserted(d, v, lsb, msb) ==
    (d \div 2 ^ (msb + 1)) * 2 ^ (msb + 1) + Cut(v * 2 ^ lsb, msb + 1) + Cut(d, lsb)

Field ==
    /\ sum = Idle /\ "field" \in Kinds
    /\ \E v \in First, lsb, msb \in 0..(Word - 1), signed \in BOOLEAN, d \in Third :
          /\ lsb <= msb
          /\ sum' = [k |-> "field", a |-> v, d |-> d, lsb |-> lsb, msb |-> msb, signed |-> signed,
                     out |-> Taken(v, lsb, msb - lsb + 1, signed),
                     ins |-> Inserted(d, v, lsb, msb), clr |-> Inserted(d, 0, lsb, msb)]

-----------------------------------------------------------------------------
(* Multiplication and division.  `a' is the accumulator, 0 where there is none. *)

\* wrapping_add of a word, and whether it wrapped.
Wrapped(v) == <<Cut(v, Word), S(Cut(v, Word)) # v>>

\* SMLAD and SMLSD: the two products wrap before they are accumulated.
Dual(n, m, a, sub) ==
    LET hi == SignedHalf(n, 1) * SignedHalf(m, 1)
        s == Wrapped(SignedHalf(n, 0) * SignedHalf(m, 0) + (IF sub THEN -hi ELSE hi))
        r == Wrapped(S(a) + S(s[1]))
    IN  <<r[1], s[2] \/ r[2]>>

\* SMMUL and SMMLA, SMMLS: the top word of the product, which R rounds.
Top(n, m, round) == (S(n) * S(m) + (IF round THEN 2 ^ (Word - 1) ELSE 0)) \div 2 ^ Word

Distance(x, y) == IF x < y THEN y - x ELSE x - y

Multiplied(o, n, m, a) ==
    CASE o = "mla"  -> <<Cut(a + n * m, Word), FALSE>>
      [] o = "mls"  -> <<Cut(a - n * m, Word), FALSE>>
      [] o \in {"smlabb", "smlabt", "smlatb", "smlatt"} ->
            LET x == SignedHalf(n, IF o \in {"smlatb", "smlatt"} THEN 1 ELSE 0)
                y == SignedHalf(m, IF o \in {"smlabt", "smlatt"} THEN 1 ELSE 0)
            IN  <<Cut(a + x * y, Word), FALSE>>
      [] o = "smlawb" -> <<Cut(a + (S(n) * SignedHalf(m, 0)) \div 2 ^ Half, Word), FALSE>>
      [] o = "smlawt" -> <<Cut(a + (S(n) * SignedHalf(m, 1)) \div 2 ^ Half, Word), FALSE>>
      [] o = "smlad"  -> Dual(n, m, a, FALSE)
      [] o = "smlsd"  -> Dual(n, m, a, TRUE)
      [] o = "smmla"  -> <<Cut(a + Top(n, m, FALSE), Word), FALSE>>
      [] o = "smmlar" -> <<Cut(a + Top(n, m, TRUE), Word), FALSE>>
      [] o = "smmls"  -> <<Cut(a - Top(n, m, FALSE), Word), FALSE>>
      [] o = "smmlsr" -> <<Cut(a - Top(n, m, TRUE), Word), FALSE>>
      [] o = "usada8" ->
            <<Cut(a + MapThenSumSet(LAMBDA i : Distance(Part(n, i, Byte), Part(m, i, Byte)), 0..3), Word), FALSE>>

Products == {"mla", "mls", "smlabb", "smlabt", "smlatb", "smlatt", "smlawb", "smlawt", "smlad", "smlsd",
             "smmla", "smmlar", "smmls", "smmlsr", "usada8"}

Multiply ==
    /\ sum = Idle /\ "multiply" \in Kinds
    /\ \E o \in Products, n \in First, m \in Second, a \in Third :
          sum' = [k |-> "multiply", o |-> o, n |-> n, m |-> m, a |-> a, out |-> Multiplied(o, n, m, a)]

\* Two registers hold the accumulator and the result; UMAAL adds each of them.
LongProduct(o, n, m, hi, lo) ==
    LET acc == hi * 2 ^ Word + lo
        dual(i) == SignedHalf(n, i) * SignedHalf(m, i)
        signed == Cut(S(n) * S(m), Long)
    IN  Cut(CASE o = "smull" -> signed
              [] o = "smlal" -> acc + signed
              [] o = "umull" -> n * m
              [] o = "umlal" -> acc + n * m
              [] o = "umaal" -> n * m + lo + hi
              [] o = "smlald" -> acc + dual(0) + dual(1)
              [] o = "smlsld" -> acc + dual(0) - dual(1), Long)

LongProducts == {"smull", "smlal", "umull", "umlal", "umaal", "smlald", "smlsld"}

MultiplyLong ==
    /\ sum = Idle /\ "long" \in Kinds
    /\ \E o \in LongProducts, n \in First, m \in Second, hi, lo \in Third :
          LET p == LongProduct(o, n, m, hi, lo) IN
          sum' = [k |-> "long", o |-> o, n |-> n, m |-> m, hi |-> hi, lo |-> lo,
                  outHi |-> p \div 2 ^ Word, outLo |-> Cut(p, Word)]

\* Mutant: the quotient is rounded down.
QuotientDown(x, y) == IF y > 0 THEN x \div y ELSE (-x) \div (-y)

\* wrapping_div rounds to zero.
Quotient(x, y) ==
    LET q == Distance(x, 0) \div Distance(y, 0) IN IF (x < 0) = (y < 0) THEN q ELSE -q

\* By zero: a UsageFault if CCR.DIV_0_TRP asks for it, and 0 if not.
Divide ==
    /\ sum = Idle /\ "divide" \in Kinds
    /\ \E n \in First, m \in Second, signed, trap \in BOOLEAN :
          sum' = [k |-> "divide", n |-> n, m |-> m, signed |-> signed,
                  raised |-> m = 0 /\ trap,
                  out |-> IF m = 0 THEN 0
                          ELSE IF signed THEN Cut(Quotient(S(n), S(m)), Word) ELSE n \div m]

Next == Lanes \/ Select \/ QAdd \/ Saturate \/ Extend \/ Permute \/ Field \/ Multiply \/ MultiplyLong \/ Divide

Spec == Init /\ [][Next]_sum

-----------------------------------------------------------------------------
(* What the architecture says, by values and single bits.                    *)

Abs(v) == Distance(v, 0)
Bit(v, i) == Part(v, i, 1)

\* The member of lo..hi nearest to v.
Nearest(v, lo, hi) == CHOOSE n \in lo..hi : \A m \in lo..hi : Abs(n - v) <= Abs(m - v)

\* Every lane is the sum of a pair, saturated or halved.
LanesHold ==
    sum.k = "lanes" =>
        LET b == sum.shape.bits
            value(v) == IF sum.flavor \in {"Q", "SH"} THEN AsSigned(v, b) ELSE v
            range == {value(v) : v \in 0..(2 ^ b - 1)}
            other(i) == IF sum.shape.cross THEN 1 - i ELSE i
            exact(i) == value(Part(sum.n, i, b))
                        + (IF i \in sum.shape.subs THEN -1 ELSE 1) * value(Part(sum.m, other(i), b))
            lane(i) == Part(sum.out[1], i, b)
        IN  \A i \in 0..(Word \div b - 1) :
                IF sum.flavor \in {"Q", "UQ"}
                THEN /\ \A v \in range : Abs(value(lane(i)) - exact(i)) <= Abs(v - exact(i))
                     /\ exact(i) \notin range => sum.out[2]
                ELSE lane(i) = Cut(exact(i) \div 2, b)

\* SEL after USUB8 is the greater byte of each pair, and after UADD8 tells a carry.
SelectHolds ==
    sum.k = "select" =>
        \A i \in 0..3 :
            LET x == Part(sum.n, i, Byte)
                y == Part(sum.m, i, Byte)
                got == Part(sum.sel, i, Byte)
            IN  IF sum.sub THEN got = IF x >= y THEN x ELSE y
                ELSE /\ Part(sum.out[1], i, Byte) + (IF i \in sum.out[2] THEN 2 ^ Byte ELSE 0) = x + y
                     /\ got = IF i \in sum.out[2] THEN x ELSE y

QAddHolds ==
    sum.k = "qadd" =>
        LET lo == -(2 ^ (Word - 1))
            hi == 2 ^ (Word - 1) - 1
            d == IF sum.dbl THEN Nearest(2 * S(sum.n), lo, hi) ELSE S(sum.n)
            exact == S(sum.m) + (IF sum.sub THEN -d ELSE d)
        IN  /\ S(sum.out[1]) = Nearest(exact, lo, hi)
            /\ sum.out[2] = (exact \notin lo..hi \/ (sum.dbl /\ d # 2 * S(sum.n)))

SatHolds ==
    sum.k = "sat" =>
        LET shifted == IF sum.left THEN S(Cut(sum.a * 2 ^ sum.amt, Word)) ELSE S(sum.a) \div 2 ^ sum.amt
            lo == IF sum.signed THEN -(2 ^ sum.field) ELSE 0
        IN  /\ S(sum.out[1]) = Nearest(shifted, lo, 2 ^ sum.field - 1)
            /\ sum.out[2] = (S(sum.out[1]) # shifted)

\* Bit by bit: the low bits of the rotated word, and copies of the highest of them.
ExtendHolds ==
    sum.k = "extend" =>
        LET from(i) == Bit(sum.m, (i + sum.rot * Byte) % Word)
            v == Cut(sum.out - sum.n, Word)
        IN  \A i \in 0..(Word - 1) :
                Bit(v, i) = IF i < sum.bits THEN from(i) ELSE IF sum.signed THEN from(sum.bits - 1) ELSE 0

PermuteHolds ==
    sum.k = "permute" =>
        LET inByte(i) == i % Byte
            byte(i) == i \div Byte
            from(i) == CASE sum.o = "rev"   -> (3 - byte(i)) * Byte + inByte(i)
                         [] sum.o = "rbit"  -> Word - 1 - i
                         [] sum.o = "rev16" -> (byte(i) + 1 - 2 * (byte(i) % 2)) * Byte + inByte(i)
                         [] sum.o = "revsh" -> IF i < Half THEN (1 - byte(i)) * Byte + inByte(i) ELSE Byte - 1
        IN  IF sum.o = "clz" THEN sum.a * 2 ^ sum.out < 2 ^ Word /\ (sum.a > 0 => 2 * sum.a * 2 ^ sum.out >= 2 ^ Word)
                                  /\ sum.out <= Word
            ELSE \A i \in 0..(Word - 1) : Bit(sum.out, i) = Bit(sum.a, from(i))

FieldHolds ==
    sum.k = "field" =>
        LET w == sum.msb - sum.lsb + 1 IN
        \A i \in 0..(Word - 1) :
            /\ Bit(sum.out, i) = IF i < w THEN Bit(sum.a, i + sum.lsb) ELSE IF sum.signed THEN Bit(sum.a, sum.msb) ELSE 0
            /\ Bit(sum.ins, i) = IF i \in sum.lsb..sum.msb THEN Bit(sum.a, i - sum.lsb) ELSE Bit(sum.d, i)
            /\ Bit(sum.clr, i) = IF i \in sum.lsb..sum.msb THEN 0 ELSE Bit(sum.d, i)

\* The exact sum, of which the word is the remainder.  Left open: whether Q is set by
\* what wraps only on the way (SMLAD) or by SMLAxy and SMLAW, and what SMMLS rounds.
MultiplyHolds ==
    sum.k = "multiply" =>
        LET p(i, j) == SignedHalf(sum.n, i) * SignedHalf(sum.m, j)
            square == S(sum.n) * S(sum.m)
            exact == S(sum.a) + (CASE sum.o = "mla" -> square [] sum.o = "mls" -> -square
                                   [] sum.o = "smlabb" -> p(0, 0) [] sum.o = "smlabt" -> p(0, 1)
                                   [] sum.o = "smlatb" -> p(1, 0) [] sum.o = "smlatt" -> p(1, 1)
                                   [] sum.o = "smlad" -> p(0, 0) + p(1, 1) [] sum.o = "smlsd" -> p(0, 0) - p(1, 1)
                                   [] OTHER -> 0)
            fraction == S(sum.a) * 2 ^ Word + (IF sum.o \in {"smmls", "smmlsr"} THEN -square ELSE square)
                        + (IF sum.o \in {"smmlar", "smmlsr"} THEN 2 ^ (Word - 1) ELSE 0)
            apart(i) == Abs(Part(sum.n, i, Byte) - Part(sum.m, i, Byte))
            top == fraction \div 2 ^ Word
        IN  CASE sum.o \in {"smmla", "smmlar"} -> sum.out[1] = Cut(top, Word)
              [] sum.o \in {"smmls", "smmlsr"} ->
                    /\ sum.out[1] \in {Cut(top + e, Word) : e \in -1..1}
                    /\ square % 2 ^ Word = 0 => sum.out[1] = Cut(top, Word)
              [] sum.o \in {"smlawb", "smlawt"} ->
                    \E r \in 0..(2 ^ Half - 1) :
                        (S(sum.n) * SignedHalf(sum.m, IF sum.o = "smlawt" THEN 1 ELSE 0) - r) % 2 ^ (Word + Half)
                        = (Cut(sum.out[1] - sum.a, Word) * 2 ^ Half) % 2 ^ (Word + Half)
              [] sum.o = "usada8" ->
                    sum.out[1] = Cut(sum.a + apart(0) + apart(1) + apart(2) + apart(3), Word)
              [] OTHER -> /\ sum.out[1] = Cut(exact, Word)
                          /\ sum.o \in {"smlad", "smlsd"} /\ exact \notin -(2 ^ (Word - 1))..(2 ^ (Word - 1) - 1) => sum.out[2]

\* The two words together, as a value of the product's signedness.
LongHolds ==
    sum.k = "long" =>
        LET p(i) == SignedHalf(sum.n, i) * SignedHalf(sum.m, i)
            carried == IF sum.o \in {"smull", "umull"} THEN 0
                       ELSE IF sum.o = "umaal" THEN sum.lo + sum.hi ELSE sum.hi * 2 ^ Word + sum.lo
            exact == carried + (CASE sum.o \in {"smull", "smlal"} -> S(sum.n) * S(sum.m)
                                  [] sum.o = "smlald" -> p(0) + p(1) [] sum.o = "smlsld" -> p(0) - p(1)
                                  [] OTHER -> sum.n * sum.m)
            got == sum.outHi * 2 ^ Word + sum.outLo
        IN  /\ (got - exact) % 2 ^ Long = 0
            /\ sum.o = "smull" => AsSigned(got, Long) = exact
            /\ sum.o \in {"umull", "umaal"} => got = exact

\* A quotient is rounded to zero; by zero it is 0, or the instruction faults.
DivideHolds ==
    sum.k = "divide" =>
        LET n == IF sum.signed THEN S(sum.n) ELSE sum.n
            m == IF sum.signed THEN S(sum.m) ELSE sum.m
            q == IF sum.signed THEN S(sum.out) ELSE sum.out
            wraps == sum.signed /\ m = -1 /\ n = -(2 ^ (Word - 1))
        IN  /\ sum.raised => m = 0
            /\ IF m = 0 THEN q = 0
               ELSE wraps \/ (/\ Abs(q * m) <= Abs(n) /\ Abs(n) < Abs(q * m) + Abs(m)
                              /\ q # 0 => (q < 0) = ((n < 0) # (m < 0)))

\* Every result is the one the architecture gives, but for what is left open above.
DspExact ==
    /\ LanesHold /\ SelectHolds /\ QAddHolds /\ SatHolds /\ ExtendHolds /\ PermuteHolds
    /\ FieldHolds /\ MultiplyHolds /\ LongHolds /\ DivideHolds
=============================================================================
