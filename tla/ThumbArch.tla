------------------------------ MODULE ThumbArch ------------------------------
(***************************************************************************)
(* What the architecture says of the instructions of ThumbCore, by numbers    *)
(* where the interpreter goes by bits: sums and differences of unsigned and   *)
(* signed values, shifts as products and quotients, logic bit by bit, and      *)
(* ITSTATE as a condition and a mask that moves up by one at each instruction. *)
(***************************************************************************)
EXTENDS Integers

CONSTANTS Width, Reg, PC

VARIABLES r, psr, itstate, op

view == <<r, psr, itstate, op>>

Size == 2 ^ Width
Idle == [k |-> "none"]
Bits == 0..(Width - 1)
Bit(v, i) == (v \div 2 ^ i) % 2
Signed(v) == IF 2 * v >= Size THEN v - Size ELSE v
Flag(b, f) == IF b THEN {f} ELSE {}

Init == r = [n \in Reg |-> 0] /\ psr = {} /\ itstate = <<0, 0>> /\ op = Idle

-----------------------------------------------------------------------------
C == IF "C" \in psr THEN 1 ELSE 0

\* A value with all four flags, or with those of a result that is no sum.
AddWithCarry(x, y, c) ==
    LET v == (x + y + c) % Size IN
    [v |-> v, f |-> Flag(v = 0, "Z") \cup Flag(Signed(v) < 0, "N")
                    \cup Flag(v # x + y + c, "C") \cup Flag(Signed(v) # Signed(x) + Signed(y) + c, "V")]

Not(x) == Size - 1 - x

Logical(v, carry) ==
    [v |-> v, f |-> Flag(v = 0, "Z") \cup Flag(Signed(v) < 0, "N") \cup Flag(carry = 1, "C")
                    \cup (psr \cap {"V"})]

\* The word with the bits of x and y combined.
BitByBit(x, y, F(_, _)) == CHOOSE v \in 0..(Size - 1) : \A i \in Bits : Bit(v, i) = F(Bit(x, i), Bit(y, i))

Both(x, y) == BitByBit(x, y, LAMBDA a, b : a * b)
Either(x, y) == BitByBit(x, y, LAMBDA a, b : IF a + b > 0 THEN 1 ELSE 0)
One(x, y) == BitByBit(x, y, LAMBDA a, b : (a + b) % 2)

\* The value shifted by n places, and the last bit that was shifted out.
Shifted(x, type, n) ==
    IF n = 0 THEN <<x, C>>
    ELSE CASE type = "lsl" -> <<(x * 2 ^ n) % Size, ((x * 2 ^ n) \div Size) % 2>>
           [] type = "lsr" -> <<x \div 2 ^ n, (x \div 2 ^ (n - 1)) % 2>>
           [] type = "asr" -> <<(Signed(x) \div 2 ^ n) % Size, (Signed(x) \div 2 ^ (n - 1)) % 2>>
           [] type = "ror" ->
                LET turn == [i \in Bits |-> Bit(x, (i + n) % Width)]
                    v == CHOOSE w \in 0..(Size - 1) : \A i \in Bits : Bit(w, i) = turn[i]
                IN  <<v, turn[Width - 1]>>

\* DecodeImmShift: what a constant amount stands for.
ShiftedBy(x, type, amt) ==
    IF amt # 0 THEN Shifted(x, type, amt)
    ELSE IF type = "ror" THEN <<(C * Size + x) \div 2, x % 2>>
    ELSE Shifted(x, type, IF type = "lsl" THEN 0 ELSE Width)

Arithmetic(name, x, y) ==
    CASE name = "add" \/ name = "cmn" -> AddWithCarry(x, y, 0)
      [] name = "adc" -> AddWithCarry(x, y, C)
      [] name = "sbc" -> AddWithCarry(x, Not(y), C)
      [] name = "sub" \/ name = "cmp" -> AddWithCarry(x, Not(y), 1)
      [] name = "rsb" -> AddWithCarry(Not(x), y, 1)

Combined(name, x, y) ==
    CASE name = "and" \/ name = "tst" -> Both(x, y)
      [] name = "eor" -> One(x, y)
      [] name = "orr" -> Either(x, y)
      [] name = "orn" -> Either(x, Not(y))
      [] name = "bic" -> Both(x, Not(y))
      [] name = "mul" -> (x * y) % Size
      [] name = "mov" -> y
      [] name = "mvn" -> Not(y)

Sums == {"add", "cmn", "adc", "sbc", "sub", "cmp", "rsb"}
Tests == {"tst", "cmp", "cmn"}

\* The result of an instruction, by its form.
Result ==
    LET by(name, x, y, carry) == IF name \in Sums THEN Arithmetic(name, x, y)
                                 ELSE Logical(Combined(name, x, y), carry)
        shifted(s) == Logical(s[1], s[2])
        operand == ShiftedBy(r[op.m], op.typ, op.amt)
    IN  CASE op.k = "shift" -> shifted(operand)
          [] op.k = "addsub" ->
                by(IF op.sub THEN "sub" ELSE "add", r[op.n], IF op.reg THEN r[op.m] ELSE op.m, C)
          [] op.k = "mov" -> by("mov", 0, op.m, C)
          [] op.k = "cmp" -> by("cmp", r[op.n], op.m, C)
          [] op.k = "alu" /\ op.sop \in {"lsl", "lsr", "asr", "ror"} ->
                shifted(Shifted(r[op.d], op.sop, r[op.m]))
          [] op.k = "alu" /\ op.sop = "rsb" -> by("rsb", r[op.m], 0, C)
          [] op.k = "alu" /\ op.sop \notin {"lsl", "lsr", "asr", "ror", "rsb"} ->
                by(op.sop, r[op.d], r[op.m], C)
          [] op.k = "wide" -> by(op.wop, r[op.n], operand[1], operand[2])
          [] op.k = "wideimm" -> by(op.wop, r[op.n], op.m, C)
          [] op.k = "long" -> shifted(Shifted(r[op.n], op.typ, r[op.m]))

Wide == {"wide", "wideimm", "long"}

IsTest == op.k = "cmp" \/ (op.k = "alu" /\ op.sop \in Tests) \/ (op.k \in Wide /\ op.d = PC)

\* A 16-bit instruction in a block sets no flags unless it is a test.
SetsFlags == IF op.k \in Wide THEN op.s ELSE IsTest \/ itstate[2] = 0

\* Left open here, since the interpreter's comments lay them down otherwise: a move
\* by way of a shift by 0 sets no flags, a move of a constant clears V, and the
\* 32-bit logical operations keep C, except a MOV of a shifted register.
Open ==
    CASE op.k = "shift" /\ op.typ = "lsl" /\ op.amt = 0 -> {"N", "Z", "C", "V"}
      [] op.k = "mov" -> {"V"}
      [] op.k = "wideimm" /\ op.wop \notin Sums -> {"C"}
      [] op.k = "wide" /\ op.wop \notin Sums \cup {"mov"} -> {"C"}
      [] OTHER -> {}

-----------------------------------------------------------------------------
\* ConditionPassed: the condition's high bits choose a test, its lowest inverts it.
Passed(cond) ==
    LET n == "N" \in psr  z == "Z" \in psr  c == "C" \in psr  v == "V" \in psr
        base == CASE cond \div 2 = 0 -> z [] cond \div 2 = 1 -> c [] cond \div 2 = 2 -> n
                  [] cond \div 2 = 3 -> v [] cond \div 2 = 4 -> c /\ ~z [] cond \div 2 = 5 -> n = v
                  [] cond \div 2 = 6 -> n = v /\ ~z [] OTHER -> TRUE
    IN  IF cond % 2 = 1 /\ cond # 15 THEN ~base ELSE base

\* ITAdvance: the mask moves into the condition's lowest bit.
Advanced ==
    LET cond == itstate[1]  mask == itstate[2] IN
    IF mask % 8 = 0 THEN <<0, 0>>
    ELSE <<(cond \div 2) * 2 + mask \div 8, (2 * mask) % 16>>

Goes == itstate[2] = 0 \/ Passed(itstate[1])

Execute ==
    /\ op # Idle /\ op' = Idle
    /\ IF ~Goes THEN UNCHANGED <<r, psr>> /\ itstate' = Advanced
       ELSE IF op.k = "it" THEN UNCHANGED <<r, psr>> /\ itstate' = <<op.cond, op.mask>>
       ELSE /\ r' = IF IsTest THEN r ELSE [r EXCEPT ![op.d] = Result.v]
            /\ psr' \ Open = (IF SetsFlags THEN Result.f ELSE psr) \ Open
            /\ itstate' = Advanced

\* Whatever instruction comes next.
Fetch == op = Idle /\ op' # Idle /\ UNCHANGED <<r, psr, itstate>>

Spec == Init /\ [][Execute \/ Fetch]_view
=============================================================================
