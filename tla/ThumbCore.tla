------------------------------ MODULE ThumbCore ------------------------------
(***************************************************************************)
(* Data processing of the instruction interpreter (cpu/thumb.rs): the        *)
(* flag-setting 16-bit instructions, their 32-bit relatives with a shifted    *)
(* operand, and IT blocks.  Registers are Width bits wide, and what the code   *)
(* says of bit 31 or of an amount of 32 is said of their highest bit and of    *)
(* their width.  Fetch chooses the next instruction; branches, loads and      *)
(* stores, which leave the flags alone, are left out.                         *)
(***************************************************************************)
EXTENDS Integers, Bitwise

CONSTANTS
    Width,
    Reg,        \* general registers; PC stands for register 15
    Instr,      \* the instructions of the program
    PC

VARIABLES
    regs,       \* the registers
    flags,      \* the flags that are set
    it,         \* it_cond, it_mask, it_n, it_idx
    op          \* the instruction being executed

coreVars == <<regs, flags, it, op>>

Size == 2 ^ Width
Word == 0..(Size - 1)
Top  == 2 ^ (Width - 1)
Idle == [k |-> "none"]
NoBlock == [cond |-> 0, mask |-> 0, n |-> 0, idx |-> 0]

Init ==
    /\ regs = [r \in Reg |-> 0] /\ flags = {} /\ it = NoBlock /\ op = Idle

-----------------------------------------------------------------------------
(* Results and flags.                                                        *)

Bit(v, i) == (v \div 2 ^ i) % 2
Inverted(v) == Size - 1 - v
If(b, f) == IF b THEN {f} ELSE {}

NzOf(r) == If(r = 0, "Z") \cup If(r >= Top, "N")
Nz(f, r) == (f \ {"N", "Z"}) \cup NzOf(r)
NzC(f, r, co) == (Nz(f, r) \ {"C"}) \cup If(co = 1, "C")

Carry == IF "C" \in flags THEN 1 ELSE 0

AddFlags(a, b, ci) ==
    LET r == (a + b + ci) % Size IN
    [r |-> r, f |-> NzOf(r) \cup If(a + b + ci >= Size, "C")
                            \cup If(((a ^^ r) & (b ^^ r)) >= Top, "V")]

\* Mutant: the borrow is taken from the operands alone.
SubFlagsNoCarry(a, b, ci) ==
    LET r == (a - b - (1 - ci)) % Size IN
    [r |-> r, f |-> NzOf(r) \cup If(~(a < b), "C")
                            \cup If(((a ^^ b) & (a ^^ r)) >= Top, "V")]

SubFlags(a, b, ci) ==
    LET r == (a - b - (1 - ci)) % Size IN
    [r |-> r, f |-> NzOf(r) \cup If(~(a < b + (1 - ci)), "C")
                            \cup If(((a ^^ b) & (a ^^ r)) >= Top, "V")]

\* shift_op: an amount of 0 from a register shifts nothing; as a constant it
\* stands for the width, and for RRX.
ShiftOp(v, typ, amt, ci, byReg) ==
    IF byReg /\ amt = 0 THEN <<v, ci>>
    ELSE
    CASE typ = "lsl" ->
            IF amt = 0 THEN <<v, ci>>
            ELSE IF amt < Width THEN <<(v * 2 ^ amt) % Size, Bit(v, Width - amt)>>
            ELSE IF amt = Width THEN <<0, v % 2>> ELSE <<0, 0>>
      [] typ = "lsr" ->
            IF amt \in {0, Width} THEN <<0, Bit(v, Width - 1)>>
            ELSE IF amt < Width THEN <<v \div 2 ^ amt, Bit(v, amt - 1)>> ELSE <<0, 0>>
      [] typ = "asr" ->
            LET sign == IF v >= Top THEN Size - 1 ELSE 0 IN
            IF amt = 0 \/ amt >= Width THEN <<sign, Bit(v, Width - 1)>>
            ELSE <<(v \div 2 ^ amt) | ((sign * 2 ^ (Width - amt)) % Size), Bit(v, amt - 1)>>
      [] OTHER ->
            LET s == amt % Width IN
            IF amt = 0 THEN <<(ci * Top) | (v \div 2), v % 2>>
            ELSE IF s = 0 THEN <<v, Bit(v, Width - 1)>>
            ELSE <<(v \div 2 ^ s) | ((v * 2 ^ (Width - s)) % Size), Bit(v, s - 1)>>

-----------------------------------------------------------------------------
(* Predication.                                                              *)

CondOk(f, cc) ==
    LET n == "N" \in f  z == "Z" \in f  c == "C" \in f  v == "V" \in f IN
    CASE cc = 0 -> z [] cc = 1 -> ~z [] cc = 2 -> c [] cc = 3 -> ~c
      [] cc = 4 -> n [] cc = 5 -> ~n [] cc = 6 -> v [] cc = 7 -> ~v
      [] cc = 8 -> c /\ ~z [] cc = 9 -> ~c \/ z
      [] cc = 10 -> n = v [] cc = 11 -> n # v
      [] cc = 12 -> ~z /\ n = v [] cc = 13 -> z \/ n # v
      [] cc = 14 -> TRUE [] OTHER -> FALSE

Pred == it.n > 0
Slot == it.idx + 1

SlotCond ==
    IF Slot = 1 \/ Bit(it.mask, 5 - Slot) = it.cond % 2 THEN it.cond ELSE it.cond ^^ 1

\* it_ok: whether the instruction executes, and the slot it consumes.
ItOk == Pred => CondOk(flags, SlotCond)
SlotUsed == IF ~Pred \/ Slot < it.n THEN [it EXCEPT !.idx = IF Pred THEN Slot ELSE @]
            ELSE [it EXCEPT !.n = 0, !.idx = 0]

-----------------------------------------------------------------------------
(* Instructions.                                                             *)

Executes(k) == op.k = k /\ ItOk /\ it' = SlotUsed /\ op' = Idle

Store(d, r) == regs' = IF d = PC THEN regs ELSE [regs EXCEPT ![d] = r]

\* In a block the 16-bit forms leave the flags alone.
Quiet(f) == flags' = IF Pred THEN flags ELSE f

\* A constant amount of 0 shifts right by the width; to the left it is a move.
MoveShift ==
    /\ Executes("shift")
    /\ LET amt == IF op.typ # "lsl" /\ op.amt = 0 THEN Width ELSE op.amt
           s   == ShiftOp(regs[op.m], op.typ, amt, Carry, FALSE)
       IN  /\ Store(op.d, s[1])
           /\ Quiet(IF op.typ = "lsl" /\ op.amt = 0 THEN flags ELSE NzC(flags, s[1], s[2]))

AddSub ==
    /\ Executes("addsub")
    /\ LET b == IF op.reg THEN regs[op.m] ELSE op.m
           s == IF op.sub THEN SubFlags(regs[op.n], b, 1) ELSE AddFlags(regs[op.n], b, 0)
       IN  Store(op.d, s.r) /\ Quiet(s.f)

MovImm == Executes("mov") /\ Store(op.d, op.m) /\ Quiet(Nz(flags, op.m) \ {"V"})

\* A test has no other effect than its flags and sets them in a block too.
CmpImm == Executes("cmp") /\ regs' = regs /\ flags' = SubFlags(regs[op.n], op.m, 1).f

\* The sixteen operations on two registers.
Alu ==
    /\ Executes("alu")
    /\ LET a == regs[op.d]
           b == regs[op.m]
           logical(r) == Store(op.d, r) /\ Quiet(Nz(flags, r))
           shift(typ) == LET s == ShiftOp(a, typ, b, Carry, TRUE) IN
                         Store(op.d, s[1]) /\ Quiet(NzC(flags, s[1], s[2]))
           sum(s)     == Store(op.d, s.r) /\ Quiet(s.f)
           test(f)    == regs' = regs /\ flags' = f
       IN  CASE op.sop = "and" -> logical(a & b)
             [] op.sop = "eor" -> logical(a ^^ b)
             [] op.sop = "orr" -> logical(a | b)
             [] op.sop = "mul" -> logical((a * b) % Size)
             [] op.sop = "bic" -> logical(a & Inverted(b))
             [] op.sop = "mvn" -> logical(Inverted(b))
             [] op.sop \in {"lsl", "lsr", "asr", "ror"} -> shift(op.sop)
             [] op.sop = "adc" -> sum(AddFlags(a, b, Carry))
             [] op.sop = "sbc" -> sum(SubFlags(a, b, Carry))
             [] op.sop = "rsb" -> sum(SubFlags(0, b, 1))
             [] op.sop = "tst" -> test(Nz(flags, a & b))
             [] op.sop = "cmp" -> test(SubFlags(a, b, 1).f)
             [] op.sop = "cmn" -> test(AddFlags(a, b, 0).f)

\* alu_op, the 32-bit operations, of two values: the result and its flags.  Only a
\* move keeps the carry-out of its operand's shift.
AluOp(name, a, b, co) ==
    LET logical(r) == [r |-> r, f |-> Nz(flags, r)] IN
    CASE name = "mov" -> [r |-> b, f |-> NzC(flags, b, co)]
      [] name = "mvn" -> logical(Inverted(b))
      [] name = "and" -> logical(a & b)
      [] name = "bic" -> logical(a & Inverted(b))
      [] name = "orr" -> logical(a | b)
      [] name = "orn" -> logical(a | Inverted(b))
      [] name = "eor" -> logical(a ^^ b)
      [] name = "add" -> AddFlags(a, b, 0)
      [] name = "adc" -> AddFlags(a, b, Carry)
      [] name = "sbc" -> SubFlags(a, b, Carry)
      [] name = "sub" -> SubFlags(a, b, 1)
      [] name = "rsb" -> SubFlags(b, a, 1)

\* A 32-bit form says itself whether it sets flags; with the program counter as
\* destination it is a test.
Says(t) == Store(op.d, t.r) /\ flags' = IF op.s THEN t.f ELSE flags

Wide ==
    /\ Executes("wide")
    /\ LET s == ShiftOp(regs[op.m], op.typ, op.amt, Carry, FALSE)
       IN  Says(AluOp(op.wop, regs[op.n], s[1], s[2]))

\* The carry-out that expand_imm gives with a constant is used by none of them.
WideImm == Executes("wideimm") /\ Says(AluOp(op.wop, regs[op.n], op.m, Carry))

\* The 32-bit shifts by a register.
LongShift ==
    /\ Executes("long")
    /\ LET s == ShiftOp(regs[op.n], op.typ, regs[op.m], Carry, TRUE)
       IN  Says([r |-> s[1], f |-> NzC(flags, s[1], s[2])])

Zeros(mask) == CHOOSE z \in 0..3 : Bit(mask, z) = 1 /\ mask % 2 ^ z = 0

\* IT begins a block, whatever is left of the one it stands in.
It ==
    /\ op.k = "it" /\ ItOk /\ op' = Idle
    /\ it' = [cond |-> op.cond, mask |-> op.mask, n |-> 4 - Zeros(op.mask), idx |-> 0]
    /\ UNCHANGED <<regs, flags>>

\* An instruction whose condition fails only consumes its slot.
Skip ==
    /\ op # Idle /\ ~ItOk /\ it' = SlotUsed /\ op' = Idle
    /\ UNCHANGED <<regs, flags>>

Fetch ==
    /\ op = Idle /\ op' \in Instr
    /\ UNCHANGED <<regs, flags, it>>

Next == Fetch \/ MoveShift \/ AddSub \/ MovImm \/ CmpImm \/ Alu \/ Wide \/ WideImm \/ LongShift
        \/ It \/ Skip

Spec == Init /\ [][Next]_coreVars

-----------------------------------------------------------------------------
(* Properties.                                                               *)

TypeOK ==
    /\ regs \in [Reg -> Word] /\ flags \subseteq {"N", "Z", "C", "V"}
    /\ it.n \in 0..4 /\ it.idx \in 0..3 /\ (it.n > 0 => it.idx < it.n)

\* The architecture's ITSTATE, <<condition, mask>>, shifted by the slots used.
ItState ==
    IF it.n = 0 THEN <<0, 0>>
    ELSE LET five == (it.cond % 2) * 16 + it.mask
             left == (five * 2 ^ it.idx) % 32
         IN  <<(it.cond \div 2) * 2 + left \div 16, left % 16>>

Arch == INSTANCE ThumbArch WITH r <- regs, psr <- flags, itstate <- ItState

\* Whatever the registers, the flags and the block it stands in, an instruction
\* does what the architecture says: to its register, to each flag, and to the
\* conditions of the instructions that follow.
IsThumb == Arch!Spec
=============================================================================
