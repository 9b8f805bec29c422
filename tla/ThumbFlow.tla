------------------------------ MODULE ThumbFlow ------------------------------
(***************************************************************************)
(* Where the interpreter goes next (cpu/thumb.rs): branches, calls, table    *)
(* branches, the operations on high registers that may write the program     *)
(* counter, and the constants formed from it, from SP or from the            *)
(* instruction.  An instruction carries the fields of its encoding, which     *)
(* alone its action reads, and where its label is or what its constant is,    *)
(* which alone the properties read.                                          *)
(***************************************************************************)
EXTENDS Integers

CONSTANTS
    Width,      \* bits of a word
    Hi, Lo,     \* bits of the halves of a long offset: 10 (6 if conditional) and 11
    Short,      \* bits of a short offset: 8 (11 if unconditional)
    Jump,       \* bits of the low part of CBZ's offset: 5
    Part,       \* bits of each of the four fields of MOVW's constant
    Reg, SP, LR, PC,
    Returns,    \* so many of the highest words are taken for EXC_RETURN
    Table,      \* the entries of a branch table
    Instr,      \* the instructions tried
    Files       \* the registers, the flags and the address they are tried with

VARIABLES
    regs, flags,
    pc,         \* the instruction's address, or the next one's
    left,       \* what was passed to exception_return
    halted,     \* the fault that stops the interpreter
    step        \* the last instruction

flowVars == <<regs, flags, pc, left, halted, step>>

Size == 2 ^ Width
Idle == [k |-> "none"]
Nothing == -1

Core == INSTANCE ThumbCore WITH it <- Idle, op <- step

Init ==
    /\ \E f \in Files : regs = f.regs /\ flags = f.flags /\ pc = f.pc
    /\ left = Nothing /\ halted = FALSE /\ step = Idle

-----------------------------------------------------------------------------
(* Reading and branching.                                                    *)

\* rr: the program counter reads as the address of the next instruction but one,
\* cut to a word boundary.
Aligned(v) == v - (v % 4)
Rr(r) == IF r = PC THEN Aligned(pc + 4) ELSE regs[r]

Sx(v, bits) == IF v >= 2 ^ (bits - 1) THEN v - 2 ^ bits ELSE v

\* branch: EXC_RETURN is told by its bits below the highest four.
IsReturn(t) == t % (Size \div 16) >= Size \div 16 - Returns

Goto(t) ==
    /\ left' = IF IsReturn(t) THEN t ELSE left
    /\ halted' = (~IsReturn(t) /\ t % 2 = 0)
    /\ pc' = IF IsReturn(t) \/ t % 2 = 0 THEN pc ELSE t - 1

\* A label's address, with the Thumb bit.
Near(offset) == Goto(((pc + 4 + offset) % Size) + 1)

Advance(i) == pc' = (pc + i.len) % Size /\ UNCHANGED <<left, halted>>
Set(r, v) == regs' = [regs EXCEPT ![r] = v % Size]
Quiet == UNCHANGED <<regs, flags>>

-----------------------------------------------------------------------------
(* Branches.                                                                 *)

\* Mutant: the bits J1 and J2 are taken as they stand.
LongOffsetDirect(i) ==
    Sx(i.s * 2 ^ (Hi + Lo + 3) + i.j1 * 2 ^ (Hi + Lo + 2) + i.j2 * 2 ^ (Hi + Lo + 1)
        + i.hi * 2 ^ (Lo + 1) + i.lo * 2, Hi + Lo + 4)

\* The offset of B.W and BL, whose bits J1 and J2 are inverted by the sign.
LongOffset(i) ==
    LET i1 == (i.j1 + i.s + 1) % 2
        i2 == (i.j2 + i.s + 1) % 2
    IN  Sx(i.s * 2 ^ (Hi + Lo + 3) + i1 * 2 ^ (Hi + Lo + 2) + i2 * 2 ^ (Hi + Lo + 1)
            + i.hi * 2 ^ (Lo + 1) + i.lo * 2, Hi + Lo + 4)

\* The offset of a conditional B.W takes them as they stand, J1 above J2.
CondOffset(i) ==
    Sx(i.s * 2 ^ (Hi + Lo + 3) + i.j1 * 2 ^ (Hi + Lo + 2) + i.j2 * 2 ^ (Hi + Lo + 1)
        + i.hi * 2 ^ (Lo + 1) + i.lo * 2, Hi + Lo + 4)

Branch(i) == Quiet /\ Near(Sx(i.imm * 2, Short + 1))
BranchCond(i) ==
    /\ Quiet
    /\ IF Core!CondOk(flags, i.cc) THEN Near(Sx(i.imm * 2, Short + 1)) ELSE Advance(i)

BranchWide(i) == Quiet /\ Near(LongOffset(i))
BranchCondWide(i) ==
    /\ Quiet
    /\ IF i.cc = 14 \/ Core!CondOk(flags, i.cc) THEN Near(CondOffset(i)) ELSE Advance(i)

BranchLink(i) == Set(LR, pc + 4 + 1) /\ Near(LongOffset(i)) /\ UNCHANGED flags

\* CBZ and CBNZ, forwards only.
CompareBranch(i) ==
    /\ Quiet
    /\ IF (Rr(i.n) = 0) # i.nonzero THEN Near(i.imm * 2 + i.top * 2 ^ (Jump + 1)) ELSE Advance(i)

\* TBB and TBH: the table of an unaligned instruction follows it at once.
TableBranch(i) ==
    LET table == IF i.n = PC THEN pc + 4 ELSE Rr(i.n)
        entry == Table[(table + Rr(i.m) * i.size) % Size]
    IN  Quiet /\ Near(entry * 2)

\* Mutant: a call through LR goes to where it should return.
CallLate(i) ==
    /\ Set(LR, pc + 2 + 1) /\ UNCHANGED flags
    /\ Goto(IF i.m = LR THEN pc + 3 ELSE Rr(i.m))

\* BLX: where to go is read before LR is written.
Call(i) == Set(LR, pc + 2 + 1) /\ UNCHANGED flags /\ Goto(Rr(i.m))
Exchange(i) == Quiet /\ Goto(Rr(i.m))

-----------------------------------------------------------------------------
(* High registers and constants.                                             *)

High(i) ==
    LET v == IF i.add THEN (Rr(i.d) + Rr(i.m)) % Size ELSE Rr(i.m) IN
    IF i.d = PC THEN Quiet /\ Goto(v)
    ELSE Set(i.d, v) /\ UNCHANGED flags /\ Advance(i)

HighCmp(i) ==
    /\ flags' = Core!SubFlags(Rr(i.d), Rr(i.m), 1).f
    /\ UNCHANGED regs /\ Advance(i)

Give(i, r, v) == Set(r, v) /\ UNCHANGED flags /\ Advance(i)

\* ADR, and ADD to SP's value.
FromPc(i) == Give(i, i.d, Aligned(pc + 4) + i.imm * 4)
FromSp(i) == Give(i, i.d, regs[SP] + i.imm * 4)
MoveSp(i) == Give(i, SP, IF i.sub THEN regs[SP] - i.imm * 4 ELSE regs[SP] + i.imm * 4)

\* MOVW's constant: one bit, and fields of which the highest comes first in the word.
Constant(i) == i.i * 2 ^ (2 * Part) + i.imm4 * 2 ^ (2 * Part + 1) + i.imm3 * 2 ^ Part + i.imm8
Half == 2 ^ (3 * Part + 1)

MoveWide(i) == Give(i, i.d, Constant(i))
MoveTop(i) == Give(i, i.d, (regs[i.d] % Half) + Constant(i) * Half)

\* ADDW and SUBW, which ADR.W is one of.
AddWide(i) ==
    LET imm == i.i * 2 ^ (2 * Part) + i.imm3 * 2 ^ Part + i.imm8 IN
    Give(i, i.d, IF i.sub THEN Rr(i.n) - imm ELSE Rr(i.n) + imm)

\* BKPT, UDF and what nothing decodes.
Undefined == Quiet /\ halted' = TRUE /\ UNCHANGED <<pc, left>>

Execute(i) ==
    /\ step = Idle /\ step' = i
    /\ CASE i.k = "b" -> Branch(i)
         [] i.k = "bcond" -> BranchCond(i)
         [] i.k = "bw" -> BranchWide(i)
         [] i.k = "bcondw" -> BranchCondWide(i)
         [] i.k = "bl" -> BranchLink(i)
         [] i.k = "cbz" -> CompareBranch(i)
         [] i.k = "table" -> TableBranch(i)
         [] i.k = "blx" -> Call(i)
         [] i.k = "bx" -> Exchange(i)
         [] i.k = "high" -> High(i)
         [] i.k = "highcmp" -> HighCmp(i)
         [] i.k = "adr" -> FromPc(i)
         [] i.k = "addsp" -> FromSp(i)
         [] i.k = "movesp" -> MoveSp(i)
         [] i.k = "movw" -> MoveWide(i)
         [] i.k = "movt" -> MoveTop(i)
         [] i.k = "addw" -> AddWide(i)
         [] i.k = "undefined" -> Undefined

Next == \E i \in Instr : Execute(i)

Spec == Init /\ [][Next]_flowVars

-----------------------------------------------------------------------------
(* What the architecture says, from the label or the constant.               *)

Arch == INSTANCE ThumbArch WITH r <- regs, psr <- flags, itstate <- <<0, 0>>, op <- step

Taken(i) ==
    CASE i.k \in {"bcond", "bcondw"} -> Arch!Passed(i.cc)
      [] i.k = "cbz" -> i.nonzero <=> regs[i.n] # 0
      [] i.k = "high" -> i.d = PC
      [] OTHER -> i.k \in {"b", "bw", "bl", "table", "bx", "blx"}

\* The word an operand is; the program counter is four ahead.
Value(r) == IF r = PC THEN pc + 4 ELSE regs[r]

\* A branch through a register has the Thumb bit in its target.
ByRegister(i) == i.k \in {"bx", "blx", "high"}
Sum(i) == (Value(i.m) + IF i.k = "high" /\ i.add THEN Value(i.d) ELSE 0) % Size
Destination(i) ==
    CASE ByRegister(i) -> Sum(i) - 1
      [] i.k = "table" -> (pc + 4 + 2 * Table[(Value(i.n) + i.size * regs[i.m]) % Size]) % Size
      [] OTHER -> (pc + i.to) % Size

\* What is written, if anything is.
Written(i) ==
    CASE i.k \in {"bl", "blx"} -> LR
      [] i.k = "movesp" -> SP
      [] i.k \in {"high", "adr", "addsp", "movw", "movt", "addw"} -> i.d
      [] OTHER -> Nothing

Result(i) ==
    CASE i.k \in {"bl", "blx"} -> pc + i.len + 1
      [] i.k = "high" -> Sum(i)
      [] i.k = "adr" -> Aligned(pc + 4) + i.value
      [] i.k = "addw" -> (IF i.n = PC THEN Aligned(pc + 4) ELSE regs[i.n]) + i.value
      [] i.k \in {"addsp", "movesp"} -> regs[SP] + i.value
      [] i.k = "movw" -> i.value
      [] i.k = "movt" -> (regs[i.d] % Half) + i.value * Half

FlagsAfter(i) ==
    IF i.k = "highcmp" THEN Arch!AddWithCarry(regs[i.d], Arch!Not(Value(i.m)), 1).f ELSE flags

\* Left open: the program counter as an operand of an instruction that is no word's
\* multiple away, the other readings of EXC_RETURN, a jump by an even word where
\* the architecture ignores the lowest bit, and a conditional B.W so far away that J1 # J2.
Open(i) ==
    \/ i.k \in {"high", "highcmp", "bx", "blx"} /\ pc % 4 # 0 /\ PC \in {i.m, IF i.k = "high" /\ i.add THEN i.d ELSE i.m}
    \/ ByRegister(i) /\ Taken(i) /\ IsReturn(Sum(i))
    \/ i.k = "high" /\ i.d = PC /\ Sum(i) % 2 = 0
    \/ i.k = "bcondw" /\ (i.cc = 14 \/ i.j1 # i.j2)
    \/ Taken(i) /\ ~ByRegister(i) /\ IsReturn(Destination(i) + 1)

-----------------------------------------------------------------------------
(* Properties.                                                               *)

\* Every branch goes to its label or its register's address and nowhere else, a call
\* leaves LR behind it where the next instruction is, and a constant is the one
\* that was written.  An even address stops the interpreter.
FlowOf(i) ==
    /\ \A r \in Reg : regs'[r] = IF r = Written(i) THEN Result(i) % Size ELSE regs[r]
    /\ flags' = FlagsAfter(i) /\ left' = left
    /\ halted' = (i.k = "undefined" \/ (ByRegister(i) /\ Taken(i) /\ Sum(i) % 2 = 0))
    /\ ~halted' => pc' = IF Taken(i) THEN Destination(i) ELSE (pc + i.len) % Size

FlowExact == [][step' # Idle /\ ~Open(step') => FlowOf(step')]_flowVars

\* The same of the instructions it leaves open.
FarExact == [][step'.k = "bcondw" /\ step'.cc # 14 => FlowOf(step')]_flowVars
=============================================================================
