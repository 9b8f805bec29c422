-------------------------------- MODULE MCCore ------------------------------
(***************************************************************************)
(* The processor on small instances: its contexts, the instructions and the  *)
(* arithmetic they rest on.  They share nothing here, so a behaviour is one   *)
(* of them: `part' says which.  The contexts of nested handlers are module    *)
(* ExcContext itself, the rest are instances.                                 *)
(***************************************************************************)
EXTENDS ExcContext, TLC

CONSTANT Parts

VARIABLES
    part,
    osMem, osR13, osMsp, osPsp, osSpsel, osLr, osCtx, osSfile, osFpca, osLspact, osFpcar,
    osIt, osExcStack, osItStack, osFpStack, osInvpc, osCurrent, osLive, osPushed, osTcb,
    regs, flags, block, op,
    cells, file, target, refused, done,
    sum,
    place, status, pc, left, halted, step,
    single, core, words, fpscr, apsr, inUse, undone, last

\* One level of handlers that switch tasks, lazy FP stacking, padded frames; the constants
\* say two levels without tasks, eager FP stacking, frames that need no padding.
Switched == INSTANCE ExcContext WITH
    Tasks <- 2, MaxDepth <- 1, MaxPush <- 1, Region <- 16, Lazy <- TRUE, StkAlign <- TRUE,
    Ops <- {"push", "fpu", "start", "switch"},
    mem <- osMem, r13 <- osR13, msp <- osMsp, psp <- osPsp, spsel <- osSpsel, lr <- osLr,
    ctx <- osCtx, sfile <- osSfile, fpca <- osFpca, lspact <- osLspact, fpcar <- osFpcar,
    it <- osIt, excStack <- osExcStack, itStack <- osItStack, fpStack <- osFpStack,
    invpc <- osInvpc, current <- osCurrent, live <- osLive, pushed <- osPushed, tcb <- osTcb

\* Every data instruction on two registers; blocks of IT around a few on one.
Shifts == {"lsl", "lsr", "asr"} \X {0, 1} \cup {<<"ror", 0>>, <<"ror", 1>>}
AluOps == {"and", "eor", "lsl", "lsr", "asr", "adc", "sbc", "ror", "tst", "rsb", "cmp", "cmn", "orr", "mul", "bic", "mvn"}
WideOps == {"and", "bic", "orr", "mov", "orn", "mvn", "eor", "add", "adc", "sbc", "sub", "rsb"}
WideTests == {"and", "eor", "add", "sub"}
Its(blocks) == {[k |-> "it", cond |-> b[1], mask |-> b[2]] : b \in blocks}
Narrow ==
    [k : {"shift"}, typ : {"lsl", "lsr", "asr"}, amt : {0, 1}, d : {0, 1}, m : {0, 1}]
    \cup [k : {"addsub"}, sub : BOOLEAN, reg : {TRUE}, n : {0, 1}, m : {0, 1}, d : {0}]
    \cup [k : {"addsub"}, sub : BOOLEAN, reg : {FALSE}, n : {0, 1}, m : {0, 1, 6}, d : {0}]
    \cup [k : {"mov"}, d : {0, 1}, m : {0, 1, 6}] \cup [k : {"cmp"}, n : {0, 1}, m : {0, 1, 6}]
    \cup [k : {"alu"}, sop : AluOps, d : {0}, m : {0, 1}]
Long ==
    {[k |-> "wide", wop |-> w, s |-> s, d |-> 0, n |-> 0, m |-> 1, typ |-> t[1], amt |-> t[2]] :
        w \in WideOps, s \in BOOLEAN, t \in Shifts}
    \cup [k : {"wide"}, wop : WideTests, s : {TRUE}, d : {15}, n : {0}, m : {1}, typ : {"lsl"}, amt : {0}]
    \cup [k : {"wideimm"}, wop : WideOps, s : BOOLEAN, d : {0}, n : {0}, m : {1, 6}]
    \cup [k : {"wideimm"}, wop : WideTests, s : {TRUE}, d : {15}, n : {0}, m : {1}]
    \cup [k : {"long"}, typ : {"lsl", "lsr", "asr", "ror"}, s : BOOLEAN, d : {0}, n : {0}, m : {1}]
Predicated ==
    [k : {"mov"}, d : {0}, m : {0, 1, 3}] \cup [k : {"cmp"}, n : {0}, m : {1, 2}]
    \cup [k : {"addsub"}, sub : BOOLEAN, reg : {TRUE}, n : {0}, m : {0}, d : {0}]

Core == INSTANCE ThumbCore WITH
    Width <- 3, Reg <- {0, 1}, PC <- 15, it <- block, Instr <- Narrow \cup Long \cup Its({<<0, 8>>})
Blocks == INSTANCE ThumbCore WITH
    Width <- 3, Reg <- {0, 1}, PC <- 15, it <- block,
    Instr <- Predicated \cup Its({<<0, 8>>, <<1, 12>>, <<0, 12>>, <<10, 6>>, <<12, 13>>, <<3, 5>>, <<14, 8>>})

\* Words of two fraction and three exponent bits; to and from halves, of four and four.
Finite(signBit, inf) == (0..inf) \cup (signBit..(signBit + inf))
Some == {0, 1, 4, 9, 12, 13, 14, 27, 32, 33, 45, 59}
Arith == INSTANCE ThumbArith WITH
    F <- 2, E <- 3, HF <- 1, HE <- 2, Limit <- 7, NarrowLimit <- 7, RModes <- 0..3,
    First <- Finite(32, 28), Second <- Some, Third <- Some, Kinds <- {"fma", "div", "sqrt"}
Halves == INSTANCE ThumbArith WITH
    F <- 4, E <- 4, HF <- 2, HE <- 3, Limit <- 7, NarrowLimit <- 7, RModes <- 0..3,
    First <- Finite(256, 240), Second <- {}, Third <- {}, Kinds <- {"narrow", "widen"}

\* Words of four bytes of two bits.
Corners == {0, 1, 3, 63, 64, 101, 127, 128, 170, 255}
Dsp == INSTANCE ThumbDsp WITH
    Byte <- 2, First <- Corners, Second <- Corners, Third <- {0, 1, 128, 255},
    Kinds <- {"lanes", "select", "qadd", "sat", "extend", "permute", "field", "multiply", "long", "divide"}

\* Words of four one-bit bytes: eight addresses of RAM, four of flash, four of nothing.
Ones ==
    {i \in [k : {"one"}, form : {"imm", "reg", "puw"}, load : BOOLEAN, size : {1, 2, 4}, signed : BOOLEAN,
            t : {0, 1, 15}, n : {0}, m : {1}, sh : {0, 1}, imm : {0, 3}, p : BOOLEAN, u : BOOLEAN, w : BOOLEAN] :
        /\ i.signed => i.load /\ i.size < 4
        /\ i.t = 15 => i.load /\ i.size = 4
        /\ IF i.form = "reg" THEN i.imm = 0 ELSE i.sh = 0
        /\ i.form # "puw" => i.p /\ i.u /\ ~i.w}
Pairs == {i \in [k : {"two"}, load : BOOLEAN, t : {0}, t2 : {1, 13}, n : {0, 1}, imm : {0, 4},
                 p : BOOLEAN, u : BOOLEAN, w : BOOLEAN] : i.p \/ i.w}
Nonempty(S) == SUBSET S \ {{}}
Blockwise ==
    [k : {"push"}, list : Nonempty({0, 1, 14})] \cup [k : {"pop"}, list : Nonempty({0, 1, 15})]
    \cup [k : {"narrow"}, load : BOOLEAN, n : {0, 1}, list : Nonempty({0, 1})]
    \cup {i \in [k : {"long"}, load : BOOLEAN, n : {0, 13}, list : Nonempty({0, 1, 14, 15}), ia : BOOLEAN, w : BOOLEAN] :
            15 \in i.list => i.load}
Literals == {i \in [k : {"literal"}, imm : {0, 3, 7, 8}, t : {0}, size : {1, 2, 4}, signed : BOOLEAN] :
                i.signed => i.size < 4}
Exclusives == {i \in [k : {"exclusive"}, load : BOOLEAN, size : {1, 2, 4}, n : {0}, t : {1}, d : {13}, imm : {0, 4}] :
                i.size < 4 => i.imm = 0}
Memory == INSTANCE ThumbMemory WITH
    Byte <- 2, Ram <- 0..7, Flash <- 8..11, Reg <- {0, 1, 13, 14}, SP <- 13, PC <- 15, Here <- 2,
    Files <- {[r \in {0, 1, 13, 14} |-> CASE r = 0 -> a [] r = 1 -> b [] r = 13 -> c [] OTHER -> 5] :
                a \in {0, 6, 9}, b \in {1, 14}, c \in {4, 12}},
    Instr <- Ones \cup Pairs \cup Blockwise \cup Literals \cup Exclusives

\* The fields of a label d bytes from the instruction: halves of one bit each.
Twos(n, bits) == (n \div 2) % 2 ^ bits
LongFields(d) ==
    LET v == Twos(d - 4, 5)
        s == v \div 16
    IN  [s |-> s, j1 |-> 1 - ((s + v \div 8) % 2), j2 |-> 1 - ((s + v \div 4) % 2), hi |-> (v \div 2) % 2, lo |-> v % 2]
CondFields(d) ==
    LET v == Twos(d - 4, 5) IN
    [s |-> v \div 16, j2 |-> (v \div 8) % 2, j1 |-> (v \div 4) % 2, hi |-> (v \div 2) % 2, lo |-> v % 2]
Kind(k, len) == [k |-> k, len |-> len]
Labels(n) == {2 * x + 4 : x \in (-n)..(n - 1)}
Jumps ==
    {[imm |-> Twos(d - 4, 3), to |-> d] @@ Kind("b", 2) : d \in Labels(4)}
    \cup {[imm |-> Twos(d - 4, 3), to |-> d, cc |-> c] @@ Kind("bcond", 2) : d \in Labels(4), c \in 0..13}
    \cup {LongFields(d) @@ [to |-> d] @@ Kind(k, 4) : d \in Labels(16), k \in {"bw", "bl"}}
    \cup {CondFields(d) @@ [to |-> d, cc |-> c] @@ Kind("bcondw", 4) : d \in Labels(16), c \in {0, 1, 10}}
    \cup {[imm |-> (d \div 2) % 4, top |-> d \div 8, to |-> d + 4, nonzero |-> z, n |-> 0] @@ Kind("cbz", 2) :
            d \in {0, 2, 6, 8, 14}, z \in BOOLEAN}
    \cup {[n |-> n, m |-> 1, size |-> z] @@ Kind("table", 4) : n \in {0, 15}, z \in {1, 2}}
    \cup {[m |-> m] @@ Kind(k, 2) : m \in {0, 1, 14, 15}, k \in {"bx", "blx"}}
Constants ==
    {[d |-> d, m |-> m, add |-> a] @@ Kind("high", 2) : d \in {0, 13, 15}, m \in {0, 1, 14, 15}, a \in BOOLEAN}
    \cup {[d |-> 0, m |-> m] @@ Kind("highcmp", 2) : m \in {1, 14}}
    \cup {[d |-> 0, imm |-> n, value |-> 4 * n] @@ Kind(k, 2) : n \in {0, 3}, k \in {"adr", "addsp"}}
    \cup {[sub |-> b, imm |-> n, value |-> IF b THEN -4 * n ELSE 4 * n] @@ Kind("movesp", 2) : n \in {0, 3}, b \in BOOLEAN}
    \cup {[d |-> 0, imm4 |-> v \div 8, i |-> (v \div 4) % 2, imm3 |-> (v \div 2) % 2, imm8 |-> v % 2, value |-> v]
            @@ Kind(k, 4) : v \in 0..15, k \in {"movw", "movt"}}
    \cup {[d |-> 0, n |-> n, sub |-> b, i |-> v \div 4, imm3 |-> (v \div 2) % 2, imm8 |-> v % 2,
            value |-> IF b THEN -v ELSE v] @@ Kind("addw", 4) : v \in 0..7, n \in {1, 15}, b \in BOOLEAN}
    \cup {Kind("undefined", 2)}
Standing(p, f, a, b, c, e) ==
    [pc |-> p, flags |-> f, regs |-> [r \in {0, 1, 13, 14} |-> CASE r = 0 -> a [] r = 1 -> b [] r = 13 -> c [] OTHER -> e]]
Flow == INSTANCE ThumbFlow WITH
    Width <- 8, Hi <- 1, Lo <- 1, Short <- 3, Jump <- 2, Part <- 1, Reg <- {0, 1, 13, 14}, SP <- 13, LR <- 14, PC <- 15,
    Returns <- 2, regs <- place, flags <- status, Table <- [a \in 0..255 |-> (a * 3) % 4], Instr <- Jumps \cup Constants,
    Files <- {Standing(p, f, 0, 3, 16, 41) : p \in {8, 10}, f \in SUBSET {"N", "Z", "C", "V"}}
             \cup {Standing(p, {}, a, b, 252, e) : p \in {2, 36, 250}, a \in {0, 5, 47}, b \in {8, 255}, e \in {9, 14, 16}}

\* FP words of two fraction and four exponent bits: zeros, infinities, NaNs of either kind
\* and sign, and a few numbers.
Numbers == {3, 66, 28, 100}
NotNumbers == {0, 64, 60, 124, 61, 62, 125, 127}
Modes(nzcv, rm, dn) == [fl : {{}}, nzcv : {nzcv}, rm : rm, fz : BOOLEAN, dn : dn]
Bank(d, n, m, f) ==
    [s |-> [x \in 0..7 |-> CASE x = 0 -> d [] x = 1 -> n [] x = 2 -> m [] OTHER -> 10 + x],
     r |-> [x \in {0, 1, 13} |-> CASE x = 0 -> 16 [] x = 1 -> 120 [] OTHER -> 36],
     cells |-> [c \in 0..31 |-> 2 * c + 1], fpscr |-> f]
Special == INSTANCE ThumbVfp WITH
    F <- 2, E <- 4, Slots <- 8, Reg <- {0, 1, 13}, SP <- 13, PC <- 15,
    s <- single, r <- core, cells <- words, fpca <- inUse, refused <- undone,
    Instr <- {[k |-> "arith", op |-> o, d |-> 0, n |-> 1, m |-> 2] :
                o \in {"add", "sub", "mul", "nmul", "div", "sqrt", "mla", "mls", "nmla", "nmls", "mov", "abs", "neg"}}
             \cup {[k |-> "compare", d |-> 1, m |-> 2, zero |-> z, e |-> e] : z, e \in BOOLEAN},
    States <- {Bank(d, o[1], o[2], f) : d \in {0, 60, 124, 61, 127, 28},
                o \in (Numbers \X NotNumbers) \cup (NotNumbers \X (Numbers \cup NotNumbers)), f \in Modes({"N"}, {0}, BOOLEAN)}
Converted == INSTANCE ThumbVfp WITH
    F <- 2, E <- 4, Slots <- 8, Reg <- {0, 1, 13}, SP <- 13, PC <- 15,
    s <- single, r <- core, cells <- words, fpca <- inUse, refused <- undone,
    Instr <- [k : {"convert"}, toint : BOOLEAN, d : {2}, m : {2}, frac : {0, 1, 5}, signed : BOOLEAN],
    States <- {Bank(0, 0, m, f) : m \in 0..127, f \in Modes({}, 0..3, {FALSE})}

\* Every immediate, with 32 times its value, and every list.
ImmValue(i) ==
    (IF i >= 32 THEN -1 ELSE 1) * (4 + (i % 4)) * 2 ^ (((i \div 4) % 4) + 4 * (1 - ((i \div 16) % 2)))
Moved == INSTANCE ThumbVfp WITH
    F <- 2, E <- 4, Slots <- 8, Reg <- {0, 1, 13}, SP <- 13, PC <- 15,
    s <- single, r <- core, cells <- words, fpca <- inUse, refused <- undone,
    Instr <- {[k |-> "arith", op |-> "imm", d |-> 0, n |-> 0, m |-> 0, imm |-> i, value |-> ImmValue(i)] : i \in 0..63}
             \cup [k : {"core"}, t : {0, 13, 15}, n : {0, 3}, tocore : BOOLEAN]
             \cup [k : {"pair"}, t : {0, 13}, t2 : {1, 15}, dm : {0, 3, 4}, tocore : BOOLEAN]
             \cup {[k |-> "vmrs"], [k |-> "vmsr", value |-> [fl |-> {}, nzcv |-> {}, rm |-> 1, fz |-> TRUE, dn |-> TRUE]]}
             \cup [k : {"single"}, load : BOOLEAN, double : BOOLEAN, vd : 0..3, dbit : {0, 1}, n : {0, 1, 15}, imm : {0, 3}]
             \cup [k : {"multiple"}, load : BOOLEAN, double : BOOLEAN, vd : 0..3, dbit : {0, 1}, n : {0, 1, 15},
                   imm : {0, 1, 2, 3, 6}, p : BOOLEAN, u : BOOLEAN, w : BOOLEAN],
    States <- {Bank(1, 2, 3, f) : f \in [fl : {{}}, nzcv : {{"N"}}, rm : {0}, fz : {FALSE}, dn : {FALSE}]}

ASSUME InstancesAssumption == ContextAssumption /\ Bare /\ Switched!ContextAssumption

osState == <<osMem, osR13, osMsp, osPsp, osSpsel, osLr, osCtx, osSfile, osFpca, osLspact, osFpcar,
             osIt, osExcStack, osItStack, osFpStack, osInvpc, osCurrent, osLive, osPushed, osTcb>>
contextState == <<vars, osState>>
coreState == <<regs, flags, block, op>>

memoryState == <<cells, file, target, refused, done>>

flowState == <<place, status, pc, left, halted, step>>
vfpState == <<single, core, words, fpscr, apsr, inUse, undone, last>>

processorVars == <<part, contextState, coreState, memoryState, sum, flowState, vfpState>>

ProcessorInit ==
    /\ part \in Parts
    /\ Init /\ Switched!Init
    /\ IF part = "memory" THEN Memory!Init
       ELSE cells = <<>> /\ file = <<>> /\ target = -1 /\ refused = FALSE /\ done = Memory!Idle
    /\ IF part = "flow"
       THEN Flow!Init
       ELSE place = <<>> /\ status = {} /\ pc = 0 /\ left = Flow!Nothing /\ halted = FALSE /\ step = Flow!Idle
    /\ Core!Init /\ Arith!Init
    /\ CASE part = "special" -> Special!Init
         [] part = "converted" -> Converted!Init
         [] part = "moved" -> Moved!Init
         [] OTHER -> /\ single = <<>> /\ core = <<>> /\ words = <<>> /\ fpscr = <<>> /\ apsr = {}
                     /\ inUse = FALSE /\ undone = FALSE /\ last = Special!Idle

ContextStep ==
    /\ \/ part = "nested" /\ Next /\ UNCHANGED osState
       \/ part = "switched" /\ Switched!Next /\ UNCHANGED vars
    /\ UNCHANGED <<part, coreState, memoryState, sum, flowState, vfpState>>

CoreStep ==
    /\ \/ part = "core" /\ Core!Next
       \/ part = "blocks" /\ Blocks!Next
    /\ UNCHANGED <<part, contextState, memoryState, sum, flowState, vfpState>>

ArithStep ==
    /\ \/ part = "arith" /\ Arith!Next
       \/ part = "halves" /\ Halves!Next
       \/ part = "dsp" /\ Dsp!Next
    /\ UNCHANGED <<part, contextState, coreState, memoryState, flowState, vfpState>>

MemoryStep ==
    /\ part = "memory" /\ Memory!Next
    /\ UNCHANGED <<part, contextState, coreState, sum, flowState, vfpState>>

FlowStep ==
    /\ part = "flow" /\ Flow!Next
    /\ UNCHANGED <<part, contextState, coreState, memoryState, sum, vfpState>>

VfpStep ==
    /\ \/ part = "special" /\ Special!Next
       \/ part = "converted" /\ Converted!Next
       \/ part = "moved" /\ Moved!Next
    /\ UNCHANGED <<part, contextState, coreState, memoryState, sum, flowState>>

ProcessorNext == ContextStep \/ CoreStep \/ ArithStep \/ MemoryStep \/ FlowStep \/ VfpStep

ProcessorSpec == ProcessorInit /\ [][ProcessorNext]_processorVars

-----------------------------------------------------------------------------
(* The properties of the instances; the component's module says what they      *)
(* mean.  Those of nested contexts are in its own module.                      *)

\* A context finds SP where it left it.  With tasks, no frame overwrites a word that is
\* still needed either, and what runs is what should, with its own registers.
ThreadsKept == StackBalanced /\ Switched!StackBalanced /\ Switched!StackIntact /\ Switched!ContextRestored

\* Every instruction does what the architecture says.  Data processing, in the programs
\* of either instance, which differ in nothing else; loads and stores; branches, which go
\* where their label or register says, and constants; FP moves, conversions, comparisons
\* and operations on NaNs, infinities and zeros; every sum, product, quotient, root,
\* conversion and lane is exact but for its rounding.
VfpExact == [][last' # Special!Idle => Special!VfpOf(last')]_vfpState
IsThumb ==
    /\ Core!IsThumb /\ Memory!MovesExact /\ Flow!FlowExact /\ VfpExact
    /\ [](part = "arith" => Arith!ArithExact)
    /\ [](part = "halves" => Halves!ArithExact)
    /\ [](part = "dsp" => Dsp!DspExact)
=============================================================================
