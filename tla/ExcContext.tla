----------------------------- MODULE ExcContext -----------------------------
(***************************************************************************)
(* What the processor saves on exception entry and restores on return, and *)
(* on which stack: the frames take_exception builds and exception_return   *)
(* reads (cpu/mod.rs), the MSP/PSP banks, lazy and eager FP stacking       *)
(* (cpu/mod.rs, the FPU hook of cpu/thumb.rs, peripherals/fpu.rs), the IT  *)
(* state, tail-chaining, and the PendSV task switch RTOS firmware builds   *)
(* from them.                                                              *)
(*                                                                         *)
(* Which exception is entered when is decided in module Exceptions; here   *)
(* an exception is entered whenever the nesting depth allows, and one that *)
(* is pending at a return tail-chains.  A return that module Exceptions    *)
(* answers with INVPC stops this model (invpc).                            *)
(*                                                                         *)
(* A register file is abstracted to the context whose values it holds.     *)
(* Memory is counted in words, two of which stand for the eight of a basic *)
(* frame and two for S0-S15 and FPSCR; frames are aligned to two words.    *)
(***************************************************************************)
EXTENDS Integers, Sequences, SequenceTheorems, TLAPS

CONSTANTS
    Tasks,     \* the number of RTOS tasks, each with a process stack
    MaxDepth,  \* bound on the nesting of handlers
    MaxPush,   \* bound on the words a context pushes
    Region,    \* words of a stack; even, and large enough for MaxDepth frames
    Lazy,      \* FPCCR.LSPEN
    StkAlign,  \* CCR.STKALIGN
    Ops        \* what happens: in a thread "push", "fpu", "control", in a handler
               \* "hpush", "hfpu", "start", "switch", in both "it"; at a return "chain"

\* The contexts: handlers are named by their depth, threads by 0 and below.
Main    == 0
Task    == -Tasks..-1
Thread  == {Main} \cup Task
Context == Thread \cup 1..MaxDepth
None    == 100   \* no context
Lost    == 101   \* values that were never written

ContextAssumption ==
    /\ Tasks \in Nat /\ MaxDepth \in 0..99 /\ MaxPush \in Nat
    /\ Region \in Nat /\ Region % 2 = 0 /\ Region > 3 + (MaxDepth + 1) * (5 + MaxPush)
    /\ Lazy \in BOOLEAN /\ StkAlign \in BOOLEAN

\* Stacks grow downward from StackTop(t); SP is the address last pushed to.
StackTop(t) == Region * (1 - t)
Addr        == 1..(Region * (Tasks + 1))
MainStack   == 1..Region

ExcReturn == [handler : BOOLEAN, psp : BOOLEAN, ext : BOOLEAN]
Entry     == [psp : BOOLEAN, ext : BOOLEAN]
SavedFp   == [lspact : BOOLEAN, fpcar : Addr \cup {0}]
Owner     == Context \cup {Lost}

\* What a word of memory holds.
Cell ==
    [kind : {"frame"}, who : Owner, lr : ExcReturn, pad : 0..1]  \* R0-R3 .. xPSR
      \cup [kind : {"fp"}, who : Owner]                          \* S0-S15
      \cup [kind : {"data"}, who : Owner]                        \* pushed by who
      \cup [kind : {"tcb"}, who : Task, lr : ExcReturn]          \* R4-R11, R14 of a task
      \cup [kind : {"garbage"}]

VARIABLES
    mem,
    r13, msp, psp, spsel,      \* the current SP, the two banks, CONTROL.SPSEL
    lr,                        \* r14 of a handler
    ctx,                       \* whose values the integer registers hold
    sfile,                     \* whose values S0-S15 hold
    fpca, lspact, fpcar,
    it,                        \* whose IT block is being executed, or None
    excStack, itStack, fpStack,
    invpc,
    current,   \* the thread that has to run when no handler does
    live,      \* the contexts that have values in S0-S15 they still need
    pushed,    \* the words each context has pushed, by address
    tcb        \* pxTopOfStack of each task that is switched out, else 0

spVars == <<r13, msp, psp, spsel>>
fpVars == <<sfile, fpca, lspact, fpcar, fpStack>>
itVars == <<it, itStack>>
history == <<current, live, pushed, tcb>>
vars == <<mem, spVars, lr, ctx, fpVars, itVars, excStack, invpc, history>>

-----------------------------------------------------------------------------
Depth      == Len(excStack)
Handler    == Depth > 0
Top(s)     == s[Len(s)]
Pop(s)     == SubSeq(s, 1, Len(s) - 1)
Running    == ~invpc /\ ctx \in Context

\* Thread mode keeps the bank of the current stack equal to r13.
SetSp(sp) ==
    /\ r13' = sp
    /\ msp' = IF ~Handler /\ ~spsel THEN sp ELSE msp
    /\ psp' = IF ~Handler /\ spsel THEN sp ELSE psp
    /\ UNCHANGED spsel

\* The IT state a handler starts with.
HandlerIt == None

\* A handler that starts has pushed nothing and needs no FP values.
StartHandler(d) ==
    /\ ctx' = d /\ it' = HandlerIt
    /\ pushed' = [pushed EXCEPT ![d] = <<>>]
    /\ live' = live \ {d}
    /\ UNCHANGED <<current, tcb>>

-----------------------------------------------------------------------------
(* Exception entry and return *)

\* cell in the two words from addr, and who left such a cell there.
Stored(m, addr, cell) == [a \in Addr |-> IF a \in {addr, addr + 1} THEN cell ELSE m[a]]

Holder(addr, kind) ==
    IF {addr, addr + 1} \subseteq Addr /\ mem[addr].kind = kind /\ mem[addr + 1] = mem[addr]
    THEN mem[addr].who ELSE Lost

FrameWords(ext) == IF ext THEN 4 ELSE 2
EntryPad(base)  == IF StkAlign /\ base % 2 = 1 THEN 1 ELSE 0

\* The frame goes below the live SP; mutant: below the bank.
EntrySpBanked == IF ~Handler /\ spsel THEN psp ELSE msp
EntrySp       == r13

\* The process bank moves past a frame pushed on it; mutant: it does not.
EntryPspStale(toPsp, sp) == psp
EntryPsp(toPsp, sp)      == IF toPsp THEN sp ELSE psp

\* FPCAR holds no address that is not aligned.
Fpcar(addr) == addr - (addr % 2)

\* The EXC_RETURN value for a frame on the process stack or not.
LinkTo(nested, toPsp, ext) == [handler |-> nested, psp |-> ~nested /\ toPsp, ext |-> ext]

TakeException ==
    LET ext  == fpca
        toPsp == ~Handler /\ spsel
        base == EntrySp - FrameWords(ext)
        sp   == base - EntryPad(base)
    IN
    /\ Running /\ Depth < MaxDepth
    /\ LET frame == [kind |-> "frame", who |-> ctx, lr |-> lr, pad |-> EntryPad(base)]
           basic == Stored(mem, sp, frame)
       IN mem' = IF ext /\ ~Lazy THEN Stored(basic, sp + 2, [kind |-> "fp", who |-> sfile])
                 ELSE basic
    /\ r13' = sp /\ msp' = sp /\ psp' = EntryPsp(toPsp, sp)
    /\ lr' = LinkTo(Handler, toPsp, ext)
    /\ excStack' = Append(excStack, [psp |-> toPsp, ext |-> ext])
    /\ itStack' = Append(itStack, it)
    /\ fpStack' = Append(fpStack, [lspact |-> lspact, fpcar |-> fpcar])
    /\ lspact' = (lspact \/ (ext /\ Lazy))
    /\ fpcar' = IF ext /\ Lazy THEN Fpcar(sp + 2) ELSE fpcar
    /\ StartHandler(Depth + 1)
    /\ UNCHANGED <<spsel, sfile, fpca, invpc>>

\* A handler returns with everything it pushed popped and no switch half done.
CanReturn == Running /\ Handler /\ pushed[ctx] = <<>> /\ current # None
Returns   == CanReturn /\ lr.ext = Top(excStack).ext

\* A return with the wrong frame type raises INVPC.
ReturnFaults ==
    /\ CanReturn /\ lr.ext # Top(excStack).ext
    /\ invpc' = TRUE
    /\ UNCHANGED <<mem, spVars, lr, ctx, fpVars, itVars, excStack, history>>

\* The saved IT and FP state is popped and pushed again, the frame is kept.
TailChain ==
    LET e == Top(excStack) IN
    /\ "chain" \in Ops
    /\ Returns /\ fpca = e.ext
    /\ lr' = LinkTo(Depth > 1, e.psp, e.ext)
    /\ lspact' = Top(fpStack).lspact /\ fpcar' = Top(fpStack).fpcar
    /\ StartHandler(Depth)
    /\ UNCHANGED <<mem, spVars, itStack, fpStack, sfile, fpca, excStack, invpc>>

\* Where the S registers of an extended frame at sp are read: past the integer
\* part and the alignment word; mutant: at the base of the frame.
FpPartAtBase(sp, pad) == sp + pad
FpPart(sp, pad)       == sp + 2 + pad

\* Only a return to the process stack reads the bank; mutant: every return does.
ReturnSpBanked == IF lr.psp THEN psp ELSE msp
ReturnSp       == IF lr.psp THEN psp ELSE r13

\* CONTROL.SPSEL follows the stack returned to; mutant: it is left alone.
ReturnSpselKept == spsel
ReturnSpsel     == IF lr.handler THEN spsel ELSE lr.psp

\* Every return pops one saved FP state.
PoppedFp == Pop(fpStack)

ExceptionReturn ==
    LET sp    == ReturnSp
        frame == mem[sp]
        who   == Holder(sp, "frame")
        pad   == IF who = Lost THEN 0 ELSE frame.pad
        fp    == FpPart(sp, pad)
        after == IF lr.ext THEN fp + 2 ELSE fp
    IN
    /\ Returns
    /\ ctx' = who
    /\ lr' = IF who = Lost THEN lr ELSE frame.lr
    /\ sfile' = IF lr.ext /\ ~Top(fpStack).lspact THEN Holder(fp, "fp") ELSE sfile
    /\ r13' = after
    /\ IF lr.psp THEN psp' = after /\ UNCHANGED msp ELSE msp' = after /\ UNCHANGED psp
    /\ spsel' = ReturnSpsel
    /\ it' = Top(itStack) /\ itStack' = Pop(itStack)
    /\ lspact' = Top(fpStack).lspact /\ fpcar' = Top(fpStack).fpcar
    /\ fpStack' = PoppedFp
    /\ excStack' = Pop(excStack)
    /\ UNCHANGED <<mem, fpca, invpc, history>>

-----------------------------------------------------------------------------
(* What the running context does *)

\* An FPU instruction; the first one in a handler completes a lazy stacking.
CompleteLazy ==
    IF Handler /\ lspact
    THEN /\ mem' = Stored(mem, fpcar, [kind |-> "fp", who |-> sfile])
         /\ lspact' = FALSE
    ELSE UNCHANGED <<mem, lspact>>

FpuInsn ==
    /\ (IF Handler THEN "hfpu" ELSE "fpu") \in Ops /\ Running
    /\ CompleteLazy
    /\ sfile' = ctx /\ fpca' = TRUE /\ live' = live \cup {ctx}
    /\ UNCHANGED <<spVars, lr, ctx, fpcar, fpStack, itVars, excStack, invpc, current, pushed, tcb>>

\* MSR CONTROL keeps two bits: FPCA is lost.  A thread does it when it needs its
\* FP values no more.
MsrControl ==
    /\ "control" \in Ops /\ Running /\ ~Handler
    /\ fpca' = FALSE /\ live' = live \ {ctx}
    /\ UNCHANGED <<mem, spVars, lr, ctx, sfile, lspact, fpcar, fpStack, itVars, excStack, invpc,
                   current, pushed, tcb>>

Push ==
    /\ (IF Handler THEN "hpush" ELSE "push") \in Ops /\ Running /\ Len(pushed[ctx]) < MaxPush
    /\ SetSp(r13 - 1)
    /\ mem' = [mem EXCEPT ![r13 - 1] = [kind |-> "data", who |-> ctx]]
    /\ pushed' = [pushed EXCEPT ![ctx] = Append(@, r13 - 1)]
    /\ UNCHANGED <<lr, ctx, fpVars, itVars, excStack, invpc, current, live, tcb>>

PopWord ==
    /\ Running /\ pushed[ctx] # <<>>
    /\ SetSp(r13 + 1)
    /\ pushed' = [pushed EXCEPT ![ctx] = Pop(@)]
    /\ UNCHANGED <<mem, lr, ctx, fpVars, itVars, excStack, invpc, current, live, tcb>>

ItBlock ==
    /\ "it" \in Ops /\ Running
    /\ it' = IF it = None THEN ctx ELSE None
    /\ UNCHANGED <<mem, spVars, lr, ctx, fpVars, itStack, excStack, invpc, history>>

-----------------------------------------------------------------------------
(* The RTOS: starting the first task from the SVC handler, and switching    *)
(* tasks in PendSV (R4-R11 and R14 go below the frame, at the PSP).         *)

\* msr psp and the value bx will take, from what is stored for t.
Resume(t) ==
    /\ tcb[t] \in Addr /\ mem[tcb[t]].kind = "tcb"
    /\ psp' = tcb[t] + 1
    /\ lr' = mem[tcb[t]].lr
    /\ current' = t /\ tcb' = [tcb EXCEPT ![t] = 0]

StartFirst(t) ==
    /\ "start" \in Ops /\ Running /\ Depth = 1 /\ current = Main /\ ~lr.ext
    /\ pushed[ctx] = <<>> /\ pushed[Main] = <<>> /\ Top(itStack) = None
    /\ Resume(t)
    /\ live' = live \ {Main}
    /\ UNCHANGED <<mem, r13, msp, spsel, ctx, fpVars, itVars, excStack, invpc, pushed>>

\* A task with an extended frame has its high S registers stored too, which is
\* an FPU instruction.
SaveTask ==
    /\ "switch" \in Ops /\ Running /\ Depth = 1 /\ lr.psp /\ current \in Task
    /\ LET stored(m) ==
             [m EXCEPT ![psp - 1] = [kind |-> "tcb", who |-> current, lr |-> lr]]
       IN IF lr.ext /\ lspact
          THEN /\ mem' = stored(Stored(mem, fpcar, [kind |-> "fp", who |-> sfile]))
               /\ lspact' = FALSE
          ELSE mem' = stored(mem) /\ UNCHANGED lspact
    /\ fpca' = (fpca \/ lr.ext)
    /\ tcb' = [tcb EXCEPT ![current] = psp - 1]
    /\ current' = None
    /\ UNCHANGED <<spVars, lr, ctx, sfile, fpcar, fpStack, itVars, excStack, invpc, live, pushed>>

LoadTask(t) ==
    /\ Running /\ Depth = 1 /\ current = None /\ pushed[ctx] = <<>>
    /\ Resume(t)
    /\ fpca' = (fpca \/ lr'.ext)
    /\ UNCHANGED <<mem, r13, msp, spsel, ctx, sfile, lspact, fpcar, fpStack, itVars, excStack,
                   invpc, live, pushed>>

-----------------------------------------------------------------------------
\* A task that has not run has the frame and the store its creation prepared.
Init ==
    /\ mem = [a \in Addr |->
         LET t == CHOOSE u \in Task : StackTop(u) - a \in 1..3 IN
         IF \A u \in Task : StackTop(u) - a \notin 1..3 THEN [kind |-> "garbage"]
         ELSE IF a = StackTop(t) - 3
         THEN [kind |-> "tcb", who |-> t, lr |-> LinkTo(FALSE, TRUE, FALSE)]
         ELSE [kind |-> "frame", who |-> t, lr |-> LinkTo(FALSE, FALSE, FALSE), pad |-> 0]]
    /\ r13 = StackTop(Main) /\ msp = r13 /\ psp = 0 /\ spsel = FALSE
    /\ lr = LinkTo(FALSE, FALSE, FALSE)
    /\ ctx = Main /\ sfile = Lost /\ fpca = FALSE /\ lspact = FALSE /\ fpcar = 0
    /\ it = None /\ excStack = <<>> /\ itStack = <<>> /\ fpStack = <<>>
    /\ invpc = FALSE
    /\ current = Main /\ live = {}
    /\ pushed = [c \in Context |-> <<>>]
    /\ tcb = [t \in Task |-> StackTop(t) - 3]

Next ==
    \/ TakeException \/ ReturnFaults \/ TailChain \/ ExceptionReturn
    \/ FpuInsn \/ MsrControl \/ Push \/ PopWord \/ ItBlock
    \/ SaveTask \/ \E t \in Task : StartFirst(t) \/ LoadTask(t)

Spec == Init /\ [][Next]_vars

-----------------------------------------------------------------------------
(* Properties *)

\* Every variable has its type, and each entry on the exception stack has one
\* saved IT state and one saved FP state.  take_exception pads a frame by at most
\* one word.
TypeOK ==
    /\ mem \in [Addr -> Cell]
    /\ r13 \in Addr \cup {0, Region * (Tasks + 1) + 1}
    /\ msp \in Int /\ psp \in Int /\ spsel \in BOOLEAN
    /\ lr \in ExcReturn /\ ctx \in Owner /\ sfile \in Owner
    /\ fpca \in BOOLEAN /\ lspact \in BOOLEAN /\ fpcar \in Addr \cup {0}
    /\ it \in Context \cup {None}
    /\ excStack \in Seq(Entry) /\ itStack \in Seq(Context \cup {None})
    /\ fpStack \in Seq(SavedFp)
    /\ Len(itStack) = Len(excStack) /\ Len(fpStack) = Len(excStack)
    /\ invpc \in BOOLEAN
    /\ current \in Thread \cup {None} /\ live \subseteq Context
    /\ tcb \in [Task -> Addr \cup {0}]

\* The registers are those of the context that has to run: of the innermost
\* handler, and after the last return those of the thread it interrupted or the
\* RTOS switched to, whatever frames were pushed and unstacked in between
\* (take_exception, exception_return, enter_chained).
ContextRestored == ctx = IF Handler THEN Depth ELSE current

\* A context that used the FPU and needs its values still finds them in S0-S15
\* when it runs (the extended frame, FPCCR.LSPACT and FPCAR in take_exception,
\* exception_return and the FPU hook).
SFileOwned == ctx \in live => sfile = ctx

\* An IT block is continued by the context that opened it: a handler starts
\* without one and a return brings back the block of who is returned to
\* (it_stack).
ItOwned == it \in {None, ctx}

\* What hardware keeps outside the frame's integer part, or apart from it, is
\* that of the context that runs.
StateOwned == ItOwned /\ SFileOwned

\* Nothing a context pushed, and no context a task was switched out with, is
\* overwritten by the frames of the exceptions taken since: a nested frame goes
\* below the live SP of the handler it interrupts.
StackIntact ==
    /\ \A c \in Context : \A i \in 1..Len(pushed[c]) :
          mem[pushed[c][i]] = [kind |-> "data", who |-> c]
    /\ \A t \in Task : tcb[t] # 0 => mem[tcb[t]].kind = "tcb" /\ mem[tcb[t]].who = t

\* A thread runs on its own stack with nothing on it but what it pushed, and
\* CONTROL.SPSEL and the bank it selects agree with r13: entries and returns
\* advance the banks by the same number of words (cpu/mod.rs, the bank
\* writebacks).
StackBalanced ==
    ctx \in Thread /\ ~Handler =>
        /\ r13 = StackTop(ctx) - Len(pushed[ctx])
        /\ spsel = (ctx \in Task)
        /\ r13 = IF spsel THEN psp ELSE msp

\* "Handler mode always runs on MSP" (cpu/mod.rs, exception_return; cpu/regs.rs):
\* the SP of a handler is in the main stack, also when it interrupted a task.
HandlerOnMsp == Handler => r13 \in MainStack

\* The RTOS returns to the task it switched to without a usage fault.
NoInvpc == ~invpc

-----------------------------------------------------------------------------
(* Theorems, for firmware without tasks: any nesting, any pushes, lazy or eager *)
(* FP stacking.                                                                 *)

Bare == Tasks = 0

\* What the constants are then.
LEMMA BareConstants ==
    ASSUME ContextAssumption, Bare
    PROVE  /\ MaxDepth \in Nat /\ MaxDepth < 100 /\ MaxPush \in Nat /\ Region \in Nat
           /\ Region > 3 + (MaxDepth + 1) * (5 + MaxPush)
           /\ Task = {} /\ Thread = {0} /\ Context = 0..MaxDepth
           /\ Addr = 1..Region /\ StackTop(Main) = Region
           /\ StkAlign \in BOOLEAN /\ Lazy \in BOOLEAN
<1>1. MaxDepth \in Nat /\ MaxDepth < 100
  BY DEF ContextAssumption
<1>2. Task = {}
  BY DEF Bare, Task
<1>3. Context = 0..MaxDepth
  BY <1>1, <1>2 DEF Context, Thread, Main
<1>4. Region \in Nat /\ Region * (Tasks + 1) = Region /\ Region * (1 - Main) = Region
  BY DEF ContextAssumption, Bare, Main
<1> QED
  BY <1>1, <1>2, <1>3, <1>4 DEF ContextAssumption, Thread, Addr, StackTop, Main

\* What popping a non-empty stack leaves.
LEMMA PopLemma ==
    ASSUME NEW T, NEW s \in Seq(T), s # <<>>
    PROVE  /\ Top(s) = s[Len(s)] /\ Top(s) \in T
           /\ Pop(s) \in Seq(T) /\ Len(Pop(s)) = Len(s) - 1
           /\ \A i \in 1..Len(Pop(s)) : Pop(s)[i] = s[i]
<1>1. Len(s) \in Nat \ {0} /\ \A i \in 1..Len(s) : s[i] \in T
  OBVIOUS
<1>2. Top(s) = s[Len(s)] /\ Top(s) \in T
  BY <1>1 DEF Top
<1>3. ASSUME NEW n \in Nat, n = Len(s) - 1
      PROVE  /\ SubSeq(s, 1, n) \in Seq(T) /\ Len(SubSeq(s, 1, n)) = n
             /\ \A i \in 1..n : SubSeq(s, 1, n)[i] = s[i]
  <2>1. \A i \in 1..n : s[i] \in T
    BY <1>1, <1>3
  <2> QED BY <2>1, SubSeqProperties
<1>4. Len(s) - 1 \in Nat
  BY <1>1
<1> QED
  BY <1>2, <1>3, <1>4 DEF Pop

-----------------------------------------------------------------------------
(* The layout of the stack.                                                  *)

\* A link that leads to the main stack.
MspLink == {l \in ExcReturn : ~l.psp}

\* The frame a handler interrupted c with, and a word c pushed.
Frame(c) == [kind : {"frame"}, who : {c}, lr : MspLink, pad : {0, 1}]
Word(c)  == [kind |-> "data", who |-> c]
FpPartOf(c)   == [kind |-> "fp", who |-> c]

Links == [lspact : BOOLEAN, fpcar : Int]

\* What the registers are between instructions.
BareOK ==
    /\ mem = [a \in Addr |-> mem[a]]
    /\ excStack \in Seq(Entry) /\ Depth <= MaxDepth /\ ctx = Depth
    /\ itStack \in Seq(Int) /\ Len(itStack) = Depth
    /\ fpStack \in Seq(Links) /\ Len(fpStack) = Depth
    /\ lspact \in BOOLEAN /\ fpcar \in Int /\ it \in Int /\ fpca \in BOOLEAN
    /\ pushed \in [Context -> Seq(Int)]
    /\ \A c \in Context : Len(pushed[c]) <= MaxPush /\ (c > Depth => pushed[c] = <<>>)
    /\ spsel = FALSE /\ lr \in MspLink /\ current = Main /\ \A i \in 1..Depth : ~excStack[i].psp
    /\ ~Handler => msp = r13

\* An IT block is continued by who opened it, also after a return.
ItInv == it \in {None, ctx} /\ \A i \in 1..Depth : itStack[i] \in {None, i - 1}

\* The words of a level: its frame lies at B[i], what it pushed below.
Floor(B, i) == B[i] - Len(pushed[i])
Roof(B, i)  == B[i] + FrameWords(excStack[i].ext) + mem[B[i]].pad

\* Frames and pushed words lie one below the other, and nothing has overwritten them.
Layout(B) ==
    /\ B[0] = Region /\ r13 = Floor(B, Depth)
    /\ \A i \in 0..Depth : B[i] > 3 + (MaxDepth + 1 - i) * (5 + MaxPush) /\ B[i] <= Region
    /\ \A i \in 1..Depth :
         /\ mem[B[i]] \in Frame(i - 1) /\ mem[B[i] + 1] = mem[B[i]]
         /\ Roof(B, i) = Floor(B, i - 1)
    /\ \A i \in 0..Depth, j \in 1..Depth : i < j => Roof(B, j) <= Floor(B, i)
    /\ \A i \in 0..Depth : \A j \in 1..Len(pushed[i]) :
         pushed[i][j] = B[i] - j /\ mem[B[i] - j] = Word(i)

\* An FP area that is still to be filled is that of a frame on the stack.
Slot(B, a, n) == \E k \in 1..n : excStack[k].ext /\ a = B[k] + 2

FpSlots(B) ==
    /\ lspact => Slot(B, fpcar, Depth)
    /\ \A i \in 1..Depth : fpStack[i].lspact => Slot(B, fpStack[i].fpcar, i - 1)

\* With eager stacking a context that needs its FP values has them in S0-S15 or in
\* the frame above it.
FpKept(B) ==
    /\ ~lspact /\ \A i \in 1..Depth : ~fpStack[i].lspact
    /\ ctx \in live => sfile = ctx
    /\ \A c \in 0..Depth : c \in live => fpca
    /\ \A i \in 1..Depth :
         /\ mem[B[i]].pad = 0
         /\ i - 1 \in live =>
              /\ excStack[i].ext
              /\ mem[B[i] + 2] = FpPartOf(i - 1) /\ mem[B[i] + 3] = FpPartOf(i - 1)

Eager == ~Lazy /\ ~StkAlign

StackInv(B) == Layout(B) /\ FpSlots(B) /\ (Eager => FpKept(B))

ContextInv == BareOK /\ ItInv /\ \E B \in [0..MaxDepth -> Int] : StackInv(B)

\* The levels of a stack: each starts where the one below it ended.
LEMMA Levels ==
    ASSUME ContextAssumption, Bare, BareOK, NEW B \in [0..MaxDepth -> Int], Layout(B)
    PROVE  /\ Depth \in Nat /\ Depth <= MaxDepth /\ r13 \in Int /\ r13 > 6 /\ r13 <= Region
           /\ \A i \in 0..Depth :
                /\ B[i] \in Int /\ B[i] > 3 /\ B[i] <= Region /\ Len(pushed[i]) \in Nat
                /\ Floor(B, i) \in Int /\ Floor(B, i) <= B[i] /\ r13 <= Floor(B, i)
           /\ \A i \in 1..Depth :
                /\ excStack[i] \in Entry
                /\ mem[B[i]].pad \in {0, 1} /\ Roof(B, i) \in Int /\ Roof(B, i) <= Region
                /\ B[i] + 2 <= Roof(B, i) /\ (excStack[i].ext => B[i] + 4 <= Roof(B, i))
<1>1. Depth \in Nat /\ Depth <= MaxDepth /\ Context = 0..MaxDepth /\ MaxDepth \in Nat /\ MaxPush \in Nat
      /\ Region \in Nat
  BY BareConstants DEF BareOK, Depth
<1>2. ASSUME NEW i \in 0..Depth
      PROVE  B[i] \in Int /\ B[i] > 8 + MaxPush /\ B[i] <= Region /\ Len(pushed[i]) \in Nat
             /\ Len(pushed[i]) <= MaxPush
  <2>1. B[i] \in Int /\ B[i] > 3 + (MaxDepth + 1 - i) * (5 + MaxPush) /\ B[i] <= Region
    BY <1>1 DEF Layout
  <2>2. (MaxDepth + 1 - i) * (5 + MaxPush) >= 5 + MaxPush
    <3> DEFINE n == MaxDepth - i
    <3> DEFINE k == 5 + MaxPush
    <3> DEFINE m == MaxDepth + 1 - i
    <3>1. n \in Nat /\ k \in Nat /\ m = n + 1
      BY <1>1
    <3> HIDE DEF n, k, m
    <3>2. m * k >= k
      <4>1. n * k >= 0 /\ (n + 1) * k = n * k + k
        BY <3>1
      <4> QED BY <3>1, <4>1
    <3> QED BY <3>2 DEF k, m
  <2>3. pushed[i] \in Seq(Int) /\ Len(pushed[i]) <= MaxPush
    BY <1>1 DEF BareOK
  <2>4. (MaxDepth + 1 - i) * (5 + MaxPush) \in Int
    BY <1>1
  <2> QED BY <1>1, <2>1, <2>2, <2>3, <2>4
<1>3. ASSUME NEW i \in 1..Depth
      PROVE  /\ excStack[i] \in Entry /\ mem[B[i]].pad \in {0, 1}
             /\ Roof(B, i) \in Int /\ Roof(B, i) = Floor(B, i - 1)
             /\ B[i] + 2 <= Roof(B, i) /\ (excStack[i].ext => B[i] + 4 <= Roof(B, i))
  <2>1. excStack[i] \in Entry
    BY <1>1 DEF BareOK, Depth
  <2>2. mem[B[i]].pad \in {0, 1} /\ Roof(B, i) = Floor(B, i - 1)
    BY DEF Layout, Frame
  <2>3. B[i] \in Int
    BY <1>1
  <2> QED BY <2>1, <2>2, <2>3, SMTT(30) DEF Roof, FrameWords, Entry
<1>4. ASSUME NEW i \in 0..Depth
      PROVE  Floor(B, i) \in Int /\ Floor(B, i) <= B[i] /\ r13 <= Floor(B, i)
  <2>1. Floor(B, i) \in Int /\ Floor(B, i) <= B[i]
    BY <1>2 DEF Floor
  <2>2. CASE i = Depth
    BY <2>1, <2>2 DEF Layout
  <2>3. CASE i < Depth
    <3>1. Depth \in 1..Depth /\ Depth \in 0..Depth
      BY <1>1, <2>3
    <3>2. Roof(B, Depth) <= Floor(B, i)
      BY <1>1, <2>3, <3>1 DEF Layout
    <3>3. r13 <= B[Depth] /\ r13 \in Int
      BY <1>2, <3>1, SMTT(30) DEF Layout, Floor
    <3>4. B[Depth] + 2 <= Roof(B, Depth) /\ Roof(B, Depth) \in Int /\ B[Depth] \in Int
      BY <1>2, <1>3, <3>1
    <3> QED BY <2>1, <3>2, <3>3, <3>4
  <2> QED BY <1>1, <2>1, <2>2, <2>3
<1>5. r13 \in Int /\ r13 > 6 /\ r13 <= Region
  BY <1>1, <1>2, SMTT(30) DEF Layout, Floor
<1>6. \A i \in 1..Depth : Roof(B, i) <= Region
  <2> TAKE i \in 1..Depth
  <2>1. i - 1 \in 0..Depth
    BY <1>1
  <2>2. Floor(B, i - 1) \in Int /\ Floor(B, i - 1) <= B[i - 1]
    BY <1>4, <2>1
  <2>3. B[i - 1] \in Int /\ B[i - 1] <= Region
    BY <1>2, <2>1
  <2>4. Roof(B, i) = Floor(B, i - 1)
    BY <1>3
  <2> QED BY <1>1, <2>2, <2>3, <2>4
<1> QED
  BY <1>1, <1>2, <1>3, <1>4, <1>5, <1>6

\* A word that holds no frame and nothing that was pushed.
Spare(B, a) ==
    /\ \A i \in 1..Depth : a # B[i] /\ a # B[i] + 1
    /\ \A i \in 0..Depth : \A j \in 1..Len(pushed[i]) : a # B[i] - j

\* Nothing else is written.
Careful(B) == /\ mem' = [a \in Addr |-> mem'[a]]
              /\ \A a \in Addr : Spare(B, a) \/ mem'[a] = mem[a]

\* Below the stack pointer everything is spare.
LEMMA BelowSpare ==
    ASSUME ContextAssumption, Bare, BareOK, NEW B \in [0..MaxDepth -> Int], Layout(B),
           NEW a \in Int, a < r13
    PROVE  Spare(B, a)
<1>1. ASSUME NEW i \in 1..Depth PROVE a # B[i] /\ a # B[i] + 1
  <2>1. i \in 0..Depth
    BY Levels
  <2>2. B[i] \in Int /\ r13 <= Floor(B, i) /\ Floor(B, i) <= B[i] /\ Floor(B, i) \in Int /\ r13 \in Int
    BY <2>1, Levels
  <2> QED BY <2>2
<1>2. ASSUME NEW i \in 0..Depth, NEW j \in 1..Len(pushed[i]) PROVE a # B[i] - j
  <2>1. B[i] \in Int /\ r13 <= Floor(B, i) /\ r13 \in Int /\ Len(pushed[i]) \in Nat
    BY Levels
  <2> QED BY <2>1 DEF Floor
<1> QED
  BY <1>1, <1>2 DEF Spare

\* So is the FP area of a frame.
LEMMA SlotSpare ==
    ASSUME ContextAssumption, Bare, BareOK, NEW B \in [0..MaxDepth -> Int], Layout(B),
           NEW k \in 1..Depth, excStack[k].ext, NEW a \in {B[k] + 2, B[k] + 3}
    PROVE  a \in Addr /\ Spare(B, a)
<1>1. /\ Depth \in Nat /\ k \in 0..Depth /\ B[k] \in Int /\ B[k] > 3
      /\ Roof(B, k) \in Int /\ B[k] + 4 <= Roof(B, k) /\ Roof(B, k) <= Region
      /\ Floor(B, k) \in Int /\ Floor(B, k) <= B[k]
  <2>1. Depth \in Nat /\ k \in 0..Depth
    BY Levels
  <2> QED BY <2>1, Levels
<1>2. a \in Int /\ B[k] + 2 <= a /\ a < Roof(B, k)
  BY <1>1
<1>3. a \in Addr
  <2>1. Region \in Nat /\ Addr = 1..Region
    BY BareConstants
  <2> QED BY <1>1, <1>2, <2>1
<1>4. ASSUME NEW i \in 1..Depth PROVE a # B[i] /\ a # B[i] + 1
  <2>0. i \in 0..Depth /\ (i = k \/ i < k \/ k < i)
    BY <1>1
  <2>1. B[i] \in Int /\ Floor(B, i) \in Int /\ Floor(B, i) <= B[i]
        /\ Roof(B, i) \in Int /\ B[i] + 2 <= Roof(B, i)
    BY <2>0, Levels
  <2>2. CASE i = k
    BY <1>1, <1>2, <2>2
  <2>3. CASE i < k
    <3>1. Roof(B, k) <= Floor(B, i)
      BY <2>0, <2>3 DEF Layout
    <3> QED BY <1>1, <1>2, <2>1, <3>1, SMTT(30)
  <2>4. CASE k < i
    <3>1. Roof(B, i) <= Floor(B, k)
      BY <1>1, <2>4 DEF Layout
    <3>2. B[i] + 2 <= B[k]
      BY <1>1, <2>1, <3>1
    <3> QED BY <1>1, <1>2, <2>1, <3>2, SMTT(30)
  <2> QED BY <2>0, <2>2, <2>3, <2>4
<1>5. ASSUME NEW i \in 0..Depth, NEW j \in 1..Len(pushed[i]) PROVE a # B[i] - j
  <2>0. i = k \/ i < k \/ k < i
    BY <1>1
  <2>1. B[i] \in Int /\ Floor(B, i) \in Int /\ Len(pushed[i]) \in Nat
    BY Levels
  <2>2. j \in Int /\ 1 <= j /\ Floor(B, i) <= B[i] - j
    BY <2>1 DEF Floor
  <2>3. CASE i = k
    BY <1>1, <1>2, <2>1, <2>2, <2>3
  <2>4. CASE i < k
    <3>1. Roof(B, k) <= Floor(B, i)
      BY <2>4 DEF Layout
    <3> QED BY <1>1, <1>2, <2>1, <2>2, <3>1
  <2>5. CASE k < i
    <3>1. i \in 1..Depth /\ Roof(B, i) <= Floor(B, k)
      BY <1>1, <2>5 DEF Layout
    <3>2. Roof(B, i) \in Int /\ B[i] + 2 <= Roof(B, i)
      BY <3>1, Levels
    <3>3. B[i] + 2 <= B[k]
      BY <1>1, <2>1, <3>1, <3>2, SMTT(30)
    <3> QED BY <1>1, <1>2, <2>1, <2>2, <3>3, SMTT(30)
  <2> QED BY <2>0, <2>3, <2>4, <2>5
<1> QED
  BY <1>3, <1>4, <1>5 DEF Spare

\* Whoever writes spare words only leaves the frames and what was pushed.
LEMMA CarefulKeeps ==
    ASSUME ContextAssumption, Bare, BareOK, NEW B \in [0..MaxDepth -> Int], Layout(B), Careful(B)
    PROVE  /\ \A i \in 1..Depth : mem'[B[i]] = mem[B[i]] /\ mem'[B[i] + 1] = mem[B[i] + 1]
           /\ \A i \in 0..Depth : \A j \in 1..Len(pushed[i]) : mem'[B[i] - j] = mem[B[i] - j]
<1>0. Addr = 1..Region /\ Region \in Nat /\ r13 \in Int /\ r13 > 6 /\ Depth \in Nat
  BY BareConstants, Levels
<1>1. ASSUME NEW i \in 1..Depth PROVE mem'[B[i]] = mem[B[i]] /\ mem'[B[i] + 1] = mem[B[i] + 1]
  <2>1. i \in 0..Depth
    BY <1>0
  <2>2. B[i] \in Int /\ B[i] > 3 /\ Roof(B, i) \in Int /\ B[i] + 2 <= Roof(B, i) /\ Roof(B, i) <= Region
    BY <2>1, Levels
  <2>3. B[i] \in Addr /\ B[i] + 1 \in Addr
    BY <1>0, <2>2
  <2> QED BY <2>3 DEF Careful, Spare
<1>2. ASSUME NEW i \in 0..Depth, NEW j \in 1..Len(pushed[i]) PROVE mem'[B[i] - j] = mem[B[i] - j]
  <2>1. B[i] \in Int /\ B[i] <= Region /\ r13 <= Floor(B, i) /\ Len(pushed[i]) \in Nat
    BY Levels
  <2>2. B[i] - j \in Addr
    BY <1>0, <2>1 DEF Floor
  <2> QED BY <2>2 DEF Careful, Spare
<1> QED
  BY <1>1, <1>2

\* The layout stays while no level changes.
LEMMA LayoutKept ==
    ASSUME ContextAssumption, Bare, BareOK, NEW B \in [0..MaxDepth -> Int], Layout(B), Careful(B),
           excStack' = excStack, pushed' = pushed, r13' = r13
    PROVE  Layout(B)'
<1>1. Depth' = Depth /\ Depth \in Nat
  BY Levels DEF Depth
<1>2. \A i \in 1..Depth : mem'[B[i]] = mem[B[i]] /\ mem'[B[i] + 1] = mem[B[i] + 1]
  BY CarefulKeeps
<1>3. \A i \in 0..Depth : \A j \in 1..Len(pushed[i]) : mem'[B[i] - j] = mem[B[i] - j]
  BY CarefulKeeps
<1>4. \A i \in 0..Depth : Floor(B, i)' = Floor(B, i)
  BY DEF Floor
<1>5. \A i \in 1..Depth : Roof(B, i)' = Roof(B, i)
  BY <1>2 DEF Roof
<1>6. Depth \in 0..Depth
  BY <1>1
<1>7. B[0] = Region /\ r13' = Floor(B, Depth)'
  BY <1>1, <1>4, <1>6 DEF Layout
<1>8. \A i \in 1..Depth : /\ mem'[B[i]] \in Frame(i - 1) /\ mem'[B[i] + 1] = mem'[B[i]]
                          /\ Roof(B, i)' = Floor(B, i - 1)'
  <2> TAKE i \in 1..Depth
  <2>1. i - 1 \in 0..Depth
    BY <1>1
  <2> QED BY <1>2, <1>4, <1>5, <2>1 DEF Layout
<1>9. \A i \in 0..Depth, j \in 1..Depth : i < j => Roof(B, j)' <= Floor(B, i)'
  BY <1>4, <1>5 DEF Layout
<1>10. \A i \in 0..Depth : \A j \in 1..Len(pushed'[i]) :
         pushed'[i][j] = B[i] - j /\ mem'[B[i] - j] = Word(i)
  BY <1>3 DEF Layout
<1>11. \A i \in 0..Depth : B[i] > 3 + (MaxDepth + 1 - i) * (5 + MaxPush) /\ B[i] <= Region
  BY DEF Layout
<1> QED
  BY <1>1, <1>7, <1>8, <1>9, <1>10, <1>11 DEF Layout

\* Nothing is written.
LEMMA SameIsCareful ==
    ASSUME BareOK, mem' = mem, NEW B
    PROVE  Careful(B)
BY DEF BareOK, Careful

\* An FPU instruction fills at most the FP area that waits for it.
LEMMA FpuStep ==
    ASSUME ContextAssumption, Bare, ContextInv, FpuInsn
    PROVE  ContextInv'
<1>1. PICK B \in [0..MaxDepth -> Int] : StackInv(B)
  BY DEF ContextInv
<1>2. BareOK /\ ItInv /\ Layout(B) /\ FpSlots(B) /\ Depth \in Nat
  BY <1>1, Levels DEF ContextInv, StackInv
<1>3. /\ UNCHANGED <<spVars, lr, ctx, fpcar, fpStack, itVars, excStack, current, pushed>>
      /\ sfile' = ctx /\ fpca' = TRUE /\ live' = live \cup {ctx}
      /\ CompleteLazy /\ Depth' = Depth
  BY DEF FpuInsn, Depth
<1>4. Careful(B) /\ lspact' \in BOOLEAN /\ (lspact' => lspact) /\ (~lspact => mem' = mem)
  <2>1. CASE Handler /\ lspact
    <3>1. PICK k \in 1..Depth : excStack[k].ext /\ fpcar = B[k] + 2
      BY <1>2, <2>1 DEF FpSlots, Slot
    <3>2. B[k] \in Int
      <4>1. k \in 0..Depth
        BY <1>2
      <4> QED BY <1>2, <4>1, Levels
    <3>3. fpcar \in {B[k] + 2, B[k] + 3} /\ fpcar + 1 \in {B[k] + 2, B[k] + 3}
      BY <3>1, <3>2
    <3>4. Spare(B, fpcar) /\ Spare(B, fpcar + 1)
      BY <1>2, <3>1, <3>3, SlotSpare
    <3>5. /\ mem' = [a \in Addr |-> IF a \in {fpcar, fpcar + 1} THEN FpPartOf(sfile) ELSE mem[a]]
          /\ lspact' = FALSE
      BY <1>3, <2>1 DEF CompleteLazy, Stored, FpPartOf
    <3>6. mem' = [a \in Addr |-> mem'[a]] /\ \A a \in Addr : a \notin {fpcar, fpcar + 1} => mem'[a] = mem[a]
      BY <3>5
    <3> QED BY <2>1, <3>4, <3>5, <3>6 DEF Careful
  <2>2. CASE ~(Handler /\ lspact)
    <3>1. mem' = mem /\ lspact' = lspact
      BY <1>3, <2>2 DEF CompleteLazy
    <3>2. Careful(B) /\ lspact' \in BOOLEAN
      BY <1>2, <3>1, SameIsCareful DEF BareOK
    <3> QED BY <3>1, <3>2
  <2> QED BY <2>1, <2>2
<1>5. Layout(B)'
  BY <1>2, <1>3, <1>4, LayoutKept DEF spVars
<1>6. BareOK'
  <2>1. lspact' \in BOOLEAN
    BY <1>4
  <2>2. mem' = [a \in Addr |-> mem'[a]]
    BY <1>4 DEF Careful
  <2>3. /\ fpca' \in BOOLEAN /\ spsel' = FALSE /\ lr' \in MspLink /\ current' = Main
        /\ ctx' = Depth' /\ it' \in Int /\ fpcar' \in Int /\ (~Handler' => msp' = r13')
    BY <1>2, <1>3 DEF BareOK, spVars, itVars, Handler
  <2>4. /\ excStack' \in Seq(Entry) /\ Depth' <= MaxDepth /\ \A i \in 1..Depth' : ~excStack'[i].psp
        /\ itStack' \in Seq(Int) /\ Len(itStack') = Depth'
        /\ fpStack' \in Seq(Links) /\ Len(fpStack') = Depth'
        /\ pushed' \in [Context -> Seq(Int)]
        /\ \A c \in Context : Len(pushed'[c]) <= MaxPush /\ (c > Depth' => pushed'[c] = <<>>)
    BY <1>2, <1>3 DEF BareOK, itVars
  <2> QED BY <2>1, <2>2, <2>3, <2>4 DEF BareOK
<1>7. ItInv'
  BY <1>2, <1>3 DEF ItInv, itVars
<1>8. FpSlots(B)'
  BY <1>2, <1>3, <1>4 DEF FpSlots, Slot
<1>9. Eager => FpKept(B)'
  <2> SUFFICES ASSUME Eager PROVE FpKept(B)'
    OBVIOUS
  <2>1. FpKept(B) /\ ctx = Depth
    BY <1>1, <1>2 DEF StackInv, BareOK
  <2>2. ~lspact /\ mem' = mem /\ ~lspact'
    BY <1>4, <2>1 DEF FpKept
  <2>3. \A i \in 1..Depth : i - 1 \in live' => i - 1 \in live
    BY <1>2, <1>3, <2>1
  <2> QED BY <1>3, <2>1, <2>2, <2>3 DEF FpKept
<1> QED
  BY <1>5, <1>6, <1>7, <1>8, <1>9 DEF ContextInv, StackInv, Eager

\* A thread that needs its FP values no more.
LEMMA ControlStep ==
    ASSUME ContextAssumption, Bare, ContextInv, MsrControl
    PROVE  ContextInv'
<1>1. PICK B \in [0..MaxDepth -> Int] : StackInv(B)
  BY DEF ContextInv
<1>2. BareOK /\ ItInv /\ Layout(B) /\ FpSlots(B) /\ Depth \in Nat
  BY <1>1, Levels DEF ContextInv, StackInv
<1>3. /\ UNCHANGED <<mem, spVars, lr, ctx, sfile, lspact, fpcar, fpStack, itVars, excStack, current, pushed>>
      /\ fpca' = FALSE /\ live' = live \ {ctx} /\ Depth' = Depth /\ Depth = 0 /\ ctx = 0
  BY <1>2 DEF MsrControl, Depth, Handler, BareOK
<1>4. Layout(B)'
  BY <1>2, <1>3, LayoutKept, SameIsCareful DEF spVars
<1>5. BareOK'
  BY <1>2, <1>3 DEF BareOK, spVars, itVars, Handler
<1>6. ItInv'
  BY <1>2, <1>3 DEF ItInv, itVars
<1>7. FpSlots(B)'
  BY <1>2, <1>3 DEF FpSlots, Slot
<1>8. Eager => FpKept(B)'
  BY <1>1, <1>3 DEF FpKept, StackInv
<1> QED
  BY <1>4, <1>5, <1>6, <1>7, <1>8 DEF ContextInv, StackInv, Eager

\* An IT block begins or ends.
LEMMA ItStep ==
    ASSUME ContextAssumption, Bare, ContextInv, ItBlock
    PROVE  ContextInv'
<1>1. PICK B \in [0..MaxDepth -> Int] : StackInv(B)
  BY DEF ContextInv
<1>2. BareOK /\ ItInv /\ Layout(B) /\ FpSlots(B) /\ Depth \in Nat
  BY <1>1, Levels DEF ContextInv, StackInv
<1>3. /\ UNCHANGED <<mem, spVars, lr, ctx, fpVars, itStack, excStack, history>>
      /\ it' \in {None, ctx} /\ Depth' = Depth
  BY DEF ItBlock, Depth
<1>4. Layout(B)'
  BY <1>2, <1>3, LayoutKept, SameIsCareful DEF spVars, history
<1>5. BareOK'
  BY <1>2, <1>3 DEF BareOK, spVars, fpVars, history, Handler, None
<1>6. ItInv'
  BY <1>2, <1>3 DEF ItInv
<1>7. FpSlots(B)'
  BY <1>2, <1>3 DEF FpSlots, Slot, fpVars
<1>8. Eager => FpKept(B)'
  BY <1>1, <1>3 DEF FpKept, StackInv, fpVars, history
<1> QED
  BY <1>4, <1>5, <1>6, <1>7, <1>8 DEF ContextInv, StackInv, Eager

\* The running context pushes a word below everything.
LEMMA PushStep ==
    ASSUME ContextAssumption, Bare, ContextInv, Push
    PROVE  ContextInv'
<1>1. PICK B \in [0..MaxDepth -> Int] : StackInv(B)
  BY DEF ContextInv
<1>2. BareOK /\ ItInv /\ Layout(B) /\ FpSlots(B) /\ Depth \in Nat /\ Depth <= MaxDepth
  BY <1>1, Levels DEF ContextInv, StackInv
<1>3. /\ ctx = Depth /\ Depth \in Context /\ Depth \in 0..Depth /\ Depth' = Depth
      /\ r13 \in Int /\ r13 > 6 /\ r13 <= Region /\ Addr = 1..Region /\ Region \in Nat
      /\ Context = 0..MaxDepth
  <2>1. ctx = Depth /\ Depth' = Depth
    BY <1>2 DEF BareOK, Push, Depth
  <2>2. /\ r13 \in Int /\ r13 > 6 /\ r13 <= Region /\ Addr = 1..Region /\ Region \in Nat
        /\ Context = 0..MaxDepth /\ MaxDepth \in Nat
    BY <1>2, BareConstants, Levels
  <2> QED BY <1>2, <2>1, <2>2
<1>4. /\ UNCHANGED <<spsel, lr, ctx, fpVars, itVars, excStack, current, live>>
      /\ Len(pushed[Depth]) < MaxPush
      /\ r13' = r13 - 1 /\ (~Handler => msp' = r13')
      /\ mem' = [mem EXCEPT ![r13 - 1] = Word(Depth)]
      /\ pushed' = [pushed EXCEPT ![Depth] = Append(@, r13 - 1)]
  BY <1>2, <1>3 DEF Push, SetSp, Word, BareOK
<1>5. /\ pushed[Depth] \in Seq(Int) /\ Len(pushed[Depth]) \in Nat
      /\ pushed'[Depth] = Append(pushed[Depth], r13 - 1)
      /\ Len(pushed'[Depth]) = Len(pushed[Depth]) + 1
      /\ \A j \in 1..Len(pushed[Depth]) : pushed'[Depth][j] = pushed[Depth][j]
      /\ pushed'[Depth][Len(pushed[Depth]) + 1] = r13 - 1
      /\ \A c \in Context : c # Depth => pushed'[c] = pushed[c]
      /\ pushed' \in [Context -> Seq(Int)]
  BY <1>2, <1>3, <1>4 DEF BareOK
<1>6. r13 - 1 \in Addr /\ mem'[r13 - 1] = Word(Depth) /\ Careful(B)
      /\ (\A a \in Addr : a >= r13 => mem'[a] = mem[a])
  <2>1. r13 - 1 \in Addr /\ Spare(B, r13 - 1)
    BY <1>2, <1>3, BelowSpare
  <2>2. /\ mem' = [a \in Addr |-> mem'[a]] /\ mem'[r13 - 1] = Word(Depth)
        /\ \A a \in Addr : a # r13 - 1 => mem'[a] = mem[a]
    BY <1>2, <1>4, <2>1 DEF BareOK
  <2>3. \A a \in Addr : a >= r13 => a # r13 - 1
    BY <1>3
  <2> QED BY <2>1, <2>2, <2>3 DEF Careful
<1>7. BareOK'
  <2>1. /\ mem' = [a \in Addr |-> mem'[a]] /\ pushed' \in [Context -> Seq(Int)]
    BY <1>5, <1>6 DEF Careful
  <2>2. \A c \in Context : Len(pushed'[c]) <= MaxPush /\ (c > Depth => pushed'[c] = <<>>)
    <3> TAKE c \in Context
    <3>1. CASE c = Depth
      BY <1>2, <1>3, <1>4, <1>5, <3>1, BareConstants
    <3>2. CASE c # Depth
      BY <1>2, <1>5, <3>2 DEF BareOK
    <3> QED BY <3>1, <3>2
  <2>3. ~Handler' => msp' = r13'
    BY <1>3, <1>4 DEF Handler
  <2> QED BY <1>2, <1>3, <1>4, <2>1, <2>2, <2>3 DEF BareOK, fpVars, itVars
<1>8. ItInv'
  BY <1>2, <1>3, <1>4 DEF ItInv, itVars
<1>9. /\ \A i \in 1..Depth : mem'[B[i]] = mem[B[i]] /\ mem'[B[i] + 1] = mem[B[i] + 1]
      /\ \A i \in 0..Depth : \A j \in 1..Len(pushed[i]) : mem'[B[i] - j] = mem[B[i] - j]
  BY <1>2, <1>6, CarefulKeeps
<1>10. /\ \A i \in 0..Depth : i # Depth => pushed'[i] = pushed[i] /\ Floor(B, i)' = Floor(B, i)
       /\ B[Depth] \in Int /\ r13 = B[Depth] - Len(pushed[Depth])
       /\ Floor(B, Depth)' = r13 - 1
       /\ \A i \in 1..Depth : Roof(B, i)' = Roof(B, i)
  <2>1. \A i \in 0..Depth : i # Depth => pushed'[i] = pushed[i] /\ Floor(B, i)' = Floor(B, i)
    <3>1. \A i \in 0..Depth : i \in Context
      BY <1>2, <1>3, BareConstants
    <3> QED BY <1>5, <3>1 DEF Floor
  <2>2. B[Depth] \in Int /\ r13 = B[Depth] - Len(pushed[Depth])
    BY <1>2, <1>3, Levels DEF Layout, Floor
  <2>3. Floor(B, Depth)' = r13 - 1
    BY <1>3, <1>5, <2>2 DEF Floor
  <2>4. \A i \in 1..Depth : Roof(B, i)' = Roof(B, i)
    BY <1>4, <1>9 DEF Roof
  <2> QED BY <2>1, <2>2, <2>3, <2>4
<1>11. Layout(B)'
  <2>0. /\ B[0] = Region
        /\ \A i \in 1..Depth : mem[B[i]] \in Frame(i - 1) /\ mem[B[i] + 1] = mem[B[i]]
        /\ \A i \in 1..Depth : Roof(B, i) = Floor(B, i - 1)
        /\ \A i \in 0..Depth, j \in 1..Depth : i < j => Roof(B, j) <= Floor(B, i)
        /\ \A i \in 0..Depth : \A j \in 1..Len(pushed[i]) : pushed[i][j] = B[i] - j /\ mem[B[i] - j] = Word(i)
    BY <1>2 DEF Layout
  <2>1. B[0] = Region /\ r13' = Floor(B, Depth)'
    BY <1>3, <1>4, <1>10, <2>0
  <2>2. \A i \in 1..Depth : /\ mem'[B[i]] \in Frame(i - 1) /\ mem'[B[i] + 1] = mem'[B[i]]
                           /\ Roof(B, i)' = Floor(B, i - 1)'
    <3> TAKE i \in 1..Depth
    <3>1. i - 1 \in 0..Depth /\ i - 1 # Depth
      BY <1>2
    <3> QED BY <1>9, <1>10, <2>0, <3>1
  <2>3. \A i \in 0..Depth, j \in 1..Depth : i < j => Roof(B, j)' <= Floor(B, i)'
    <3> SUFFICES ASSUME NEW i \in 0..Depth, NEW j \in 1..Depth, i < j PROVE Roof(B, j)' <= Floor(B, i)'
      OBVIOUS
    <3>1. i # Depth
      BY <1>2
    <3> QED BY <1>10, <2>0, <3>1
  <2>4. \A i \in 0..Depth : \A j \in 1..Len(pushed'[i]) :
          pushed'[i][j] = B[i] - j /\ mem'[B[i] - j] = Word(i)
    <3> SUFFICES ASSUME NEW i \in 0..Depth, NEW j \in 1..Len(pushed'[i])
                 PROVE  pushed'[i][j] = B[i] - j /\ mem'[B[i] - j] = Word(i)
      OBVIOUS
    <3>1. CASE i # Depth
      <4>1. pushed'[i] = pushed[i] /\ j \in 1..Len(pushed[i])
        BY <1>10, <3>1
      <4>2. pushed[i][j] = B[i] - j /\ mem[B[i] - j] = Word(i) /\ mem'[B[i] - j] = mem[B[i] - j]
        BY <1>9, <2>0, <4>1
      <4> QED BY <4>1, <4>2
    <3>2. CASE i = Depth /\ j \in 1..Len(pushed[Depth])
      BY <1>5, <1>9, <2>0, <3>2
    <3>3. CASE i = Depth /\ j = Len(pushed[Depth]) + 1
      <4>1. B[i] - j = r13 - 1
        BY <1>5, <1>10, <3>3
      <4> QED BY <1>5, <1>6, <3>3, <4>1
    <3>4. i = Depth => j \in 1..Len(pushed[Depth]) \/ j = Len(pushed[Depth]) + 1
      BY <1>5
    <3> QED BY <3>1, <3>2, <3>3, <3>4
  <2>5. \A i \in 0..Depth : B[i] > 3 + (MaxDepth + 1 - i) * (5 + MaxPush) /\ B[i] <= Region
    BY <1>2 DEF Layout
  <2> QED BY <1>3, <2>1, <2>2, <2>3, <2>4, <2>5 DEF Layout
<1>12. FpSlots(B)'
  BY <1>2, <1>3, <1>4 DEF FpSlots, Slot, fpVars
<1>13. Eager => FpKept(B)'
  <2> SUFFICES ASSUME Eager PROVE FpKept(B)'
    OBVIOUS
  <2>1. FpKept(B)
    BY <1>1 DEF StackInv
  <2>2. \A i \in 1..Depth : excStack[i].ext => mem'[B[i] + 2] = mem[B[i] + 2] /\ mem'[B[i] + 3] = mem[B[i] + 3]
    <3> SUFFICES ASSUME NEW i \in 1..Depth, excStack[i].ext
                 PROVE  mem'[B[i] + 2] = mem[B[i] + 2] /\ mem'[B[i] + 3] = mem[B[i] + 3]
      OBVIOUS
    <3>1. B[i] \in Int /\ r13 <= B[i]
      <4>1. i \in 0..Depth
        BY <1>2
      <4>2. B[i] \in Int /\ Floor(B, i) \in Int /\ r13 <= Floor(B, i) /\ Floor(B, i) <= B[i]
        BY <1>2, <4>1, Levels
      <4> QED BY <1>3, <4>2
    <3>2. B[i] + 2 \in Addr /\ B[i] + 3 \in Addr
      <4>1. B[i] + 2 \in {B[i] + 2, B[i] + 3} /\ B[i] + 3 \in {B[i] + 2, B[i] + 3}
        OBVIOUS
      <4> QED BY <1>2, <4>1, SlotSpare
    <3>3. B[i] + 2 >= r13 /\ B[i] + 3 >= r13
      BY <1>3, <3>1
    <3> QED BY <1>6, <3>2, <3>3
  <2>3. \A i \in 1..Depth : mem'[B[i]].pad = mem[B[i]].pad
    BY <1>9
  <2> QED BY <1>3, <1>4, <2>1, <2>2, <2>3 DEF FpKept, fpVars
<1> QED
  BY <1>7, <1>8, <1>11, <1>12, <1>13 DEF ContextInv, StackInv, Eager

\* It pops the word it pushed last.
LEMMA PopStep ==
    ASSUME ContextAssumption, Bare, ContextInv, PopWord
    PROVE  ContextInv'
<1>1. PICK B \in [0..MaxDepth -> Int] : StackInv(B)
  BY DEF ContextInv
<1>2. BareOK /\ ItInv /\ Layout(B) /\ FpSlots(B) /\ Depth \in Nat /\ Depth <= MaxDepth
  BY <1>1, Levels DEF ContextInv, StackInv
<1>3. /\ ctx = Depth /\ Depth \in Context /\ Depth \in 0..Depth /\ Depth' = Depth
      /\ r13 \in Int /\ Context = 0..MaxDepth
  <2>1. ctx = Depth /\ Depth' = Depth
    BY <1>2 DEF BareOK, PopWord, Depth
  <2>2. r13 \in Int /\ Context = 0..MaxDepth /\ MaxDepth \in Nat
    BY <1>2, BareConstants, Levels
  <2> QED BY <1>2, <2>1, <2>2
<1>4. /\ UNCHANGED <<mem, spsel, lr, ctx, fpVars, itVars, excStack, current, live>>
      /\ pushed[Depth] # <<>>
      /\ r13' = r13 + 1 /\ (~Handler => msp' = r13')
      /\ pushed' = [pushed EXCEPT ![Depth] = Pop(@)]
  BY <1>2, <1>3 DEF PopWord, SetSp, BareOK
<1>5. /\ pushed[Depth] \in Seq(Int) /\ Len(pushed[Depth]) \in Nat
      /\ pushed'[Depth] = Pop(pushed[Depth])
      /\ pushed'[Depth] \in Seq(Int)
      /\ Len(pushed'[Depth]) = Len(pushed[Depth]) - 1
      /\ \A j \in 1..Len(pushed'[Depth]) : pushed'[Depth][j] = pushed[Depth][j]
      /\ \A c \in Context : c # Depth => pushed'[c] = pushed[c]
      /\ pushed' \in [Context -> Seq(Int)]
  <2>1. pushed[Depth] \in Seq(Int) /\ Len(pushed[Depth]) \in Nat
    BY <1>2, <1>3 DEF BareOK
  <2>2. /\ pushed'[Depth] = Pop(pushed[Depth])
        /\ \A c \in Context : c # Depth => pushed'[c] = pushed[c]
    BY <1>2, <1>3, <1>4 DEF BareOK
  <2>3. /\ Pop(pushed[Depth]) \in Seq(Int) /\ Len(Pop(pushed[Depth])) = Len(pushed[Depth]) - 1
        /\ \A j \in 1..Len(Pop(pushed[Depth])) : Pop(pushed[Depth])[j] = pushed[Depth][j]
    BY <1>4, <2>1, PopLemma
  <2>4. pushed' \in [Context -> Seq(Int)]
    BY <1>2, <1>3, <1>4, <2>3 DEF BareOK
  <2> QED BY <2>1, <2>2, <2>3, <2>4
<1>6. Careful(B)
  BY <1>2, <1>4, SameIsCareful
<1>7. BareOK'
  <2>1. mem' = [a \in Addr |-> mem'[a]]
    BY <1>6 DEF Careful
  <2>2. \A c \in Context : Len(pushed'[c]) <= MaxPush /\ (c > Depth => pushed'[c] = <<>>)
    <3> TAKE c \in Context
    <3>1. CASE c = Depth
      <4>1. Len(pushed[Depth]) <= MaxPush /\ ~(c > Depth) /\ MaxPush \in Nat
        BY <1>2, <1>3, <3>1, BareConstants DEF BareOK
      <4> QED BY <1>5, <3>1, <4>1
    <3>2. CASE c # Depth
      BY <1>2, <1>5, <3>2 DEF BareOK
    <3> QED BY <3>1, <3>2
  <2>3. ~Handler' => msp' = r13'
    BY <1>3, <1>4 DEF Handler
  <2> QED BY <1>2, <1>3, <1>4, <1>5, <2>1, <2>2, <2>3 DEF BareOK, fpVars, itVars
<1>8. ItInv'
  BY <1>2, <1>3, <1>4 DEF ItInv, itVars
<1>10. /\ \A i \in 0..Depth : i # Depth => pushed'[i] = pushed[i] /\ Floor(B, i)' = Floor(B, i)
       /\ B[Depth] \in Int /\ r13 = B[Depth] - Len(pushed[Depth])
       /\ Floor(B, Depth)' = r13 + 1
       /\ \A i \in 1..Depth : Roof(B, i)' = Roof(B, i)
  <2>1. \A i \in 0..Depth : i # Depth => pushed'[i] = pushed[i] /\ Floor(B, i)' = Floor(B, i)
    <3>1. \A i \in 0..Depth : i \in Context
      BY <1>2, <1>3, BareConstants
    <3> QED BY <1>5, <3>1 DEF Floor
  <2>2. B[Depth] \in Int /\ r13 = B[Depth] - Len(pushed[Depth])
    BY <1>2, <1>3, Levels DEF Layout, Floor
  <2>3. Floor(B, Depth)' = r13 + 1
    BY <1>3, <1>5, <2>2 DEF Floor
  <2>4. \A i \in 1..Depth : Roof(B, i)' = Roof(B, i)
    BY <1>4 DEF Roof
  <2> QED BY <2>1, <2>2, <2>3, <2>4
<1>11. Layout(B)'
  <2>0. /\ B[0] = Region
        /\ \A i \in 1..Depth : mem[B[i]] \in Frame(i - 1) /\ mem[B[i] + 1] = mem[B[i]]
        /\ \A i \in 1..Depth : Roof(B, i) = Floor(B, i - 1)
        /\ \A i \in 0..Depth, j \in 1..Depth : i < j => Roof(B, j) <= Floor(B, i)
        /\ \A i \in 0..Depth : \A j \in 1..Len(pushed[i]) : pushed[i][j] = B[i] - j /\ mem[B[i] - j] = Word(i)
        /\ \A i \in 0..Depth : B[i] > 3 + (MaxDepth + 1 - i) * (5 + MaxPush) /\ B[i] <= Region
    BY <1>2 DEF Layout
  <2>1. r13' = Floor(B, Depth)'
    BY <1>3, <1>4, <1>10
  <2>2. \A i \in 1..Depth : /\ mem'[B[i]] \in Frame(i - 1) /\ mem'[B[i] + 1] = mem'[B[i]]
                           /\ Roof(B, i)' = Floor(B, i - 1)'
    <3> TAKE i \in 1..Depth
    <3>1. i - 1 \in 0..Depth /\ i - 1 # Depth
      BY <1>2
    <3> QED BY <1>4, <1>10, <2>0, <3>1
  <2>3. \A i \in 0..Depth, j \in 1..Depth : i < j => Roof(B, j)' <= Floor(B, i)'
    <3> SUFFICES ASSUME NEW i \in 0..Depth, NEW j \in 1..Depth, i < j PROVE Roof(B, j)' <= Floor(B, i)'
      OBVIOUS
    <3>1. i # Depth
      BY <1>2
    <3> QED BY <1>10, <2>0, <3>1
  <2>4. \A i \in 0..Depth : \A j \in 1..Len(pushed'[i]) :
          pushed'[i][j] = B[i] - j /\ mem'[B[i] - j] = Word(i)
    <3> SUFFICES ASSUME NEW i \in 0..Depth, NEW j \in 1..Len(pushed'[i])
                 PROVE  pushed'[i][j] = B[i] - j /\ mem'[B[i] - j] = Word(i)
      OBVIOUS
    <3>1. pushed'[i][j] = pushed[i][j] /\ j \in 1..Len(pushed[i])
      <4>1. CASE i = Depth
        <5>1. j \in 1..Len(pushed'[Depth])
          BY <4>1
        <5>2. pushed'[Depth][j] = pushed[Depth][j]
          BY <1>5, <5>1
        <5>3. j \in 1..Len(pushed[Depth])
          <6>1. /\ Len(pushed[Depth]) \in Nat /\ Len(pushed'[Depth]) \in Int
                /\ Len(pushed'[Depth]) = Len(pushed[Depth]) - 1
            BY <1>5
          <6> QED BY <5>1, <6>1
        <5> QED BY <4>1, <5>2, <5>3
      <4>2. CASE i # Depth
        BY <1>10, <4>2
      <4> QED BY <4>1, <4>2
    <3> QED BY <1>4, <2>0, <3>1
  <2> QED BY <1>3, <2>0, <2>1, <2>2, <2>3, <2>4 DEF Layout
<1>12. FpSlots(B)'
  BY <1>2, <1>3, <1>4 DEF FpSlots, Slot, fpVars
<1>13. Eager => FpKept(B)'
  BY <1>1, <1>3, <1>4 DEF FpKept, fpVars, StackInv
<1> QED
  BY <1>7, <1>8, <1>11, <1>12, <1>13 DEF ContextInv, StackInv, Eager

\* One handler gives way to the next on the same frame.
LEMMA ChainStep ==
    ASSUME ContextAssumption, Bare, ContextInv, TailChain
    PROVE  ContextInv'
<1>1. PICK B \in [0..MaxDepth -> Int] : StackInv(B)
  BY DEF ContextInv
<1>2. BareOK /\ ItInv /\ Layout(B) /\ FpSlots(B) /\ Depth \in Nat /\ Depth <= MaxDepth
  BY <1>1, Levels DEF ContextInv, StackInv
<1>3. /\ UNCHANGED <<mem, spVars, itStack, fpStack, sfile, fpca, excStack, current>>
      /\ ctx' = Depth /\ it' = None /\ ctx = Depth /\ Depth' = Depth /\ Depth > 0
      /\ pushed[Depth] = <<>> /\ pushed' = [pushed EXCEPT ![Depth] = <<>>] /\ live' = live \ {Depth}
      /\ lspact' = Top(fpStack).lspact /\ fpcar' = Top(fpStack).fpcar
      /\ lr' = LinkTo(Depth > 1, Top(excStack).psp, Top(excStack).ext)
  BY <1>2 DEF TailChain, StartHandler, HandlerIt, Returns, CanReturn, Handler, Depth, BareOK
<1>4. pushed' = pushed
  BY <1>2, <1>3 DEF BareOK
<1>5. /\ Top(fpStack) = fpStack[Depth] /\ Top(fpStack) \in Links
      /\ Top(excStack) = excStack[Depth] /\ Top(excStack) \in Entry /\ ~Top(excStack).psp
      /\ Depth \in 1..Depth
  <2>1. Depth \in 1..Depth /\ fpStack # <<>> /\ excStack # <<>> /\ Len(fpStack) = Depth
        /\ fpStack \in Seq(Links) /\ excStack \in Seq(Entry)
    BY <1>2, <1>3 DEF BareOK, Depth
  <2>2. Top(fpStack) = fpStack[Len(fpStack)] /\ Top(fpStack) \in Links
    BY <2>1, PopLemma
  <2>3. Top(excStack) = excStack[Len(excStack)] /\ Top(excStack) \in Entry
    BY <2>1, PopLemma
  <2>4. ~excStack[Depth].psp
    BY <1>2, <2>1 DEF BareOK
  <2> QED BY <2>1, <2>2, <2>3, <2>4 DEF Depth
<1>6. lr' \in MspLink
  BY <1>3, <1>5 DEF LinkTo, MspLink, ExcReturn, Entry
<1>7. lspact' \in BOOLEAN /\ fpcar' \in Int
  BY <1>3, <1>5 DEF Links
<1>8. Layout(B)'
  BY <1>2, <1>3, <1>4, LayoutKept, SameIsCareful DEF spVars
<1>9. BareOK'
  <2>1. mem' = [a \in Addr |-> mem'[a]] /\ fpca' \in BOOLEAN
    BY <1>2, <1>3 DEF BareOK
  <2>2. /\ spsel' = FALSE /\ lr' \in MspLink /\ current' = Main
        /\ ctx' = Depth' /\ it' \in Int /\ fpcar' \in Int /\ (~Handler' => msp' = r13')
    BY <1>2, <1>3, <1>6, <1>7 DEF BareOK, spVars, Handler, None
  <2>3. /\ excStack' \in Seq(Entry) /\ Depth' <= MaxDepth /\ \A i \in 1..Depth' : ~excStack'[i].psp
        /\ itStack' \in Seq(Int) /\ Len(itStack') = Depth'
        /\ fpStack' \in Seq(Links) /\ Len(fpStack') = Depth'
        /\ pushed' \in [Context -> Seq(Int)]
        /\ \A c \in Context : Len(pushed'[c]) <= MaxPush /\ (c > Depth' => pushed'[c] = <<>>)
    BY <1>2, <1>3, <1>4 DEF BareOK
  <2> QED BY <1>7, <2>1, <2>2, <2>3 DEF BareOK
<1>10. ItInv'
  BY <1>2, <1>3 DEF ItInv
<1>11. FpSlots(B)'
  <2>1. fpStack[Depth].lspact => Slot(B, fpStack[Depth].fpcar, Depth - 1)
    BY <1>2, <1>5 DEF FpSlots
  <2>2. ASSUME NEW a, Slot(B, a, Depth - 1) PROVE Slot(B, a, Depth)
    BY <1>2, <2>2 DEF Slot
  <2>3. lspact' => Slot(B, fpcar', Depth)
    BY <1>3, <1>5, <2>1, <2>2
  <2>4. \A i \in 1..Depth : fpStack[i].lspact => Slot(B, fpStack[i].fpcar, i - 1)
    BY <1>2 DEF FpSlots
  <2> QED BY <1>3, <2>3, <2>4 DEF FpSlots, Slot
<1>12. Eager => FpKept(B)'
  <2> SUFFICES ASSUME Eager PROVE FpKept(B)'
    OBVIOUS
  <2>1. FpKept(B)
    BY <1>1 DEF StackInv
  <2>2. ~lspact' /\ ~(ctx' \in live')
    BY <1>3, <1>5, <2>1 DEF FpKept
  <2> QED BY <1>3, <2>1, <2>2 DEF FpKept
<1> QED
  BY <1>8, <1>9, <1>10, <1>11, <1>12 DEF ContextInv, StackInv, Eager

\* A return finds the frame of who was interrupted, and leaves the stack as it was then.
LEMMA ReturnStep ==
    ASSUME ContextAssumption, Bare, ContextInv, ExceptionReturn
    PROVE  ContextInv'
<1>1. PICK B \in [0..MaxDepth -> Int] : StackInv(B)
  BY DEF ContextInv
<1>2. BareOK /\ ItInv /\ Layout(B) /\ FpSlots(B) /\ Depth \in Nat /\ Depth <= MaxDepth
  BY <1>1, Levels DEF ContextInv, StackInv
<1>3. PICK d \in Nat : d = Depth
  BY <1>2
<1>4. /\ ctx = d /\ d > 0 /\ d \in 1..d /\ d \in 0..d /\ d - 1 \in 0..d /\ d <= MaxDepth /\ MaxDepth < 100
      /\ MaxDepth \in Nat /\ Context = 0..MaxDepth /\ Addr = 1..Region /\ Region \in Nat
      /\ pushed[d] = <<>> /\ lr.ext = Top(excStack).ext /\ ~lr.psp /\ spsel = FALSE
  <2>1. /\ d > 0 /\ pushed[ctx] = <<>> /\ lr.ext = Top(excStack).ext
    BY <1>3 DEF ExceptionReturn, Returns, CanReturn, Handler
  <2>2. ctx = d /\ ~lr.psp /\ spsel = FALSE /\ d <= MaxDepth
    BY <1>2, <1>3 DEF BareOK, MspLink
  <2>3. d \in 1..d /\ d \in 0..d /\ d - 1 \in 0..d
    BY <2>1
  <2>4. /\ MaxDepth < 100 /\ MaxDepth \in Nat /\ Context = 0..MaxDepth /\ Addr = 1..Region /\ Region \in Nat
    BY BareConstants
  <2> QED BY <2>1, <2>2, <2>3, <2>4
<1>5. /\ Top(fpStack) = fpStack[d] /\ Top(fpStack) \in Links /\ fpStack' = Pop(fpStack)
      /\ fpStack' \in Seq(Links) /\ Len(fpStack') = d - 1
      /\ \A i \in 1..(d - 1) : fpStack'[i] = fpStack[i]
  <2>1. fpStack # <<>> /\ fpStack \in Seq(Links) /\ Len(fpStack) = d
    BY <1>2, <1>3, <1>4 DEF BareOK
  <2>2. fpStack' = Pop(fpStack)
    BY DEF ExceptionReturn, PoppedFp
  <2> QED BY <2>1, <2>2, PopLemma
<1>6. /\ Top(excStack) = excStack[d] /\ excStack[d] \in Entry
      /\ excStack' \in Seq(Entry) /\ Len(excStack') = d - 1 /\ Depth' = d - 1
      /\ \A i \in 1..(d - 1) : excStack'[i] = excStack[i]
  <2>1. excStack # <<>> /\ excStack \in Seq(Entry) /\ Len(excStack) = d
    BY <1>2, <1>3, <1>4 DEF BareOK, Depth
  <2>2. excStack' = Pop(excStack)
    BY DEF ExceptionReturn
  <2> QED BY <2>1, <2>2, PopLemma DEF Depth
<1>7. /\ Top(itStack) = itStack[d] /\ itStack[d] \in Int /\ it' = itStack[d]
      /\ itStack' \in Seq(Int) /\ Len(itStack') = d - 1
      /\ \A i \in 1..(d - 1) : itStack'[i] = itStack[i]
  <2>1. itStack # <<>> /\ itStack \in Seq(Int) /\ Len(itStack) = d
    BY <1>2, <1>3, <1>4 DEF BareOK
  <2>2. itStack' = Pop(itStack) /\ it' = Top(itStack)
    BY DEF ExceptionReturn
  <2> QED BY <2>1, <2>2, PopLemma
<1>8. /\ B[d] \in Int /\ r13 = B[d] /\ B[d] > 3 /\ B[d] + 2 <= Roof(B, d) /\ Roof(B, d) <= Region
      /\ Roof(B, d) \in Int /\ mem[B[d]] \in Frame(d - 1) /\ mem[B[d] + 1] = mem[B[d]]
      /\ Roof(B, d) = Floor(B, d - 1) /\ Floor(B, d - 1) \in Int
      /\ B[d] \in Addr /\ B[d] + 1 \in Addr
  <2>1. /\ B[d] \in Int /\ B[d] > 3 /\ B[d] + 2 <= Roof(B, d) /\ Roof(B, d) <= Region /\ Roof(B, d) \in Int
        /\ Floor(B, d - 1) \in Int
    BY <1>2, <1>3, <1>4, Levels
  <2>2. r13 = B[d] - Len(pushed[d]) /\ Len(pushed[d]) = 0
    BY <1>2, <1>3, <1>4 DEF Layout, Floor
  <2>3. mem[B[d]] \in Frame(d - 1) /\ mem[B[d] + 1] = mem[B[d]] /\ Roof(B, d) = Floor(B, d - 1)
    BY <1>2, <1>3, <1>4 DEF Layout
  <2> QED BY <1>4, <2>1, <2>2, <2>3
<1>9. Holder(B[d], "frame") = d - 1 /\ Holder(B[d], "frame") # Lost
  <2>1. mem[B[d]].kind = "frame" /\ mem[B[d]].who = d - 1
    BY <1>8 DEF Frame
  <2> QED BY <1>4, <1>8, <2>1 DEF Holder, Lost
<1>10. /\ mem[B[d]].lr \in MspLink /\ mem[B[d]].pad \in {0, 1}
       /\ Roof(B, d) = B[d] + (IF lr.ext THEN 4 ELSE 2) + mem[B[d]].pad
  BY <1>4, <1>6, <1>8 DEF Frame, Roof, FrameWords
<1>11. /\ ctx' = d - 1 /\ lr' = mem[B[d]].lr /\ r13' = Roof(B, d) /\ msp' = r13'
       /\ spsel' = FALSE /\ lspact' = fpStack[d].lspact /\ fpcar' = fpStack[d].fpcar
       /\ UNCHANGED <<mem, fpca, current, live, pushed>>
       /\ (lr.ext /\ ~fpStack[d].lspact => sfile' = Holder(B[d] + 2 + mem[B[d]].pad, "fp"))
  <2>1. ReturnSp = B[d] /\ ReturnSpsel = FALSE
    BY <1>4, <1>8 DEF ReturnSp, ReturnSpsel
  <2>2. FpPart(B[d], mem[B[d]].pad) = B[d] + 2 + mem[B[d]].pad
    BY DEF FpPart
  <2>3. /\ ctx' = d - 1 /\ lr' = mem[B[d]].lr /\ spsel' = FALSE
        /\ lspact' = fpStack[d].lspact /\ fpcar' = fpStack[d].fpcar
        /\ UNCHANGED <<mem, fpca, current, live, pushed>>
        /\ r13' = (IF lr.ext THEN B[d] + 2 + mem[B[d]].pad + 2 ELSE B[d] + 2 + mem[B[d]].pad)
        /\ msp' = r13'
        /\ (lr.ext /\ ~fpStack[d].lspact => sfile' = Holder(B[d] + 2 + mem[B[d]].pad, "fp"))
    BY <1>4, <1>5, <1>9, <2>1, <2>2 DEF ExceptionReturn, history
  <2>4. r13' = Roof(B, d)
    BY <1>8, <1>10, <2>3, SMTT(30)
  <2> QED BY <2>3, <2>4
<1>12. BareOK'
  <2>1. mem' = [a \in Addr |-> mem'[a]] /\ fpca' \in BOOLEAN
    BY <1>2, <1>11 DEF BareOK
  <2>2. lspact' \in BOOLEAN /\ fpcar' \in Int
    BY <1>5, <1>11 DEF Links
  <2>3. /\ spsel' = FALSE /\ lr' \in MspLink /\ current' = Main /\ ctx' = d - 1 /\ it' \in Int /\ msp' = r13'
    BY <1>2, <1>7, <1>10, <1>11 DEF BareOK
  <2>4. \A i \in 1..(d - 1) : ~excStack'[i].psp
    <3>1. \A i \in 1..(d - 1) : i \in 1..Depth
      BY <1>3, <1>4
    <3> QED BY <1>2, <1>6, <3>1 DEF BareOK
  <2>5. \A c \in Context : Len(pushed'[c]) <= MaxPush /\ (c > d - 1 => pushed'[c] = <<>>)
    <3> TAKE c \in Context
    <3>1. c > d - 1 => c = d \/ c > d
      BY <1>4
    <3> QED BY <1>2, <1>3, <1>4, <1>11, <3>1 DEF BareOK
  <2>6. pushed' \in [Context -> Seq(Int)] /\ d - 1 <= MaxDepth
    <3>1. pushed' = pushed /\ pushed \in [Context -> Seq(Int)]
      BY <1>2, <1>11 DEF BareOK
    <3>2. d - 1 <= MaxDepth
      BY <1>4
    <3> QED BY <3>1, <3>2
  <2> QED BY <1>5, <1>6, <1>7, <2>1, <2>2, <2>3, <2>4, <2>5, <2>6 DEF BareOK
<1>13. ItInv'
  <2>1. \A i \in 1..d : itStack[i] \in {None, i - 1}
    BY <1>2, <1>3 DEF ItInv
  <2>2. it' \in {None, ctx'}
    BY <1>4, <1>7, <1>11, <2>1
  <2>3. \A i \in 1..(d - 1) : itStack'[i] \in {None, i - 1}
    <3> TAKE i \in 1..(d - 1)
    <3>1. i \in 1..d /\ itStack'[i] = itStack[i]
      BY <1>4, <1>7, SMTT(30)
    <3> QED BY <2>1, <3>1
  <2> QED BY <1>6, <2>2, <2>3 DEF ItInv
<1>14. Layout(B)'
  <2>0. /\ B[0] = Region
        /\ \A i \in 1..d : mem[B[i]] \in Frame(i - 1) /\ mem[B[i] + 1] = mem[B[i]]
        /\ \A i \in 1..d : Roof(B, i) = Floor(B, i - 1)
        /\ \A i \in 0..d, j \in 1..d : i < j => Roof(B, j) <= Floor(B, i)
        /\ \A i \in 0..d : \A j \in 1..Len(pushed[i]) : pushed[i][j] = B[i] - j /\ mem[B[i] - j] = Word(i)
        /\ \A i \in 0..d : B[i] > 3 + (MaxDepth + 1 - i) * (5 + MaxPush) /\ B[i] <= Region
    BY <1>2, <1>3 DEF Layout
  <2>1. \A i \in 1..(d - 1) : i \in 1..d /\ Roof(B, i)' = Roof(B, i)
    BY <1>4, <1>6, <1>11 DEF Roof
  <2>2. \A i \in 0..(d - 1) : i \in 0..d /\ Floor(B, i)' = Floor(B, i)
    BY <1>4, <1>11 DEF Floor
  <2>3. r13' = Floor(B, Depth)'
    BY <1>6, <1>8, <1>11 DEF Floor
  <2>4. \A i \in 1..(d - 1) : Roof(B, i)' = Floor(B, i - 1)'
    <3> TAKE i \in 1..(d - 1)
    <3>1. i - 1 \in 0..(d - 1)
      BY <1>4
    <3> QED BY <2>0, <2>1, <2>2, <3>1
  <2>5. \A i \in 0..(d - 1), j \in 1..(d - 1) : i < j => Roof(B, j)' <= Floor(B, i)'
    BY <2>0, <2>1, <2>2
  <2>6. \A i \in 1..(d - 1) : mem'[B[i]] \in Frame(i - 1) /\ mem'[B[i] + 1] = mem'[B[i]]
    BY <1>11, <2>0, <2>1
  <2>7. \A i \in 0..(d - 1) : \A j \in 1..Len(pushed'[i]) :
          pushed'[i][j] = B[i] - j /\ mem'[B[i] - j] = Word(i)
    BY <1>11, <2>0, <2>2
  <2>8. \A i \in 0..(d - 1) : B[i] > 3 + (MaxDepth + 1 - i) * (5 + MaxPush) /\ B[i] <= Region
    BY <2>0, <2>2
  <2> QED BY <1>6, <2>0, <2>3, <2>4, <2>5, <2>6, <2>7, <2>8 DEF Layout
<1>15. FpSlots(B)'
  <2>1. \A i \in 1..d : fpStack[i].lspact => Slot(B, fpStack[i].fpcar, i - 1)
    BY <1>2, <1>3 DEF FpSlots
  <2>2. ASSUME NEW a, NEW n \in 0..(d - 1), Slot(B, a, n)
        PROVE  \E k \in 1..n : excStack'[k].ext /\ a = B[k] + 2
    <3>1. PICK k \in 1..n : excStack[k].ext /\ a = B[k] + 2
      BY <2>2 DEF Slot
    <3>2. k \in 1..(d - 1)
      BY <1>4
    <3> QED BY <1>6, <3>1, <3>2
  <2>3. lspact' => \E k \in 1..(d - 1) : excStack'[k].ext /\ fpcar' = B[k] + 2
    <3>1. d - 1 \in 0..(d - 1)
      BY <1>4
    <3> QED BY <1>4, <1>11, <2>1, <2>2, <3>1
  <2>4. \A i \in 1..(d - 1) : fpStack'[i].lspact =>
          \E k \in 1..(i - 1) : excStack'[k].ext /\ fpStack'[i].fpcar = B[k] + 2
    <3> TAKE i \in 1..(d - 1)
    <3>1. i \in 1..d /\ i - 1 \in 0..(d - 1) /\ fpStack'[i] = fpStack[i]
      BY <1>4, <1>5, SMTT(30)
    <3> QED BY <2>1, <2>2, <3>1
  <2> QED BY <1>6, <2>3, <2>4 DEF FpSlots, Slot
<1>16. Eager => FpKept(B)'
  <2> SUFFICES ASSUME Eager PROVE FpKept(B)'
    OBVIOUS
  <2>1. /\ \A i \in 1..d : ~fpStack[i].lspact
        /\ \A c \in 0..d : c \in live => fpca
        /\ \A i \in 1..d :
              /\ mem[B[i]].pad = 0
              /\ i - 1 \in live =>
                   /\ excStack[i].ext
                   /\ mem[B[i] + 2] = FpPartOf(i - 1) /\ mem[B[i] + 3] = FpPartOf(i - 1)
    BY <1>1, <1>3 DEF StackInv, FpKept
  <2>2. ASSUME ctx' \in live' PROVE sfile' = ctx'
    <3>1. /\ excStack[d].ext /\ mem[B[d]].pad = 0 /\ ~fpStack[d].lspact
          /\ mem[B[d] + 2] = FpPartOf(d - 1) /\ mem[B[d] + 3] = FpPartOf(d - 1)
      BY <1>4, <1>11, <2>1, <2>2
    <3>2. B[d] + 2 \in Addr /\ (B[d] + 2) + 1 \in Addr /\ (B[d] + 2) + 1 = B[d] + 3
      <4>1. B[d] + 2 \in {B[d] + 2, B[d] + 3} /\ B[d] + 3 \in {B[d] + 2, B[d] + 3}
        OBVIOUS
      <4>2. B[d] + 2 \in Addr /\ B[d] + 3 \in Addr
        BY <1>2, <1>3, <1>4, <3>1, <4>1, SlotSpare
      <4> QED BY <1>8, <4>2
    <3>3. Holder(B[d] + 2, "fp") = d - 1
      <4> DEFINE a == B[d] + 2
      <4>1. a \in Addr /\ a + 1 \in Addr /\ mem[a] = FpPartOf(d - 1) /\ mem[a + 1] = mem[a]
        BY <3>1, <3>2
      <4> HIDE DEF a
      <4>2. Holder(a, "fp") = d - 1
        BY <4>1 DEF Holder, FpPartOf
      <4> QED BY <4>2 DEF a
    <3>4. B[d] + 2 + mem[B[d]].pad = B[d] + 2 /\ lr.ext
      BY <1>4, <1>6, <1>8, <3>1
    <3> QED BY <1>11, <3>1, <3>3, <3>4
  <2>3. ~lspact' /\ \A i \in 1..(d - 1) : ~fpStack'[i].lspact
    BY <1>4, <1>5, <1>11, <2>1, SMTT(30)
  <2>4. \A c \in 0..(d - 1) : c \in live' => fpca'
    BY <1>4, <1>11, <2>1
  <2>5. \A i \in 1..(d - 1) :
              /\ mem'[B[i]].pad = 0
              /\ i - 1 \in live' =>
                   /\ excStack'[i].ext
                   /\ mem'[B[i] + 2] = FpPartOf(i - 1) /\ mem'[B[i] + 3] = FpPartOf(i - 1)
    <3> TAKE i \in 1..(d - 1)
    <3>1. i \in 1..d /\ excStack'[i] = excStack[i]
      BY <1>4, <1>6
    <3> QED BY <1>11, <2>1, <3>1
  <2> QED BY <1>6, <2>2, <2>3, <2>4, <2>5 DEF FpKept
<1> QED
  BY <1>12, <1>13, <1>14, <1>15, <1>16 DEF ContextInv, StackInv, Eager

\* An entry pushes a frame of the interrupted context below everything.
LEMMA EntryStep ==
    ASSUME ContextAssumption, Bare, Lazy => StkAlign, ContextInv, TakeException
    PROVE  ContextInv'
<1>1. PICK B \in [0..MaxDepth -> Int] : StackInv(B)
  BY DEF ContextInv
<1>2. BareOK /\ ItInv /\ Layout(B) /\ FpSlots(B) /\ Depth \in Nat
  BY <1>1, Levels DEF ContextInv, StackInv
<1>3. PICK d \in Nat : d = Depth
  BY <1>2
<1> DEFINE base == r13 - FrameWords(fpca)
<1> DEFINE sp == base - EntryPad(base)
<1> DEFINE frame == [kind |-> "frame", who |-> ctx, lr |-> lr, pad |-> EntryPad(base)]
<1>4. /\ ctx = d /\ d < MaxDepth /\ d \in 0..d /\ d \in 0..MaxDepth /\ d + 1 \in 0..MaxDepth /\ d + 1 # 0
      /\ MaxDepth \in Nat /\ Context = 0..MaxDepth /\ Addr = 1..Region /\ Region \in Nat
      /\ MaxDepth < 100 /\ MaxPush \in Nat /\ fpca \in BOOLEAN /\ spsel = FALSE /\ lr \in MspLink
      /\ StkAlign \in BOOLEAN /\ Lazy \in BOOLEAN
      /\ r13 \in Int /\ r13 > 6 /\ r13 <= Region
  <2>1. ctx = d /\ d < MaxDepth /\ fpca \in BOOLEAN /\ spsel = FALSE /\ lr \in MspLink
    BY <1>2, <1>3 DEF TakeException, BareOK
  <2>2. /\ MaxDepth \in Nat /\ Context = 0..MaxDepth /\ Addr = 1..Region /\ Region \in Nat
        /\ MaxDepth < 100 /\ MaxPush \in Nat /\ StkAlign \in BOOLEAN /\ Lazy \in BOOLEAN
    BY BareConstants
  <2>3. r13 \in Int /\ r13 > 6 /\ r13 <= Region
    BY <1>2, Levels
  <2>4. d \in 0..d /\ d \in 0..MaxDepth /\ d + 1 \in 0..MaxDepth /\ d + 1 # 0
    BY <2>1, <2>2
  <2> QED BY <2>1, <2>2, <2>3, <2>4
<1>5. /\ EntryPad(base) \in {0, 1} /\ (~StkAlign => EntryPad(base) = 0)
      /\ FrameWords(fpca) = (IF fpca THEN 4 ELSE 2)
      /\ base \in Int /\ sp \in Int /\ sp = base - EntryPad(base) /\ base = r13 - FrameWords(fpca)
      /\ sp > 1 /\ sp >= r13 - 5 /\ sp + 2 <= r13 /\ (fpca => sp + 4 <= r13)
      /\ sp + FrameWords(fpca) + EntryPad(base) = r13
  <2>1. EntryPad(base) \in {0, 1} /\ (~StkAlign => EntryPad(base) = 0)
    BY DEF EntryPad
  <2>2. FrameWords(fpca) = (IF fpca THEN 4 ELSE 2)
    BY DEF FrameWords
  <2> HIDE DEF base
  <2>3. base = r13 - FrameWords(fpca)
    BY DEF base
  <2> QED BY <1>4, <2>1, <2>2, <2>3, SMTT(30)
<1>6. StkAlign => Fpcar(sp + 2) = sp + 2
  <2> SUFFICES ASSUME StkAlign PROVE (sp + 2) % 2 = 0
    BY <1>5 DEF Fpcar
  <2>1. EntryPad(base) = IF base % 2 = 1 THEN 1 ELSE 0
    BY DEF EntryPad
  <2>2. base \in Int /\ sp = base - EntryPad(base)
    BY <1>5
  <2> HIDE DEF base, sp
  <2> QED BY <2>1, <2>2
<1>7. /\ r13' = sp /\ msp' = sp
      /\ lr' = LinkTo(Handler, FALSE, fpca)
      /\ excStack' = Append(excStack, [psp |-> FALSE, ext |-> fpca])
      /\ itStack' = Append(itStack, it)
      /\ fpStack' = Append(fpStack, [lspact |-> lspact, fpcar |-> fpcar])
      /\ lspact' = (lspact \/ (fpca /\ Lazy))
      /\ fpcar' = (IF fpca /\ Lazy THEN Fpcar(sp + 2) ELSE fpcar)
      /\ ctx' = d + 1 /\ it' = None /\ pushed' = [pushed EXCEPT ![d + 1] = <<>>]
      /\ live' = live \ {d + 1}
      /\ UNCHANGED <<current, spsel, sfile, fpca>>
      /\ mem' = (IF fpca /\ ~Lazy THEN Stored(Stored(mem, sp, frame), sp + 2, FpPartOf(sfile))
                 ELSE Stored(mem, sp, frame))
  BY <1>3, <1>4 DEF TakeException, EntrySp, StartHandler, HandlerIt, FpPartOf
<1> HIDE DEF base, sp
<1>8. pushed' = pushed /\ pushed[d + 1] = <<>> /\ Len(pushed[d + 1]) = 0
  BY <1>2, <1>3, <1>4, <1>7 DEF BareOK
<1>9. /\ mem' = [a \in Addr |-> mem'[a]]
      /\ \A a \in Addr : a >= r13 => mem'[a] = mem[a]
      /\ sp \in Addr /\ sp + 1 \in Addr /\ mem'[sp] = frame /\ mem'[sp + 1] = frame
      /\ fpca /\ ~Lazy => mem'[sp + 2] = FpPartOf(sfile) /\ mem'[sp + 3] = FpPartOf(sfile)
  <2>1. sp \in Addr /\ sp + 1 \in Addr /\ (fpca => sp + 2 \in Addr /\ sp + 3 \in Addr)
    <3>1. /\ sp \in Int /\ r13 \in Int /\ Region \in Int /\ sp > 1 /\ sp + 2 <= r13 /\ r13 <= Region
          /\ Addr = 1..Region
      BY <1>4, <1>5
    <3>2. sp \in Addr /\ sp + 1 \in Addr
      BY <3>1
    <3>3. ASSUME fpca PROVE sp + 2 \in Addr /\ sp + 3 \in Addr
      <4>1. sp + 4 <= r13
        BY <1>5, <3>3
      <4> QED BY <3>1, <4>1
    <3> QED BY <3>2, <3>3
  <2> HIDE DEF frame
  <2>2. CASE fpca /\ ~Lazy
    <3>1. mem' = [a \in Addr |-> IF a \in {sp + 2, sp + 2 + 1} THEN FpPartOf(sfile)
                                 ELSE Stored(mem, sp, frame)[a]]
      BY <1>7, <2>2 DEF Stored
    <3>2. Stored(mem, sp, frame) = [a \in Addr |-> IF a \in {sp, sp + 1} THEN frame ELSE mem[a]]
      BY DEF Stored
    <3>3. \A a \in Addr : a >= r13 => a \notin {sp, sp + 1} /\ a \notin {sp + 2, sp + 2 + 1}
      BY <1>4, <1>5, <2>2, SMTT(30)
    <3>4. sp \notin {sp + 2, sp + 2 + 1} /\ sp + 1 \notin {sp + 2, sp + 2 + 1}
          /\ sp + 3 \in {sp + 2, sp + 2 + 1}
      BY <1>5
    <3>5. \A a \in Addr : a >= r13 => mem'[a] = mem[a]
      BY <3>1, <3>2, <3>3
    <3>6. mem'[sp] = frame /\ mem'[sp + 1] = frame
      BY <2>1, <3>1, <3>2, <3>4
    <3>7. mem'[sp + 2] = FpPartOf(sfile) /\ mem'[sp + 3] = FpPartOf(sfile)
      BY <2>1, <2>2, <3>1, <3>4
    <3> QED BY <2>1, <3>1, <3>5, <3>6, <3>7
  <2>3. CASE ~(fpca /\ ~Lazy)
    <3>1. mem' = [a \in Addr |-> IF a \in {sp, sp + 1} THEN frame ELSE mem[a]]
      BY <1>7, <2>3 DEF Stored
    <3>2. \A a \in Addr : a >= r13 => a \notin {sp, sp + 1}
      BY <1>4, <1>5, SMTT(30)
    <3> QED BY <2>1, <2>3, <3>1, <3>2
  <2> QED BY <2>2, <2>3
<1>10. Careful(B)
  <2>1. ASSUME NEW a \in Addr PROVE Spare(B, a) \/ mem'[a] = mem[a]
    <3>1. a \in Int /\ (a >= r13 \/ a < r13)
      BY <1>4
    <3>2. CASE a < r13
      BY <1>2, <3>1, <3>2, BelowSpare
    <3> QED BY <1>9, <3>1, <3>2
  <2> QED BY <1>9, <2>1 DEF Careful
<1>11. /\ \A i \in 1..d : mem'[B[i]] = mem[B[i]] /\ mem'[B[i] + 1] = mem[B[i] + 1]
       /\ \A i \in 0..d : \A j \in 1..Len(pushed[i]) : mem'[B[i] - j] = mem[B[i] - j]
  BY <1>2, <1>3, <1>10, CarefulKeeps
<1>12. PICK C \in [0..MaxDepth -> Int] : C = [B EXCEPT ![d + 1] = sp]
  <2>1. [B EXCEPT ![d + 1] = sp] \in [0..MaxDepth -> Int]
    BY <1>5
  <2> QED BY <2>1
<1>13. C[d + 1] = sp /\ \A i \in 0..d : C[i] = B[i]
  BY <1>4, <1>12
<1>14. /\ excStack' \in Seq(Entry) /\ Len(excStack') = d + 1 /\ Depth' = d + 1
       /\ excStack'[d + 1] = [psp |-> FALSE, ext |-> fpca]
       /\ \A i \in 1..d : excStack'[i] = excStack[i]
  <2>1. [psp |-> FALSE, ext |-> fpca] \in Entry
    BY <1>4 DEF Entry
  <2> HIDE DEF frame
  <2>2. excStack \in Seq(Entry) /\ Len(excStack) = d
    BY <1>2, <1>3 DEF BareOK, Depth
  <2> QED BY <1>7, <2>1, <2>2 DEF Depth
<1>15. /\ itStack' \in Seq(Int) /\ Len(itStack') = d + 1 /\ itStack'[d + 1] = it
       /\ \A i \in 1..d : itStack'[i] = itStack[i]
  <2>1. itStack \in Seq(Int) /\ Len(itStack) = d /\ it \in Int
    BY <1>2, <1>3 DEF BareOK
  <2> QED BY <1>7, <2>1
<1>16. /\ fpStack' \in Seq(Links) /\ Len(fpStack') = d + 1
       /\ fpStack'[d + 1] = [lspact |-> lspact, fpcar |-> fpcar]
       /\ \A i \in 1..d : fpStack'[i] = fpStack[i]
  <2>1. fpStack \in Seq(Links) /\ Len(fpStack) = d
    BY <1>2, <1>3 DEF BareOK
  <2>2. [lspact |-> lspact, fpcar |-> fpcar] \in Links
    BY <1>2 DEF BareOK, Links
  <2> QED BY <1>7, <2>1, <2>2
<1>17. BareOK'
  <2>1. lspact' \in BOOLEAN /\ fpcar' \in Int /\ fpca' \in BOOLEAN
    <3>1. Fpcar(sp + 2) \in Int
      BY <1>5 DEF Fpcar
    <3>2. lspact' \in BOOLEAN
      BY <1>7
    <3>3. fpcar' \in Int
      BY <1>2, <1>7, <3>1 DEF BareOK
    <3> QED BY <1>4, <1>7, <3>2, <3>3
  <2>2. lr' \in MspLink
    BY <1>4, <1>7 DEF LinkTo, MspLink, ExcReturn, Handler
  <2>3. \A i \in 1..(d + 1) : ~excStack'[i].psp
    <3> TAKE i \in 1..(d + 1)
    <3>1. i \in 1..d \/ i = d + 1
      OBVIOUS
    <3>2. \A k \in 1..d : ~excStack[k].psp
      BY <1>2, <1>3 DEF BareOK
    <3> QED BY <1>14, <3>1, <3>2
  <2>4. \A c \in Context : Len(pushed'[c]) <= MaxPush /\ (c > d + 1 => pushed'[c] = <<>>)
    <3> TAKE c \in Context
    <3>1. c > d + 1 => c > d
      BY <1>4
    <3> QED BY <1>2, <1>3, <1>8, <3>1 DEF BareOK
  <2>5. pushed' \in [Context -> Seq(Int)] /\ current' = Main /\ spsel' = FALSE
    BY <1>2, <1>7, <1>8 DEF BareOK
  <2>6. ctx' = Depth' /\ it' \in Int /\ (~Handler' => msp' = r13') /\ Depth' <= MaxDepth
    <3>1. msp' = r13' /\ it' \in Int
      BY <1>7 DEF None
    <3>2. ctx' = Depth' /\ Depth' <= MaxDepth
      BY <1>4, <1>7, <1>14
    <3> QED BY <3>1, <3>2
  <2> QED BY <1>9, <1>14, <1>15, <1>16, <2>1, <2>2, <2>3, <2>4, <2>5, <2>6 DEF BareOK
<1>18. ItInv'
  <2>1. it \in {None, d} /\ \A i \in 1..d : itStack[i] \in {None, i - 1}
    BY <1>2, <1>3, <1>4 DEF ItInv
  <2>2. \A i \in 1..(d + 1) : itStack'[i] \in {None, i - 1}
    <3> TAKE i \in 1..(d + 1)
    <3>1. i \in 1..d \/ (i = d + 1 /\ i - 1 = d)
      OBVIOUS
    <3> QED BY <1>15, <2>1, <3>1
  <2> QED BY <1>7, <1>14, <2>2 DEF ItInv
<1>19. Layout(C)'
  <2>0. /\ B[0] = Region /\ r13 = Floor(B, d)
        /\ \A i \in 1..d : mem[B[i]] \in Frame(i - 1) /\ mem[B[i] + 1] = mem[B[i]]
        /\ \A i \in 1..d : Roof(B, i) = Floor(B, i - 1)
        /\ \A i \in 0..d, j \in 1..d : i < j => Roof(B, j) <= Floor(B, i)
        /\ \A i \in 0..d : \A j \in 1..Len(pushed[i]) : pushed[i][j] = B[i] - j /\ mem[B[i] - j] = Word(i)
        /\ \A i \in 0..d : B[i] > 3 + (MaxDepth + 1 - i) * (5 + MaxPush) /\ B[i] <= Region
    BY <1>2, <1>3 DEF Layout
  <2>1. \A i \in 0..d : Floor(C, i)' = Floor(B, i)
    BY <1>8, <1>13 DEF Floor
  <2>2. \A i \in 1..d : i \in 0..d /\ Roof(C, i)' = Roof(B, i)
    BY <1>11, <1>13, <1>14 DEF Roof
  <2>3. Floor(C, d + 1)' = sp /\ Roof(C, d + 1)' = r13
    <3>1. mem'[C[d + 1]].pad = EntryPad(base)
      BY <1>9, <1>13
    <3>2. Floor(C, d + 1)' = sp
      BY <1>5, <1>8, <1>13 DEF Floor
    <3>3. Roof(C, d + 1)' = sp + FrameWords(fpca) + EntryPad(base)
      BY <1>13, <1>14, <3>1 DEF Roof
    <3> QED BY <1>5, <3>2, <3>3
  <2>4. r13' = Floor(C, Depth)' /\ C[0] = Region
    BY <1>7, <1>13, <1>14, <2>0, <2>3
  <2>5. \A i \in 1..(d + 1) : Roof(C, i)' = Floor(C, i - 1)'
    <3> TAKE i \in 1..(d + 1)
    <3>1. (i \in 1..d /\ i - 1 \in 0..d) \/ (i = d + 1 /\ i - 1 = d /\ d \in 0..d)
      OBVIOUS
    <3> QED BY <2>0, <2>1, <2>2, <2>3, <3>1
  <2>6. \A i \in 0..(d + 1), j \in 1..(d + 1) : i < j => Roof(C, j)' <= Floor(C, i)'
    <3> SUFFICES ASSUME NEW i \in 0..(d + 1), NEW j \in 1..(d + 1), i < j
                 PROVE  Roof(C, j)' <= Floor(C, i)'
      OBVIOUS
    <3>1. i \in 0..d /\ (j \in 1..d \/ j = d + 1)
      OBVIOUS
    <3>2. r13 <= Floor(B, i)
      BY <1>2, <1>3, <3>1, Levels
    <3> QED BY <2>0, <2>1, <2>2, <2>3, <3>1, <3>2
  <2>7. \A i \in 1..(d + 1) : mem'[C[i]] \in Frame(i - 1) /\ mem'[C[i] + 1] = mem'[C[i]]
    <3> TAKE i \in 1..(d + 1)
    <3>1. CASE i = d + 1
      <4>1. frame \in Frame(d)
        BY <1>4, <1>5 DEF Frame
      <4> HIDE DEF frame
      <4> QED BY <1>9, <1>13, <3>1, <4>1
    <3>2. CASE i \in 1..d
      <4>1. C[i] = B[i]
        BY <1>13, <2>2, <3>2
      <4>2. mem'[B[i]] = mem[B[i]] /\ mem'[B[i] + 1] = mem[B[i] + 1]
        BY <1>11, <3>2
      <4>3. mem[B[i]] \in Frame(i - 1) /\ mem[B[i] + 1] = mem[B[i]]
        BY <2>0, <3>2
      <4> QED BY <4>1, <4>2, <4>3
    <3> QED BY <3>1, <3>2
  <2>8. \A i \in 0..(d + 1) : \A j \in 1..Len(pushed'[i]) :
          pushed'[i][j] = C[i] - j /\ mem'[C[i] - j] = Word(i)
    <3> SUFFICES ASSUME NEW i \in 0..(d + 1), NEW j \in 1..Len(pushed[i])
                 PROVE  pushed[i][j] = C[i] - j /\ mem'[C[i] - j] = Word(i)
      BY <1>8
    <3>1. i \in 0..d
      BY <1>8
    <3>2. C[i] = B[i]
      BY <1>13, <3>1
    <3>3. pushed[i][j] = B[i] - j /\ mem[B[i] - j] = Word(i)
      BY <2>0, <3>1
    <3>4. mem'[B[i] - j] = mem[B[i] - j]
      BY <1>11, <3>1
    <3> QED BY <3>2, <3>3, <3>4
  <2>9. sp > 3 + (MaxDepth + 1 - (d + 1)) * (5 + MaxPush) /\ sp <= Region
    <3>1. /\ B[d] > 3 + (MaxDepth + 1 - d) * (5 + MaxPush) /\ r13 = B[d] - Len(pushed[d])
          /\ Len(pushed[d]) \in Nat /\ Len(pushed[d]) <= MaxPush /\ B[d] \in Int
      <4>1. pushed[d] \in Seq(Int) /\ Len(pushed[d]) <= MaxPush
        BY <1>2, <1>4 DEF BareOK
      <4> QED BY <1>4, <2>0, <4>1, SMTT(30) DEF Floor
    <3>2. (MaxDepth + 1 - d) * (5 + MaxPush) = (MaxDepth + 1 - (d + 1)) * (5 + MaxPush) + (5 + MaxPush)
          /\ (MaxDepth + 1 - (d + 1)) * (5 + MaxPush) \in Int
      <4> DEFINE n == MaxDepth + 1 - (d + 1)
      <4> DEFINE k == 5 + MaxPush
      <4>1. n \in Int /\ k \in Int /\ MaxDepth + 1 - d = n + 1
        BY <1>4
      <4> HIDE DEF n, k
      <4>2. (n + 1) * k = n * k + k /\ n * k \in Int
        BY <4>1
      <4> QED BY <4>1, <4>2 DEF n, k
    <3> DEFINE x == (MaxDepth + 1 - (d + 1)) * (5 + MaxPush)
    <3> DEFINE y == (MaxDepth + 1 - d) * (5 + MaxPush)
    <3>3. y = x + 5 + MaxPush /\ x \in Int /\ B[d] > 3 + y
      BY <1>4, <3>1, <3>2
    <3> HIDE DEF x, y
    <3>4. /\ r13 \in Int /\ sp \in Int /\ r13 <= Region /\ MaxPush \in Int /\ Region \in Int
          /\ sp >= r13 - 5 /\ sp + 2 <= r13
      BY <1>4, <1>5
    <3>5. r13 >= B[d] - MaxPush /\ r13 > 3 + x + 5 /\ B[d] \in Int
      <4> DEFINE b == B[d]
      <4> DEFINE l == Len(pushed[d])
      <4>1. r13 = b - l /\ l \in Int /\ l <= MaxPush /\ b \in Int
        BY <3>1
      <4>2. b > 3 + y /\ y = x + 5 + MaxPush /\ x \in Int /\ y \in Int /\ MaxPush \in Int
        BY <3>3, <3>4
      <4> HIDE DEF b, l
      <4>3. r13 >= b - MaxPush /\ r13 > 3 + x + 5
        BY <3>4, <4>1, <4>2
      <4> QED BY <4>1, <4>3 DEF b
    <3>6. sp > 3 + x /\ sp <= Region
      BY <3>3, <3>4, <3>5
    <3> QED BY <3>6 DEF x
  <2>10. \A i \in 0..(d + 1) : C[i] > 3 + (MaxDepth + 1 - i) * (5 + MaxPush) /\ C[i] <= Region
    <3> TAKE i \in 0..(d + 1)
    <3>1. i \in 0..d \/ i = d + 1
      OBVIOUS
    <3> QED BY <1>13, <2>0, <2>9, <3>1
  <2> QED BY <1>14, <2>4, <2>5, <2>6, <2>7, <2>8, <2>10 DEF Layout
<1>20. FpSlots(C)'
  <2>1. ASSUME NEW a, NEW n \in 0..d, Slot(B, a, n)
        PROVE  \A m \in {n, n + 1} : \E k \in 1..m : excStack'[k].ext /\ a = C[k] + 2
    <3>1. PICK k \in 1..n : excStack[k].ext /\ a = B[k] + 2
      BY <2>1 DEF Slot
    <3>2. k \in 1..d /\ k \in 0..d /\ k \in 1..(n + 1)
      OBVIOUS
    <3> QED BY <1>13, <1>14, <3>1, <3>2
  <2>2. /\ lspact => Slot(B, fpcar, d)
        /\ \A i \in 1..d : fpStack[i].lspact => Slot(B, fpStack[i].fpcar, i - 1)
    BY <1>2, <1>3 DEF FpSlots
  <2>3. lspact' => \E k \in 1..(d + 1) : excStack'[k].ext /\ fpcar' = C[k] + 2
    <3>1. CASE fpca /\ Lazy
      <4>1. d + 1 \in 1..(d + 1)
        OBVIOUS
      <4>2. fpcar' = C[d + 1] + 2 /\ excStack'[d + 1].ext
        BY <1>6, <1>7, <1>13, <1>14, <3>1
      <4> QED BY <4>1, <4>2
    <3>2. CASE ~(fpca /\ Lazy)
      <4>1. (lspact' => lspact) /\ fpcar' = fpcar
        BY <1>7, <3>2
      <4> QED BY <1>4, <2>1, <2>2, <4>1
    <3> QED BY <3>1, <3>2
  <2>4. \A i \in 1..(d + 1) : fpStack'[i].lspact =>
          \E k \in 1..(i - 1) : excStack'[k].ext /\ fpStack'[i].fpcar = C[k] + 2
    <3> TAKE i \in 1..(d + 1)
    <3>1. CASE i = d + 1
      <4>1. i - 1 = d /\ fpStack'[i].lspact = lspact /\ fpStack'[i].fpcar = fpcar
        BY <1>16, <3>1
      <4> QED BY <1>4, <2>1, <2>2, <4>1
    <3>2. CASE i \in 1..d
      <4>1. i - 1 \in 0..d /\ fpStack'[i] = fpStack[i]
        BY <1>16, <3>2
      <4> QED BY <2>1, <2>2, <3>2, <4>1
    <3> QED BY <3>1, <3>2
  <2> QED BY <1>14, <2>3, <2>4 DEF FpSlots, Slot
<1>21. Eager => FpKept(C)'
  <2> SUFFICES ASSUME Eager PROVE FpKept(C)'
    OBVIOUS
  <2>1. /\ ~lspact /\ \A i \in 1..d : ~fpStack[i].lspact
        /\ d \in live => sfile = d
        /\ \A c \in 0..d : c \in live => fpca
        /\ \A i \in 1..d :
              /\ mem[B[i]].pad = 0
              /\ i - 1 \in live =>
                   /\ excStack[i].ext
                   /\ mem[B[i] + 2] = FpPartOf(i - 1) /\ mem[B[i] + 3] = FpPartOf(i - 1)
    BY <1>1, <1>3, <1>4 DEF StackInv, FpKept
  <2>2. ~lspact' /\ d + 1 \notin live' /\ EntryPad(base) = 0 /\ ~Lazy
    BY <1>5, <1>7, <2>1 DEF Eager
  <2>3. \A i \in 1..(d + 1) : ~fpStack'[i].lspact
    <3> TAKE i \in 1..(d + 1)
    <3>1. i \in 1..d \/ i = d + 1
      OBVIOUS
    <3> QED BY <1>16, <2>1, <3>1
  <2>4. \A c \in 0..(d + 1) : c \in live' => fpca'
    <3> TAKE c \in 0..(d + 1)
    <3>1. c \in 0..d \/ c = d + 1
      OBVIOUS
    <3> QED BY <1>7, <2>1, <2>2, <3>1
  <2>5. \A i \in 1..(d + 1) :
              /\ mem'[C[i]].pad = 0
              /\ i - 1 \in live' =>
                   /\ excStack'[i].ext
                   /\ mem'[C[i] + 2] = FpPartOf(i - 1) /\ mem'[C[i] + 3] = FpPartOf(i - 1)
    <3> TAKE i \in 1..(d + 1)
    <3>1. CASE i = d + 1
      <4>1. mem'[C[i]].pad = 0
        BY <1>9, <1>13, <2>2, <3>1
      <4>2. ASSUME d \in live' PROVE fpca /\ sfile = d
        BY <1>4, <1>7, <2>1, <4>2
      <4>3. i - 1 = d
        BY <3>1
      <4>4. ASSUME d \in live'
            PROVE  /\ excStack'[d + 1].ext
                   /\ mem'[C[d + 1] + 2] = FpPartOf(d) /\ mem'[C[d + 1] + 3] = FpPartOf(d)
        <5> HIDE DEF frame
        <5> QED BY <1>9, <1>13, <1>14, <2>2, <4>2, <4>4
      <4> QED BY <3>1, <4>1, <4>3, <4>4
    <3>2. CASE i \in 1..d
      <4>1. i - 1 \in live' => i - 1 \in live
        BY <1>7
      <4>2. i \in 0..d /\ C[i] = B[i] /\ excStack'[i] = excStack[i] /\ mem'[C[i]].pad = 0
        BY <1>11, <1>13, <1>14, <2>1, <3>2, SMTT(30)
      <4>3. ASSUME i - 1 \in live
            PROVE  mem'[B[i] + 2] = mem[B[i] + 2] /\ mem'[B[i] + 3] = mem[B[i] + 3]
        <5>1. excStack[i].ext
          BY <2>1, <3>2, <4>3
        <5>2. B[i] \in Int /\ r13 <= B[i]
          <6>1. B[i] \in Int /\ Floor(B, i) \in Int /\ r13 <= Floor(B, i) /\ Floor(B, i) <= B[i]
            BY <1>2, <1>3, <4>2, Levels
          <6> QED BY <1>4, <6>1
        <5>3. B[i] + 2 \in Addr /\ B[i] + 3 \in Addr
          <6>1. B[i] + 2 \in {B[i] + 2, B[i] + 3} /\ B[i] + 3 \in {B[i] + 2, B[i] + 3}
            OBVIOUS
          <6> QED BY <1>2, <1>3, <3>2, <5>1, <6>1, SlotSpare
        <5>4. B[i] + 2 >= r13 /\ B[i] + 3 >= r13
          BY <1>4, <5>2
        <5> QED BY <1>9, <5>3, <5>4
      <4> QED BY <2>1, <3>2, <4>1, <4>2, <4>3
    <3> QED BY <3>1, <3>2
  <2>6. ctx' = d + 1 /\ Depth' = d + 1
    BY <1>7, <1>14
  <2> QED BY <1>14, <2>2, <2>3, <2>4, <2>5, <2>6 DEF FpKept
<1> QED
  BY <1>17, <1>18, <1>19, <1>20, <1>21 DEF ContextInv, StackInv, Eager

\* A return that faults changes nothing.
LEMMA FaultStep ==
    ASSUME ContextAssumption, Bare, ContextInv,
           UNCHANGED <<mem, spVars, lr, ctx, fpVars, itVars, excStack, history>>
    PROVE  ContextInv'
<1>1. PICK B \in [0..MaxDepth -> Int] : StackInv(B)
  BY DEF ContextInv
<1>2. BareOK /\ ItInv /\ Layout(B) /\ FpSlots(B) /\ Depth' = Depth
  BY <1>1 DEF ContextInv, StackInv, Depth
<1>3. Layout(B)'
  BY <1>2, LayoutKept, SameIsCareful DEF spVars, history
<1>4. BareOK' /\ ItInv'
  BY <1>2 DEF BareOK, ItInv, spVars, fpVars, itVars, history, Handler
<1>5. FpSlots(B)'
  BY <1>2 DEF FpSlots, Slot, fpVars
<1>6. Eager => FpKept(B)'
  BY <1>1, <1>2 DEF FpKept, StackInv, fpVars, history
<1> QED
  BY <1>3, <1>4, <1>5, <1>6 DEF ContextInv, StackInv, Eager

\* At reset nothing is stacked.
LEMMA ResetContext ==
    ASSUME ContextAssumption, Bare, Init
    PROVE  ContextInv
<1>1. /\ MaxDepth \in Nat /\ MaxPush \in Nat /\ Region \in Nat /\ Context = 0..MaxDepth
      /\ Addr = 1..Region /\ StackTop(Main) = Region
      /\ Region > 3 + (MaxDepth + 1) * (5 + MaxPush)
  BY BareConstants
<1>2. /\ r13 = Region /\ msp = Region /\ spsel = FALSE /\ lr = LinkTo(FALSE, FALSE, FALSE)
      /\ ctx = 0 /\ fpca = FALSE /\ lspact = FALSE /\ fpcar = 0 /\ it = None
      /\ excStack = <<>> /\ itStack = <<>> /\ fpStack = <<>> /\ Depth = 0
      /\ current = Main /\ live = {} /\ pushed = [c \in Context |-> <<>>]
  BY <1>1 DEF Init, Main, Depth
<1>3. mem = [a \in Addr |-> mem[a]]
  BY DEF Init
<1>4. BareOK
  <2>1. lr \in MspLink
    BY <1>2 DEF LinkTo, MspLink, ExcReturn
  <2>2. /\ pushed \in [Context -> Seq(Int)]
        /\ \A c \in Context : Len(pushed[c]) <= MaxPush /\ (c > Depth => pushed[c] = <<>>)
    BY <1>1, <1>2
  <2>3. /\ excStack \in Seq(Entry) /\ Depth <= MaxDepth /\ ctx = Depth
        /\ itStack \in Seq(Int) /\ Len(itStack) = Depth
        /\ fpStack \in Seq(Links) /\ Len(fpStack) = Depth
        /\ \A i \in 1..Depth : ~excStack[i].psp
    BY <1>1, <1>2
  <2>4. lspact \in BOOLEAN /\ fpca \in BOOLEAN /\ fpcar \in Int /\ it \in Int
    <3>1. lspact \in BOOLEAN /\ fpca \in BOOLEAN
      BY <1>2
    <3>2. fpcar \in Int /\ it \in Int
      <4>1. fpcar = 0 /\ it = None
        BY <1>2
      <4> QED BY <4>1 DEF None
    <3> QED BY <3>1, <3>2
  <2> QED BY <1>2, <1>3, <2>1, <2>2, <2>3, <2>4 DEF BareOK
<1>5. ItInv
  BY <1>2 DEF ItInv
<1>6. PICK B \in [0..MaxDepth -> Int] : B = [i \in 0..MaxDepth |-> Region]
  <2>1. [i \in 0..MaxDepth |-> Region] \in [0..MaxDepth -> Int]
    BY <1>1
  <2> QED BY <2>1
<1>7. B[0] = Region /\ 0 \in Context /\ pushed[0] = <<>> /\ Len(pushed[0]) = 0
  BY <1>1, <1>2, <1>6
<1>8. Layout(B)
  <2>1. \A i \in 0..Depth : i = 0
    BY <1>2
  <2>2. \A i \in 1..Depth : FALSE
    BY <1>2
  <2>3. r13 = Floor(B, Depth)
    BY <1>1, <1>2, <1>7 DEF Floor
  <2>4. B[0] > 3 + (MaxDepth + 1 - 0) * (5 + MaxPush) /\ B[0] <= Region
    BY <1>1, <1>7
  <2>5. \A j \in 1..Len(pushed[0]) : FALSE
    BY <1>7
  <2> QED BY <1>7, <2>1, <2>2, <2>3, <2>4, <2>5 DEF Layout
<1>9. FpSlots(B) /\ FpKept(B)
  <2>1. \A i \in 1..Depth : FALSE
    BY <1>2
  <2> QED BY <1>2, <2>1 DEF FpSlots, FpKept
<1> QED
  BY <1>4, <1>5, <1>8, <1>9 DEF ContextInv, StackInv

\* Whatever firmware without tasks does, the frames stay where they were pushed.
LEMMA ContextIsKept ==
    ASSUME ContextAssumption, Bare, Lazy => StkAlign
    PROVE  Spec => []ContextInv
<1>1. Init => ContextInv
  BY ResetContext
<1>2. ContextInv /\ [Next]_vars => ContextInv'
  <2> SUFFICES ASSUME ContextInv, [Next]_vars PROVE ContextInv'
    OBVIOUS
  <2>1. CASE TakeException
    BY <2>1, EntryStep
  <2>2. CASE ReturnFaults
    BY <2>2, FaultStep DEF ReturnFaults
  <2>3. CASE TailChain
    BY <2>3, ChainStep
  <2>4. CASE ExceptionReturn
    BY <2>4, ReturnStep
  <2>5. CASE FpuInsn
    BY <2>5, FpuStep
  <2>6. CASE MsrControl
    BY <2>6, ControlStep
  <2>7. CASE Push
    BY <2>7, PushStep
  <2>8. CASE PopWord
    BY <2>8, PopStep
  <2>9. CASE ItBlock
    BY <2>9, ItStep
  <2>10. CASE SaveTask
    <3>1. ~lr.psp
      BY DEF ContextInv, BareOK, MspLink
    <3> QED BY <2>10, <3>1 DEF SaveTask
  <2>11. CASE \E t \in Task : StartFirst(t) \/ LoadTask(t)
    BY <2>11, BareConstants
  <2>12. CASE UNCHANGED vars
    BY <2>12, FaultStep DEF vars
  <2> QED
    BY <2>1, <2>2, <2>3, <2>4, <2>5, <2>6, <2>7, <2>8, <2>9, <2>10, <2>11, <2>12 DEF Next
<1> QED
  BY <1>1, <1>2, PTL DEF Spec

\* Without tasks, the context that runs is the one that has to run, on the main
\* stack and at the words it pushed, whatever was nested, tail-chained and returned
\* from (take_exception, exception_return).  FPCAR drops the low bits of an address,
\* so lazy stacking presupposes the aligned frames of STKALIGN.
THEOREM ContextKept ==
    ASSUME ContextAssumption, Bare, Lazy => StkAlign
    PROVE  Spec => [](ContextRestored /\ StackIntact /\ StackBalanced /\ HandlerOnMsp /\ ItOwned)
<1>1. ContextInv => ContextRestored /\ StackIntact /\ StackBalanced /\ HandlerOnMsp /\ ItOwned
  <2> SUFFICES ASSUME ContextInv
               PROVE  ContextRestored /\ StackIntact /\ StackBalanced /\ HandlerOnMsp /\ ItOwned
    OBVIOUS
  <2>1. PICK B \in [0..MaxDepth -> Int] : StackInv(B)
    BY DEF ContextInv
  <2>2. BareOK /\ ItInv /\ Layout(B) /\ Depth \in Nat /\ Depth <= MaxDepth
    BY <2>1, Levels DEF ContextInv, StackInv
  <2>3. /\ Context = 0..MaxDepth /\ Task = {} /\ Thread = {0} /\ StackTop(Main) = Region /\ Main = 0
        /\ Region \in Nat /\ r13 \in Int /\ r13 > 6 /\ r13 <= Region
    BY <2>2, BareConstants, Levels DEF Main
  <2>4. ContextRestored
    BY <2>2, <2>3 DEF ContextRestored, BareOK, Handler
  <2>5. StackIntact
    <3>1. ASSUME NEW c \in Context, NEW i \in 1..Len(pushed[c])
          PROVE  mem[pushed[c][i]] = Word(c)
      <4>1. c \in 0..Depth
        <5>1. CASE c > Depth
          <6>1. pushed[c] = <<>>
            BY <2>2, <5>1 DEF BareOK
          <6> QED BY <6>1
        <5> QED BY <2>2, <2>3, <5>1
      <4> QED BY <2>2, <4>1 DEF Layout
    <3> QED BY <2>3, <3>1 DEF StackIntact, Word
  <2>6. StackBalanced
    <3>1. ASSUME ~Handler PROVE r13 = Region - Len(pushed[0]) /\ msp = r13 /\ spsel = FALSE
      <4>1. Depth = 0
        BY <2>2, <3>1 DEF Handler
      <4> QED BY <2>2, <3>1, <4>1 DEF Layout, Floor, BareOK
    <3>2. spsel = (0 \in Task)
      <4>1. spsel = FALSE
        BY <2>2 DEF BareOK
      <4>2. (0 \in Task) = FALSE
        BY <2>3
      <4> QED BY <4>1, <4>2
    <3> QED BY <2>3, <3>1, <3>2 DEF StackBalanced
  <2>7. HandlerOnMsp
    BY <2>3 DEF HandlerOnMsp, MainStack
  <2>8. ItOwned
    BY <2>2 DEF ItInv, ItOwned
  <2> QED BY <2>4, <2>5, <2>6, <2>7, <2>8
<1> QED
  BY <1>1, ContextIsKept, PTL

\* In particular no word that a context pushed is written by another before it is
\* popped: the frames and the handlers' own words never overlap.
COROLLARY PushedWordsKept ==
    ASSUME ContextAssumption, Bare, Lazy => StkAlign
    PROVE  Spec => []StackIntact
BY ContextKept, PTL

\* With eager stacking, a context that needs the values it had in S0-S15 finds them
\* there, and the IT block it had opened (the extended frame, it_stack).  With lazy
\* stacking it may not: FPCCR.LSPACT is then lost, and with padding the values are
\* read one word above where they were stored.
THEOREM StateKept ==
    ASSUME ContextAssumption, Bare, ~Lazy, ~StkAlign
    PROVE  Spec => []StateOwned
<1>1. Lazy => StkAlign
  OBVIOUS
<1>2. ContextInv => StateOwned
  BY DEF ContextInv, StackInv, FpKept, ItInv, Eager, StateOwned, ItOwned, SFileOwned
<1> QED
  BY <1>1, <1>2, ContextIsKept, PTL
=============================================================================
