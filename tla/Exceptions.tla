----------------------------- MODULE Exceptions -----------------------------
(***************************************************************************)
(* The exception engine of the RA4M1 core: the NVIC pending/enable/active  *)
(* bitmaps (nvic.rs), the SCB registers that steer it (scb.rs, stir.rs),   *)
(* exception entry, tail-chaining and return (cpu/mod.rs), the sleep       *)
(* hints (cpu/thumb.rs) and the interpreter loop that interleaves them     *)
(* with the guest program and with the host driver.                        *)
(*                                                                         *)
(* One iteration of Cpu::run is two steps here: at = "fetch" (deferred     *)
(* faults, then one guest instruction) and at = "deliver" (the inline      *)
(* interrupt delivery that closes the iteration).  The host driver acts    *)
(* between calls of run, that is whenever at = "fetch".                    *)
(*                                                                         *)
(* What the stacked frames hold besides the link register, and on which    *)
(* stack they lie, is the subject of module ExcContext.                    *)
(***************************************************************************)
EXTENDS Integers, Sequences, FiniteSets

CONSTANTS
    ExtIRQ,      \* the external interrupt lines in scope
    PrioWrites,  \* the <<exception, byte>> pairs firmware programs in IPR/SHPR
    BasePri,     \* the bytes firmware writes to BASEPRI
    PriGroup,    \* the values firmware writes to AIRCR.PRIGROUP
    FlagWrites,  \* the SCR/CCR/SHCSR bits firmware toggles
    GuestOps,    \* which kinds of instruction the firmware executes
    DriverOps,   \* which calls the host driver makes
    MaxFrames    \* bound on stacked frames (reached only by forged returns)

NMI == -14    HardFault == -13   MemManage == -12   BusFault == -11
UsageFault == -10   SVCall == -5   PendSV == -2   SysTick == -1

SysExc == {NMI, HardFault, MemManage, BusFault, UsageFault, SVCall, PendSV, SysTick}
Exc    == SysExc \cup ExtIRQ
Byte   == 0..255

Flags == {"SLEEPONEXIT", "SEVONPEND", "NONBASETHRDENA", "USERSETMPEND",
          "MEMFAULTENA", "BUSFAULTENA", "USGFAULTENA"}

ASSUME ExtIRQAssumption == ExtIRQ \subseteq 0..96
ASSUME WritesAssumption ==
    /\ PrioWrites \subseteq (Exc \ {NMI, HardFault}) \X Byte
    /\ BasePri \subseteq Byte
    /\ PriGroup \subseteq 0..7
    /\ FlagWrites \subseteq Flags
    /\ MaxFrames \in Nat

VARIABLES
    pending,       \* Nvic.pending: the bitmap select_pending scans
    pendingReg,    \* Nvic.pending_reg: the copy ISPR/ICPR show (external lines)
    enabled,       \* Nvic.enable
    active,        \* the exceptions whose IABR or SHCSR active bit is set
    inInterrupt,   \* Nvic.in_interrupt
    prio,          \* IPR and SHPR bytes; the fixed -2 and -1 of NMI and HardFault
    prigroup,      \* AIRCR.PRIGROUP
    flags,         \* the bits of Flags that are set
    cfsr,          \* the CFSR bit numbers latched
    primask, faultmask, basepri,
    npriv, fpca,   \* CONTROL bits 0 and 2
    privileged,    \* the privilege published to the memory model
    excStack,      \* Cpu.exc_stack, innermost last
    frames,        \* the link register each stacked frame holds
    lr,            \* r14, when it is an EXC_RETURN value
    ipsr,
    sleeping, eventRegister, fault, deliverIrqs,
    deferred,      \* the fault channels a data access filled
    entered,       \* a handler was entered and has executed nothing yet
    at             \* where the iteration of Cpu::run stands

pendVars == <<pending, pendingReg>>
maskVars == <<primask, faultmask, basepri>>
cfgVars  == <<enabled, prio, prigroup, flags, npriv, fpca, deliverIrqs>>
excVars  == <<excStack, frames, lr, ipsr, active, inInterrupt, privileged>>
vars == <<pendVars, maskVars, cfgVars, excVars, cfsr, sleeping, eventRegister,
          fault, deferred, entered, at>>

ExcReturn == [handler : BOOLEAN, ext : BOOLEAN]
Channels  == {"mpu", "align", "bus"}

Entry     == [irq : Exc, fpExt : BOOLEAN]
Vectors   == {0} \cup {16 + e : e \in Exc}

\* What entry and return move, the pending and mask state they touch, ...
EngineTypeOK ==
    /\ pending \subseteq Exc /\ pendingReg \subseteq ExtIRQ
    /\ primask \in BOOLEAN /\ faultmask \in BOOLEAN /\ basepri \in Byte
    /\ excStack \in Seq(Entry) /\ frames \in Seq(ExcReturn) /\ lr \in ExcReturn
    /\ ipsr \in Vectors /\ active \subseteq Exc
    /\ inInterrupt \in BOOLEAN /\ privileged \in BOOLEAN
    /\ eventRegister \in BOOLEAN /\ fault \in BOOLEAN /\ entered \in BOOLEAN

\* ... the configuration, and the state of the run loop.
ConfigTypeOK ==
    /\ enabled \subseteq ExtIRQ
    /\ prio \in [Exc -> -2..255] /\ prigroup \in 0..7
    /\ flags \subseteq Flags
    /\ npriv \in BOOLEAN /\ fpca \in BOOLEAN /\ deliverIrqs \in BOOLEAN

LoopTypeOK ==
    /\ cfsr \subseteq 0..31 /\ deferred \subseteq Channels
    /\ sleeping \in BOOLEAN /\ at \in {"fetch", "deliver"}

TypeOK == EngineTypeOK /\ ConfigTypeOK /\ LoopTypeOK

-----------------------------------------------------------------------------
(* Priorities, masks and the choice of the next exception *)

Top(s) == s[Len(s)]
Pop(s) == SubSeq(s, 1, Len(s) - 1)

\* The number of subpriority values for each PRIGROUP.
SubSize == <<2, 4, 8, 16, 32, 64, 128, 256>>

Group(e) == IF prio[e] < 0 THEN prio[e] ELSE prio[e] \div SubSize[prigroup + 1]
Sub(e)   == IF prio[e] < 0 THEN 0 ELSE prio[e] % SubSize[prigroup + 1]

\* 256: thread mode, below every programmable priority.
ExecutionPriority(stk) == IF stk = <<>> THEN 256 ELSE Group(Top(stk).irq)

Masked(e) ==
    /\ e # NMI
    /\ \/ faultmask
       \/ /\ Group(e) >= 0
          /\ \/ primask
             \/ basepri # 0 /\ Group(e) >= basepri \div SubSize[prigroup + 1]

Enabled(e) == e \in SysExc \cup enabled

MoreUrgent(a, b) ==
    \/ Group(a) < Group(b)
    \/ Group(a) = Group(b) /\ Sub(a) < Sub(b)
    \/ Group(a) = Group(b) /\ Sub(a) = Sub(b) /\ a < b

\* Mutant: an exception preempts its equals.
DeliverableToEquals(stk) ==
    {e \in pending : Enabled(e) /\ ~Masked(e) /\ Group(e) <= ExecutionPriority(stk)}

Deliverable(stk) ==
    {e \in pending : Enabled(e) /\ ~Masked(e) /\ Group(e) < ExecutionPriority(stk)}

\* Mutant: the lowest number wins, whatever its priority.
SelectedByNumber(e, stk) ==
    e \in Deliverable(stk) /\ \A d \in Deliverable(stk) : e <= d

\* e is what select_pending answers when stk is the exception stack.
Selected(e, stk) ==
    /\ e \in Deliverable(stk)
    /\ \A d \in Deliverable(stk) \ {e} : MoreUrgent(e, d)

-----------------------------------------------------------------------------
(* Entry and synchronous raises.  exception_return raises after it has     *)
(* already popped state, so these take the core state they start from: a   *)
(* record of what excVars held at that moment.                             *)

Core == [stack |-> excStack, frames |-> frames, lr |-> lr, ipsr |-> ipsr,
         active |-> active, inInt |-> inInterrupt, priv |-> privileged]

\* NMI and HardFault have no active bit in IABR or SHCSR.
ActiveBits == Exc \ {NMI, HardFault}

\* The number IPSR shows for an exception; mutant: without the offset.
VectorUnbiased(e) == e
Vector(e) == 16 + e

\* The EXC_RETURN value a fresh entry puts in r14: it names the mode it
\* interrupts and the frame it stacks.
EntryLink(core) == [handler |-> core.ipsr # 0, ext |-> fpca]

\* After a tail-chain: the mode the popped handler had interrupted, and its
\* frame; mutant: the mode of the popped handler.
ChainLinkStale(core, ext) == [handler |-> core.ipsr # 0, ext |-> ext]
ChainLink(core, ext)      == [handler |-> core.stack # <<>>, ext |-> ext]

\* What take_exception and enter_chained share.
Enter(e, core, ext) ==
    /\ pending' = pending \ {e}
    /\ pendingReg' = pendingReg \ {e}
    /\ active' = core.active \cup ({e} \cap ActiveBits)
    /\ excStack' = Append(core.stack, [irq |-> e, fpExt |-> ext])
    /\ ipsr' = Vector(e)
    /\ inInterrupt' = TRUE
    /\ privileged' = TRUE
    /\ eventRegister' = TRUE
    /\ entered' = TRUE

TakeException(e, core) ==
    /\ Enter(e, core, fpca)
    /\ frames' = Append(core.frames, core.lr)
    /\ lr' = EntryLink(core)
    /\ faultmask' = (faultmask /\ e = NMI)
    /\ UNCHANGED <<primask, basepri, fault>>

EnterChained(e, core, ext) ==
    /\ Enter(e, core, ext)
    /\ lr' = ChainLink(core, ext)
    /\ frames' = core.frames
    /\ UNCHANGED <<maskVars, fault>>

Halt(core) ==
    /\ fault' = TRUE
    /\ excStack' = core.stack /\ frames' = core.frames /\ lr' = core.lr
    /\ ipsr' = core.ipsr /\ active' = core.active
    /\ inInterrupt' = core.inInt /\ privileged' = core.priv
    /\ UNCHANGED <<pendVars, maskVars, eventRegister, entered>>

\* Mutant: a synchronous raise looks at priorities only.
BlockedByPriority(e, core) == Group(e) >= ExecutionPriority(core.stack)
Blocked(e, core) == Masked(e) \/ Group(e) >= ExecutionPriority(core.stack)

\* A blocked synchronous exception escalates; a blocked HardFault locks up.
RaiseSync(e, core) ==
    \/ /\ deliverIrqs /\ ~Blocked(e, core)
       /\ TakeException(e, core)
    \/ /\ deliverIrqs /\ Blocked(e, core)
       /\ e \notin {HardFault, NMI} /\ ~Blocked(HardFault, core)
       /\ TakeException(HardFault, core)
    \/ /\ \/ ~deliverIrqs
          \/ /\ Blocked(e, core)
             /\ e \in {HardFault, NMI} \/ Blocked(HardFault, core)
       /\ Halt(core)

FaultTarget(e, enable) == IF enable \in flags THEN e ELSE HardFault
UsageTarget == FaultTarget(UsageFault, "USGFAULTENA")

-----------------------------------------------------------------------------
(* Exception return *)

Fetching == at = "fetch" /\ ~fault /\ ~sleeping /\ deferred = {}

\* After an instruction that may halt the core: a halt leaves Cpu::run before
\* the delivery that closes the iteration.
EndInstruction == at' = IF fault' THEN "fetch" ELSE "deliver"

\* The core once the returning entry is popped, ...
Popped ==
    [stack |-> Pop(excStack), active |-> active \ {Top(excStack).irq},
     frames |-> frames, lr |-> lr, ipsr |-> ipsr, inInt |-> inInterrupt, priv |-> privileged]

\* ... and once its frame is unstacked too.
Unstacked ==
    [stack |-> Popped.stack, active |-> Popped.active, frames |-> Pop(frames), lr |-> Top(frames),
     ipsr |-> ipsr, inInt |-> inInterrupt, priv |-> privileged]

\* Mutants: an abandoned return puts the active bit back, or the entry.
AbandonedActive(core) ==
    [stack |-> core.stack, active |-> active, frames |-> core.frames, lr |-> core.lr,
     ipsr |-> 0, inInt |-> FALSE, priv |-> ~npriv]
AbandonedUnpopped(core) ==
    [stack |-> excStack, active |-> core.active, frames |-> core.frames, lr |-> core.lr,
     ipsr |-> 0, inInt |-> FALSE, priv |-> ~npriv]

\* The return is given up: back in thread mode, whatever was popped.
Abandoned(core) ==
    [stack |-> core.stack, active |-> core.active, frames |-> core.frames, lr |-> core.lr,
     ipsr |-> 0, inInt |-> FALSE, priv |-> ~npriv]

InvpcBit == 10

RaiseInvpc(core) ==
    /\ cfsr' = cfsr \cup {InvpcBit}
    /\ RaiseSync(UsageTarget, core)
    /\ UNCHANGED sleeping

\* What a return to handler or thread mode sets IPSR to; mutant: a nested handler
\* goes on under the IPSR of the one that preempted it.
RestoredIpsrStale(v) == IF v.handler THEN ipsr ELSE 0
RestoredIpsr(v)      == IF v.handler THEN Vector(Top(Unstacked.stack).irq) ELSE 0

\* Mutant: unprivileged thread code keeps the privilege of the handler.
RestoredPrivilegeKept(v) == v.handler \in BOOLEAN
RestoredPrivilege(v)     == v.handler \/ ~npriv

Unstack(v) ==
    /\ excStack' = Unstacked.stack /\ frames' = Unstacked.frames /\ lr' = Unstacked.lr
    /\ active' = Unstacked.active
    /\ ipsr' = RestoredIpsr(v)
    /\ inInterrupt' = v.handler
    /\ privileged' = RestoredPrivilege(v)
    /\ sleeping' = (~v.handler /\ deliverIrqs /\ "SLEEPONEXIT" \in flags)
    /\ eventRegister' = TRUE
    /\ entered' = FALSE
    /\ UNCHANGED <<pendVars, maskVars, fault, cfsr>>

ExceptionReturn(v) ==
    LET ext     == Top(excStack).fpExt
        bad     == IF excStack = <<>> THEN TRUE ELSE v.ext # ext
        chains  == deliverIrqs /\ fpca = ext /\ Deliverable(Popped.stack) # {}
        forged  == ~v.handler /\ Popped.stack # <<>>
        boosted == /\ ~v.handler /\ "NONBASETHRDENA" \in flags
                   /\ primask \/ faultmask \/ basepri # 0
        orphan  == v.handler /\ Popped.stack = <<>>
    IN
    /\ Fetching
    /\ Len(frames) < MaxFrames
    /\ \/ bad /\ RaiseInvpc(Core)
       \/ /\ ~bad /\ chains
          /\ \E e \in pending : Selected(e, Popped.stack) /\ EnterChained(e, Popped, ext)
          /\ UNCHANGED <<cfsr, sleeping>>
       \/ ~bad /\ ~chains /\ (forged \/ boosted) /\ RaiseInvpc(Abandoned(Popped))
       \/ ~bad /\ ~chains /\ orphan /\ RaiseInvpc(Abandoned(Unstacked))
       \/ ~bad /\ ~chains /\ ~forged /\ ~boosted /\ ~orphan /\ Unstack(v)
    /\ EndInstruction
    /\ UNCHANGED <<cfgVars, deferred>>

\* A handler branches to the EXC_RETURN value its entry put in r14 ...
HandlerReturns == ipsr # 0 /\ ExceptionReturn(lr)
\* ... or firmware branches to some other one, from handler or thread mode ...
ForgedReturn == "forge" \in GuestOps /\ \E v \in ExcReturn : ExceptionReturn(v)
\* ... or to one that is not supported, which halts, as an unknown opcode does.
Undefined ==
    /\ "halt" \in GuestOps /\ Fetching
    /\ fault' = TRUE
    /\ UNCHANGED <<pendVars, maskVars, cfgVars, excVars, cfsr, sleeping,
                   eventRegister, deferred, entered, at>>

-----------------------------------------------------------------------------
(* Synchronous exceptions *)

Svc ==
    /\ "svc" \in GuestOps /\ Fetching
    /\ RaiseSync(SVCall, Core)
    /\ EndInstruction
    /\ UNCHANGED <<cfgVars, cfsr, sleeping, deferred>>

\* FPU use without access (NOCP, 19) or a trapped division by zero (25).
UsageTrap ==
    /\ "usage" \in GuestOps /\ Fetching
    /\ \E bit \in {19, 25} : cfsr' = cfsr \cup {bit}
    /\ RaiseSync(UsageTarget, Core)
    /\ EndInstruction
    /\ UNCHANGED <<cfgVars, sleeping, deferred>>

\* A load or store that fails completes as if it had not, and leaves its fault
\* in one or more deferred channels.
DataAbort ==
    /\ "abort" \in GuestOps /\ Fetching
    /\ deferred' \in SUBSET Channels \ {{}}
    /\ at' = "deliver" /\ entered' = FALSE
    /\ UNCHANGED <<pendVars, maskVars, cfgVars, excVars, cfsr, sleeping, eventRegister, fault>>

\* The next iteration raises one deferred fault instead of fetching.
RaiseDeferred ==
    /\ at = "fetch" /\ ~fault /\ ~sleeping
    /\ \/ /\ "mpu" \in deferred
          /\ deferred' = deferred \ {"mpu"}
          /\ cfsr' = cfsr \cup {1, 7}
          /\ RaiseSync(FaultTarget(MemManage, "MEMFAULTENA"), Core)
       \/ /\ "mpu" \notin deferred /\ "align" \in deferred
          /\ deferred' = deferred \ {"align"}
          /\ cfsr' = cfsr \cup {24}
          /\ RaiseSync(UsageTarget, Core)
       \/ /\ deferred = {"bus"}
          /\ deferred' = {}
          /\ cfsr' = cfsr \cup {9, 15}
          /\ RaiseSync(FaultTarget(BusFault, "BUSFAULTENA"), Core)
    /\ UNCHANGED <<cfgVars, sleeping, at>>

\* A fetch from unmapped or execute-never memory is raised before executing.
FetchFault ==
    /\ "fetchfault" \in GuestOps /\ Fetching
    /\ \/ /\ cfsr' = cfsr \cup {8, 15}
          /\ RaiseSync(FaultTarget(BusFault, "BUSFAULTENA"), Core)
       \/ /\ cfsr' = cfsr \cup {0, 7}
          /\ RaiseSync(FaultTarget(MemManage, "MEMFAULTENA"), Core)
    /\ UNCHANGED <<cfgVars, sleeping, deferred, at>>

-----------------------------------------------------------------------------
(* The other guest instructions: each completes and reaches the delivery    *)

Executes(op) ==
    /\ op \in GuestOps /\ Fetching
    /\ at' = "deliver" /\ entered' = FALSE
    /\ UNCHANGED <<fault, deferred, cfsr>>

Nop == Executes("nop") /\ UNCHANGED <<pendVars, maskVars, cfgVars, excVars, sleeping, eventRegister>>

WriteIser(S) ==
    /\ Executes("iser")
    /\ enabled' = enabled \cup S
    /\ pending' = pending \cup (pendingReg \cap (S \ enabled))
    /\ UNCHANGED <<pendingReg, maskVars, prio, prigroup, flags, npriv, fpca,
                   deliverIrqs, excVars, sleeping, eventRegister>>

\* Mutant: disabling a line forgets its request.
WriteIcerClears(S) ==
    /\ Executes("iser")
    /\ enabled' = enabled \ S /\ pending' = pending \ S
    /\ UNCHANGED <<pendingReg, maskVars, prio, prigroup, flags, npriv, fpca,
                   deliverIrqs, excVars, sleeping, eventRegister>>

WriteIcer(S) ==
    /\ Executes("iser")
    /\ enabled' = enabled \ S
    /\ UNCHANGED <<pendVars, maskVars, prio, prigroup, flags, npriv, fpca,
                   deliverIrqs, excVars, sleeping, eventRegister>>

WriteIspr(S) ==
    /\ Executes("ispr")
    /\ pendingReg' = pendingReg \cup S
    /\ pending' = pending \cup (S \ pendingReg)
    /\ UNCHANGED <<maskVars, cfgVars, excVars, sleeping, eventRegister>>

WriteIcpr(S) ==
    /\ Executes("ispr")
    /\ pendingReg' = pendingReg \ S
    /\ pending' = pending \ (pendingReg \cap S)
    /\ UNCHANGED <<maskVars, cfgVars, excVars, sleeping, eventRegister>>

MayPendSoftware == privileged \/ "USERSETMPEND" \in flags

\* One ICSR write sets S and clears C; a clear in the same write wins.
WriteIcsr(S, C) ==
    /\ Executes("icsr")
    /\ pending' = (pending \cup (IF MayPendSoftware THEN S ELSE {})) \ C
    /\ UNCHANGED <<pendingReg, maskVars, cfgVars, excVars, sleeping, eventRegister>>

\* Mutant: STIR pends in the scanned bitmap only.
WriteStirHalf(i) ==
    /\ Executes("stir")
    /\ pending' = IF MayPendSoftware THEN pending \cup {i} ELSE pending
    /\ UNCHANGED <<pendingReg, maskVars, cfgVars, excVars, sleeping, eventRegister>>

WriteStir(i) ==
    /\ Executes("stir")
    /\ IF MayPendSoftware
       THEN pending' = pending \cup {i} /\ pendingReg' = pendingReg \cup {i}
       ELSE UNCHANGED pendVars
    /\ UNCHANGED <<maskVars, cfgVars, excVars, sleeping, eventRegister>>

\* Firmware does not reprogram the priority of an exception while it is active.
WritePriority(e, byte) ==
    /\ Executes("prio")
    /\ \A i \in 1..Len(excStack) : excStack[i].irq # e
    /\ prio' = [prio EXCEPT ![e] = byte]
    /\ UNCHANGED <<pendVars, maskVars, enabled, prigroup, flags, npriv, fpca,
                   deliverIrqs, excVars, sleeping, eventRegister>>

WriteAircr(g) ==
    /\ Executes("prio")
    /\ excStack = <<>>
    /\ prigroup' = g
    /\ UNCHANGED <<pendVars, maskVars, enabled, prio, flags, npriv, fpca,
                   deliverIrqs, excVars, sleeping, eventRegister>>

\* SCR, CCR and SHCSR are plain stored registers.
WriteFlag(f) ==
    /\ Executes("flags")
    /\ flags' \in {flags \cup {f}, flags \ {f}}
    /\ UNCHANGED <<pendVars, maskVars, enabled, prio, prigroup, npriv, fpca,
                   deliverIrqs, excVars, sleeping, eventRegister>>

Cps ==
    /\ Executes("mask")
    /\ \/ primask' \in BOOLEAN /\ UNCHANGED faultmask
       \/ faultmask' \in BOOLEAN /\ UNCHANGED primask
    /\ UNCHANGED <<basepri, pendVars, cfgVars, excVars, sleeping, eventRegister>>

MsrBasepri(b) ==
    /\ Executes("basepri")
    /\ basepri' = b
    /\ UNCHANGED <<primask, faultmask, pendVars, cfgVars, excVars, sleeping, eventRegister>>

MsrBasepriMax(b) ==
    /\ Executes("basepri_max")
    /\ basepri' = IF b > basepri THEN b ELSE basepri
    /\ UNCHANGED <<primask, faultmask, pendVars, cfgVars, excVars, sleeping, eventRegister>>

\* The value is masked to bits 0 and 1, so FPCA is lost; unprivileged thread
\* code cannot change nPRIV.
MsrControl(np) ==
    /\ Executes("control")
    /\ npriv' = IF ipsr = 0 /\ npriv THEN npriv ELSE np
    /\ fpca' = FALSE
    /\ privileged' = (ipsr # 0 \/ ~npriv')
    /\ UNCHANGED <<pendVars, maskVars, enabled, prio, prigroup, flags, deliverIrqs, excStack,
                   frames, lr, ipsr, active, inInterrupt, sleeping, eventRegister>>

FpuInsn ==
    /\ Executes("fpu")
    /\ fpca' = TRUE
    /\ UNCHANGED <<pendVars, maskVars, enabled, prio, prigroup, flags, npriv,
                   deliverIrqs, excVars, sleeping, eventRegister>>

\* Mutant: the system exceptions, which are always enabled, do not count.
HasPendingLine == pending \cap enabled # {}
HasPending == \E e \in pending : Enabled(e)

Wfi ==
    /\ Executes("sleep")
    /\ sleeping' = (deliverIrqs /\ Deliverable(excStack) = {})
    /\ UNCHANGED <<pendVars, maskVars, cfgVars, excVars, eventRegister>>

Wfe ==
    /\ Executes("sleep")
    /\ sleeping' = /\ deliverIrqs /\ ~eventRegister
                   /\ ~("SEVONPEND" \in flags /\ HasPending)
                   /\ Deliverable(excStack) = {}
    /\ eventRegister' = (eventRegister /\ ~deliverIrqs)
    /\ UNCHANGED <<pendVars, maskVars, cfgVars, excVars>>

Sev ==
    /\ Executes("sleep")
    /\ eventRegister' = TRUE
    /\ UNCHANGED <<pendVars, maskVars, cfgVars, excVars, sleeping>>

-----------------------------------------------------------------------------
(* The end of an iteration, the peripherals and the host driver             *)

\* Inline delivery: the best pending exception, if one may preempt.
Deliver ==
    /\ at = "deliver" /\ at' = "fetch"
    /\ IF deliverIrqs /\ Deliverable(excStack) # {}
       THEN \E e \in pending : Selected(e, excStack) /\ TakeException(e, Core)
       ELSE UNCHANGED <<pendVars, maskVars, excVars, eventRegister, fault, entered>>
    /\ UNCHANGED <<cfgVars, cfsr, sleeping, deferred>>

\* Nvic.set_intr_pending, from a peripheral that ticks between two calls of run
\* or that an instruction of this iteration touched.
Raise(e) ==
    /\ pending' = pending \cup {e}
    /\ pendingReg' = pendingReg \cup ({e} \cap ExtIRQ)
    /\ UNCHANGED <<maskVars, cfgVars, excVars, cfsr, sleeping, eventRegister,
                   fault, deferred, entered, at>>

Wake ==
    /\ "wake" \in DriverOps /\ at = "fetch"
    /\ sleeping /\ HasPending
    /\ sleeping' = FALSE
    /\ UNCHANGED <<pendVars, maskVars, cfgVars, excVars, cfsr, eventRegister,
                   fault, deferred, entered, at>>

\* get_and_clear_next_intr_pending: a driver that runs the handlers itself takes
\* the lowest-numbered enabled exception, whatever the priorities.
TakeNext ==
    /\ "takenext" \in DriverOps /\ at = "fetch" /\ ~deliverIrqs
    /\ \E e \in pending :
         /\ Enabled(e) /\ \A d \in pending : Enabled(d) => e <= d
         /\ pending' = pending \ {e}
         /\ pendingReg' = pendingReg \ {e}
         /\ active' = active \cup ({e} \cap ExtIRQ)
    /\ UNCHANGED <<maskVars, cfgVars, excStack, frames, lr, ipsr, inInterrupt, privileged,
                   cfsr, sleeping, eventRegister, fault, deferred, entered, at>>

SetDeliverIrqs(b) ==
    /\ "deliver" \in DriverOps /\ at = "fetch"
    /\ deliverIrqs' = b
    /\ UNCHANGED <<pendVars, maskVars, enabled, prio, prigroup, flags, npriv, fpca, excVars,
                   cfsr, sleeping, eventRegister, fault, deferred, entered, at>>

\* Cpu::reset: the NVIC and the SCB keep their state.
ResetCpu ==
    /\ "reset" \in DriverOps /\ at = "fetch"
    /\ excStack' = <<>> /\ frames' = <<>> /\ lr' = [handler |-> FALSE, ext |-> FALSE]
    /\ ipsr' = 0 /\ privileged' = TRUE
    /\ primask' = FALSE /\ faultmask' = FALSE /\ basepri' = 0
    /\ npriv' = FALSE /\ fpca' = FALSE
    /\ sleeping' = FALSE /\ eventRegister' = FALSE /\ fault' = FALSE
    /\ deferred' = {} /\ entered' = FALSE
    /\ UNCHANGED <<pendVars, enabled, prio, prigroup, flags, deliverIrqs, active,
                   inInterrupt, cfsr, at>>

-----------------------------------------------------------------------------
Init ==
    /\ pending = {} /\ pendingReg = {} /\ enabled = {} /\ active = {}
    /\ inInterrupt = FALSE
    /\ prio = [e \in Exc |-> IF e = NMI THEN -2 ELSE IF e = HardFault THEN -1 ELSE 0]
    /\ prigroup = 0
    /\ flags = {} /\ cfsr = {}
    /\ primask = FALSE /\ faultmask = FALSE /\ basepri = 0
    /\ npriv = FALSE /\ fpca = FALSE /\ privileged = TRUE
    /\ excStack = <<>> /\ frames = <<>> /\ lr = [handler |-> FALSE, ext |-> FALSE]
    /\ ipsr = 0
    /\ sleeping = FALSE /\ eventRegister = FALSE /\ fault = FALSE
    /\ deliverIrqs \in BOOLEAN
    /\ deferred = {} /\ entered = FALSE /\ at = "fetch"

SystemInsn ==
    \/ HandlerReturns \/ ForgedReturn \/ Undefined
    \/ Svc \/ UsageTrap \/ DataAbort \/ FetchFault

NvicWrite ==
    \/ \E S \in SUBSET ExtIRQ : WriteIser(S) \/ WriteIcer(S) \/ WriteIspr(S) \/ WriteIcpr(S)
    \/ \E S, C \in SUBSET {PendSV, SysTick} : WriteIcsr(S, C)
    \/ \E i \in ExtIRQ : WriteStir(i)

ScbWrite ==
    \/ \E p \in PrioWrites : WritePriority(p[1], p[2])
    \/ \E g \in PriGroup : WriteAircr(g)
    \/ \E f \in FlagWrites : WriteFlag(f)

CoreInsn ==
    \/ Nop \/ Cps \/ FpuInsn \/ Wfi \/ Wfe \/ Sev
    \/ \E b \in BasePri : MsrBasepri(b) \/ MsrBasepriMax(b)
    \/ \E np \in BOOLEAN : MsrControl(np)

Firmware == SystemInsn \/ NvicWrite \/ ScbWrite \/ CoreInsn

Peripherals == \E e \in ExtIRQ \cup {SysTick} : Raise(e)

Driver ==
    \/ Wake \/ TakeNext \/ ResetCpu
    \/ \E b \in BOOLEAN : SetDeliverIrqs(b)

Next == Firmware \/ RaiseDeferred \/ Deliver \/ Peripherals \/ Driver

Spec == Init /\ [][Next]_vars

-----------------------------------------------------------------------------
(* Safety *)

\* The two pending bitmaps of the NVIC, which six operations update in step,
\* show the same external lines: ISPR reads what delivery will take.
PendingAgree == pendingReg = pending \cap ExtIRQ

\* IABR and the SHCSR active bits name exactly the exceptions on the stack.
ActiveAgree == active = {excStack[i].irq : i \in 1..Len(excStack)} \cap ActiveBits

\* While the core runs, IPSR, in_interrupt and the published privilege follow
\* the exception stack.
ModeAgree == ~fault =>
    /\ ipsr = IF excStack = <<>> THEN 0 ELSE 16 + Top(excStack).irq
    /\ inInterrupt = (excStack # <<>>)
    /\ privileged = (excStack # <<>> \/ ~npriv)

\* Preemption only ever goes upward: each nested handler is of a strictly more
\* urgent group than every handler below it, so no exception nests in itself.
StrictNesting ==
    \A i, j \in 1..Len(excStack) :
        i < j => Group(excStack[j].irq) < Group(excStack[i].irq)

\* The EXC_RETURN value the handler at depth i has to branch to.
Link(stk, i) == [handler |-> i > 1, ext |-> stk[i].fpExt]

\* Through every nesting, tail-chain and return, the link register and the
\* stacked link registers hold the value that returns to the level below with
\* the frame size that level's entry reserved, and returning through it never
\* latches INVPC.
ReturnLinkage ==
    /\ InvpcBit \notin cfsr
    /\ Len(frames) = Len(excStack)
    /\ excStack # <<>> => lr = Link(excStack, Len(excStack))
    /\ \A i \in 2..Len(excStack) : frames[i] = Link(excStack, i - 1)

\* A handler on the stack always has a frame to return to, whatever values
\* firmware returns through.
FramesCover == Len(frames) >= Len(excStack)

\* e is entered by this step, fresh or tail-chained.
Enters(e) ==
    /\ excStack' # <<>> /\ Top(excStack').irq = e
    /\ \/ Len(excStack') > Len(excStack)
       \/ at = "fetch" /\ at' = "deliver" /\ entered'   \* by this instruction

\* A pending exception is lost by no step: it leaves the bitmap when its handler
\* is entered, when firmware clears it, or when the driver takes it.
NoLostInterrupt ==
    [][\A e \in pending \ pending' :
         \/ Enters(e)
         \/ \E S \in SUBSET ExtIRQ : WriteIcpr(S) /\ e \in S
         \/ \E S, C \in SUBSET {PendSV, SysTick} : WriteIcsr(S, C) /\ e \in C
         \/ TakeNext]_vars

\* No path into a handler (delivery, tail-chain, synchronous raise, escalation)
\* enters an exception that PRIMASK, FAULTMASK or BASEPRI masks.
MaskHonoured == [][\A e \in Exc : Enters(e) => ~Masked(e)]_vars

\* Of what is pending and may preempt, delivery and tail-chaining take the most
\* urgent by group, then subpriority, then number.
UrgentFirst ==
    [][\A e \in pending \ pending' :
         Enters(e) /\ (at = "deliver" \/ Len(excStack') = Len(excStack)) =>
             \A d \in pending : Enabled(d) /\ ~Masked(d) => ~MoreUrgent(d, e)]_vars

-----------------------------------------------------------------------------
(* What comments and documents of the repository say and the engine does    *)
(* not do: each of these is refuted by a run.                               *)

\* cpu/mod.rs: "the most urgent pending exception always wins before any
\* handler's first instruction".
LateArrivalWins ==
    [][entered /\ at = "fetch" /\ at' = "deliver" /\ deliverIrqs
         => Deliverable(excStack) = {}]_vars

\* cpu/mod.rs: a deferred data fault "takes precedence over new interrupt
\* delivery (the fault is older)".
DeferredFaultFirst == [][at = "deliver" /\ deferred # {} => excStack' = excStack]_vars

\* cpu/mod.rs: the core naps "until the next deliverable interrupt"; so no
\* handler is entered by a core that stays asleep in it.
EntryWakes == [][(\E e \in Exc : Enters(e)) => ~sleeping']_vars

\* cpu/thumb.rs: "BASEPRI_MAX raises the mask only (never lowers it)".
BasepriMaxRaisesOnly ==
    [][\A b \in BasePri : MsrBasepriMax(b) => \A e \in Exc : Masked(e) => Masked(e)']_vars

\* cpu/mod.rs: a bad return latches UFSR.INVPC, which is CFSR bit 16 + 2.
InvpcInUfsr == [][ForgedReturn /\ cfsr' # cfsr => 18 \in cfsr']_vars

-----------------------------------------------------------------------------
(* Liveness.  The driver keeps calling run, which keeps iterating, and wakes *)
(* a sleeping core while something is pending (if it wakes it at all).       *)

Fairness ==
    /\ WF_vars(Nop) /\ WF_vars(Deliver) /\ WF_vars(RaiseDeferred)
    /\ WF_vars(Wake)

FairSpec == Spec /\ Fairness

\* The core never runs, or sleeps, for ever beside an interrupt it could take.
DeliveryNotDelayed == []<>(fault \/ ~deliverIrqs \/ Deliverable(excStack) = {})

-----------------------------------------------------------------------------
(* Refinement: the stack implements a priority-ordered set of activations.  *)

Preemption == INSTANCE PriorityPreemption WITH
    Exception <- Exc,
    Idle      <- -16,
    pend      <- pending,
    activated <- {excStack[i].irq : i \in 1..Len(excStack)},
    running   <- ipsr - 16,
    level     <- [e \in Exc |-> Group(e)]

IsPreemptive == Preemption!Spec
=============================================================================
