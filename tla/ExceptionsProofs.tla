-------------------------- MODULE ExceptionsProofs --------------------------
(***************************************************************************)
(* Theorems about module Exceptions, for every set of lines, every firmware *)
(* and every driver the constants describe: the engine's state keeps its     *)
(* shape and nests strictly, what is asked for is never lost or taken too    *)
(* early, the most urgent goes first, the return link names the frame that   *)
(* is popped, and the engine implements PriorityPreemption.                  *)
(***************************************************************************)
EXTENDS Exceptions, SequenceTheorems, TLAPS

-----------------------------------------------------------------------------
(* Operators *)

\* What popping a non-empty stack leaves.
LEMMA PopLemma ==
    ASSUME NEW T, NEW s \in Seq(T), s # <<>>
    PROVE  /\ Top(s) \in T
           /\ Pop(s) \in Seq(T)
           /\ Len(Pop(s)) = Len(s) - 1
           /\ \A i \in 1..Len(Pop(s)) : Pop(s)[i] = s[i]
<1>1. Len(s) \in Nat \ {0} /\ \A i \in 1..Len(s) : s[i] \in T
  OBVIOUS
<1>2. Top(s) \in T
  BY <1>1 DEF Top
<1>3. ASSUME NEW n \in Nat, n = Len(s) - 1
      PROVE  /\ SubSeq(s, 1, n) \in Seq(T) /\ Len(SubSeq(s, 1, n)) = n
             /\ \A i \in 1..n : SubSeq(s, 1, n)[i] = s[i]
  <2>1. \A i \in 1..n : s[i] \in T
    BY <1>1, <1>3
  <2>2. /\ SubSeq(s, 1, n) \in Seq(T)
        /\ Len(SubSeq(s, 1, n)) = IF 1 <= n THEN n - 1 + 1 ELSE 0
        /\ \A i \in 1..(n - 1 + 1) : SubSeq(s, 1, n)[i] = s[1 + i - 1]
    BY <2>1, SubSeqProperties
  <2> QED
    BY <2>2
<1>4. Len(s) - 1 \in Nat
  BY <1>1
<1> QED
  BY <1>2, <1>3, <1>4 DEF Pop

\* Group priorities are integers: they can be compared.
LEMMA GroupInt == ASSUME ConfigTypeOK, NEW e \in Exc PROVE Group(e) \in Int
<1>1. prio[e] \in Int
  BY DEF ConfigTypeOK
<1>2. SubSize[prigroup + 1] \in {2, 4, 8, 16, 32, 64, 128, 256}
  BY DEF ConfigTypeOK, SubSize
<1>3. \A n \in Int : \A d \in {2, 4, 8, 16, 32, 64, 128, 256} : n \div d \in Int
  OBVIOUS
<1> QED
  BY <1>1, <1>2, <1>3 DEF Group

-----------------------------------------------------------------------------
(* Type correctness *)


CoreType == [stack : Seq(Entry), frames : Seq(ExcReturn), lr : ExcReturn,
             ipsr : Vectors, active : SUBSET Exc, inInt : BOOLEAN, priv : BOOLEAN]

\* A core state a synchronous raise may start from.
CoreOK(core) == core \in CoreType /\ Len(core.frames) >= Len(core.stack)

\* Type correctness is inductive only with a frame for every active handler:
\* a return reads the link register from the frame it pops.
TypeInv == TypeOK /\ FramesCover

\* The core an entry or a return starts from is typed.
LEMMA CoreTyped == ASSUME TypeInv PROVE CoreOK(Core)
BY DEF Core, CoreOK, CoreType, TypeInv, FramesCover, TypeOK, EngineTypeOK

\* A fresh entry keeps the engine typed and reserves the frame it needs.
LEMMA TakeType ==
    ASSUME TypeOK, NEW e \in Exc, NEW core, CoreOK(core), TakeException(e, core)
    PROVE  EngineTypeOK' /\ FramesCover'
<1> USE DEF CoreOK, CoreType
<1> DEFINE entry == [irq |-> e, fpExt |-> fpca]
<1>1. entry \in Entry
  BY DEF Entry, TypeOK, ConfigTypeOK
<1>2. excStack' = Append(core.stack, entry) /\ frames' = Append(core.frames, core.lr)
  BY DEF TakeException, Enter
<1>3. excStack' \in Seq(Entry) /\ frames' \in Seq(ExcReturn) /\ FramesCover'
  <2> HIDE DEF entry
  <2> QED BY <1>1, <1>2 DEF FramesCover
<1>4. lr' \in ExcReturn /\ ipsr' \in Vectors /\ active' \subseteq Exc
  BY DEF TakeException, Enter, EntryLink, Vector, ExcReturn, Vectors, TypeOK, ConfigTypeOK
<1> QED
  BY <1>3, <1>4 DEF TakeException, Enter, TypeOK, EngineTypeOK

\* A synchronous raise, whether it enters, escalates or halts, keeps it so.
LEMMA RaiseSyncType ==
    ASSUME TypeOK, NEW e \in Exc, NEW core, CoreOK(core), RaiseSync(e, core)
    PROVE  EngineTypeOK' /\ FramesCover'
<1>1. HardFault \in Exc
  BY DEF Exc, SysExc
<1>2. CASE Halt(core)
  BY <1>2 DEF CoreOK, CoreType, Halt, pendVars, maskVars, TypeOK, EngineTypeOK, FramesCover
<1> QED
  BY <1>1, <1>2, TakeType DEF RaiseSync

\* A configurable fault is raised as itself or as HardFault.
LEMMA FaultTargets ==
    /\ UsageTarget \in Exc /\ SVCall \in Exc
    /\ FaultTarget(MemManage, "MEMFAULTENA") \in Exc
    /\ FaultTarget(BusFault, "BUSFAULTENA") \in Exc
BY DEF UsageTarget, FaultTarget, Exc, SysExc


\* Giving a return up leaves a typed core.
LEMMA AbandonedTyped ==
    ASSUME TypeOK, NEW core, CoreOK(core) PROVE CoreOK(Abandoned(core))
BY DEF CoreOK, CoreType, Abandoned, Vectors, TypeOK, ConfigTypeOK

\* So does popping the returning entry, with its frame or without.
LEMMA PoppedTyped ==
    ASSUME TypeInv, excStack # <<>>
    PROVE  /\ CoreOK(Popped) /\ CoreOK(Unstacked)
           /\ Top(excStack) \in Entry
<1>1. /\ Top(excStack) \in Entry /\ Pop(excStack) \in Seq(Entry)
      /\ Pop(frames) \in Seq(ExcReturn) /\ Top(frames) \in ExcReturn
      /\ Len(Pop(excStack)) = Len(excStack) - 1 /\ Len(Pop(frames)) = Len(frames) - 1
  <2>1. excStack \in Seq(Entry) /\ frames \in Seq(ExcReturn) /\ frames # <<>>
    BY DEF TypeInv, TypeOK, EngineTypeOK, FramesCover
  <2> QED BY <2>1, PopLemma
<1> QED
  BY <1>1 DEF CoreOK, CoreType, Popped, Unstacked, TypeInv, FramesCover, TypeOK, EngineTypeOK

\* Every outcome of an exception return: INVPC, tail-chain, forged, unstacked.
LEMMA ReturnType ==
    ASSUME TypeInv, NEW v \in ExcReturn, ExceptionReturn(v)
    PROVE  TypeInv'
<1>1. CoreOK(Core)
  BY CoreTyped
<1>2. ConfigTypeOK' /\ at' \in {"fetch", "deliver"} /\ deferred' \subseteq Channels
  BY DEF ExceptionReturn, EndInstruction, TypeInv, TypeOK, ConfigTypeOK, LoopTypeOK, cfgVars
<1>3. ASSUME NEW core, CoreOK(core), RaiseInvpc(core) PROVE TypeInv'
  <2>1. EngineTypeOK' /\ FramesCover'
    BY <1>3, RaiseSyncType, FaultTargets DEF RaiseInvpc, TypeInv
  <2> QED
    BY <1>2, <1>3, <2>1 DEF RaiseInvpc, InvpcBit, TypeInv, TypeOK, LoopTypeOK
<1>4. CASE RaiseInvpc(Core)
  BY <1>1, <1>3, <1>4
<1>5. CASE excStack # <<>>
  <2>1. CoreOK(Popped) /\ CoreOK(Unstacked) /\ Top(excStack) \in Entry
    BY <1>5, PoppedTyped
  <2>2. ASSUME NEW e \in pending, EnterChained(e, Popped, Top(excStack).fpExt),
               UNCHANGED <<cfsr, sleeping>>
        PROVE  TypeInv'
    <3> DEFINE entry == [irq |-> e, fpExt |-> Top(excStack).fpExt]
    <3>1. entry \in Entry /\ e \in Exc
      BY <2>1, <2>2 DEF Entry, TypeInv, TypeOK, EngineTypeOK
    <3>2. excStack' = Append(Popped.stack, entry) /\ frames' = Popped.frames
      BY <2>2 DEF EnterChained, Enter
    <3>3. excStack' \in Seq(Entry) /\ FramesCover'
      <4>1. Len(frames) >= Len(Popped.stack) + 1 /\ Popped.frames = frames
        BY <1>5, PopLemma DEF Popped, TypeInv, FramesCover, TypeOK, EngineTypeOK
      <4> HIDE DEF entry
      <4> QED BY <2>1, <3>1, <3>2, <4>1 DEF CoreOK, CoreType, FramesCover
    <3>4. lr' \in ExcReturn /\ ipsr' \in Vectors /\ active' \subseteq Exc /\ frames' \in Seq(ExcReturn)
      BY <2>1, <2>2, <3>1 DEF EnterChained, Enter, ChainLink, Vector, CoreOK, CoreType, Entry,
         ExcReturn, Vectors
    <3>5. EngineTypeOK'
      BY <2>2, <3>3, <3>4 DEF EnterChained, Enter, maskVars, TypeInv, TypeOK, EngineTypeOK
    <3> QED
      BY <1>2, <2>2, <3>3, <3>5 DEF TypeInv, TypeOK, LoopTypeOK
  <2>3. ASSUME Unstack(v), v.handler => Popped.stack # <<>> PROVE TypeInv'
    <3>1. ipsr' \in Vectors
      <4>1. CASE v.handler
        <5>1. Top(Unstacked.stack) \in Entry
          BY <2>1, <2>3, <4>1 DEF Top, CoreOK, CoreType, Unstacked
        <5> QED BY <2>3, <4>1, <5>1 DEF Unstack, RestoredIpsr, Vector, Vectors, Entry
      <4>2. CASE ~v.handler
        BY <2>3, <4>2 DEF Unstack, RestoredIpsr, Vectors
      <4> QED BY <4>1, <4>2
    <3>2. inInterrupt' \in BOOLEAN /\ privileged' \in BOOLEAN /\ sleeping' \in BOOLEAN
      BY <2>3 DEF Unstack, RestoredPrivilege, ExcReturn
    <3>3. EngineTypeOK' /\ FramesCover'
      BY <2>1, <2>3, <3>1, <3>2 DEF Unstack, CoreOK, CoreType, pendVars, maskVars,
         TypeInv, TypeOK, EngineTypeOK, FramesCover
    <3> QED
      BY <1>2, <2>3, <3>2, <3>3 DEF Unstack, TypeInv, TypeOK, LoopTypeOK
  <2>4. CASE RaiseInvpc(Abandoned(Popped)) \/ RaiseInvpc(Abandoned(Unstacked))
    BY <1>3, <2>1, <2>4, AbandonedTyped DEF TypeInv
  <2> QED
    BY <1>4, <1>5, <2>2, <2>3, <2>4 DEF ExceptionReturn
<1> QED
  BY <1>4, <1>5 DEF ExceptionReturn

\* Actions that leave the exception stack and its frames alone.
LEMMA SameStack ==
    ASSUME TypeInv, EngineTypeOK', ConfigTypeOK', LoopTypeOK', UNCHANGED <<excStack, frames>>
    PROVE  TypeInv'
BY DEF TypeInv, TypeOK, FramesCover

\* The bits a fault latches are bits of CFSR.
LEMMA CfsrLatch ==
    ASSUME LoopTypeOK
    PROVE  \A A \in {{8, 15}, {0, 7}, {1, 7}, {24}, {9, 15}} : cfsr \cup A \subseteq 0..31
<1>1. \A A \in {{8, 15}, {0, 7}, {1, 7}, {24}, {9, 15}} : A \subseteq 0..31
  OBVIOUS
<1> QED
  BY <1>1, Zenon DEF LoopTypeOK

\* Synchronous exceptions, immediate or deferred.
LEMMA SynchronousType ==
    ASSUME TypeInv, Svc \/ UsageTrap \/ FetchFault \/ RaiseDeferred
    PROVE  TypeInv'
<1>1. \E e \in Exc : RaiseSync(e, Core)
  BY FaultTargets DEF Svc, UsageTrap, FetchFault, RaiseDeferred
<1>2. EngineTypeOK' /\ FramesCover'
  BY <1>1, CoreTyped, RaiseSyncType DEF TypeInv
<1>3. ConfigTypeOK'
  BY DEF Svc, UsageTrap, FetchFault, RaiseDeferred, cfgVars, TypeInv, TypeOK, ConfigTypeOK
<1>4. LoopTypeOK'
  <2> USE DEF TypeInv, TypeOK, LoopTypeOK
  <2>1. CASE Svc
    BY <2>1 DEF Svc, EndInstruction
  <2>2. CASE UsageTrap
    BY <2>2 DEF UsageTrap, EndInstruction
  <2>3. CASE FetchFault
    <3>1. cfsr' \in {cfsr \cup {8, 15}, cfsr \cup {0, 7}}
      BY <2>3 DEF FetchFault
    <3> QED BY <2>3, <3>1, CfsrLatch DEF FetchFault
  <2>4. CASE RaiseDeferred
    <3>1. cfsr' \in {cfsr \cup {1, 7}, cfsr \cup {24}, cfsr \cup {9, 15}}
      BY <2>4 DEF RaiseDeferred
    <3>2. cfsr' \subseteq 0..31
      BY <3>1, CfsrLatch
    <3>3. deferred' \subseteq deferred
      BY <2>4 DEF RaiseDeferred
    <3> QED BY <2>4, <3>2, <3>3 DEF RaiseDeferred
  <2> QED
    BY <2>1, <2>2, <2>3, <2>4
<1> QED
  BY <1>2, <1>3, <1>4 DEF TypeInv, TypeOK

\* The instructions that raise, return or fail.
LEMMA SystemInsnType == ASSUME TypeInv, SystemInsn PROVE TypeInv'
<1>1. CASE HandlerReturns \/ ForgedReturn
  BY <1>1, ReturnType DEF HandlerReturns, ForgedReturn, TypeInv, TypeOK, EngineTypeOK
<1>2. CASE Undefined
  <2>1. EngineTypeOK' /\ ConfigTypeOK' /\ LoopTypeOK'
    <3>1. EngineTypeOK'
      BY <1>2 DEF Undefined, vars, pendVars, maskVars, cfgVars, excVars, TypeInv, TypeOK, EngineTypeOK
    <3>2. ConfigTypeOK'
      BY <1>2 DEF Undefined, vars, pendVars, maskVars, cfgVars, excVars, TypeInv, TypeOK, ConfigTypeOK
    <3>3. LoopTypeOK'
      BY <1>2 DEF Undefined, vars, pendVars, maskVars, cfgVars, excVars, TypeInv, TypeOK, LoopTypeOK
    <3> QED
      BY <3>1, <3>2, <3>3
  <2> QED BY <1>2, <2>1, SameStack DEF Undefined, excVars
<1>3. CASE DataAbort
  <2>1. EngineTypeOK' /\ ConfigTypeOK' /\ LoopTypeOK'
    <3>1. EngineTypeOK'
      BY <1>3 DEF DataAbort, pendVars, maskVars, cfgVars, excVars, TypeInv, TypeOK, EngineTypeOK
    <3>2. ConfigTypeOK'
      BY <1>3 DEF DataAbort, pendVars, maskVars, cfgVars, excVars, TypeInv, TypeOK, ConfigTypeOK
    <3>3. LoopTypeOK'
      BY <1>3 DEF DataAbort, pendVars, maskVars, cfgVars, excVars, TypeInv, TypeOK, LoopTypeOK
    <3> QED
      BY <3>1, <3>2, <3>3
  <2> QED BY <1>3, <2>1, SameStack DEF DataAbort, excVars
<1> QED
  BY <1>1, <1>2, <1>3, SynchronousType DEF SystemInsn

\* What an instruction that simply completes does to the run loop.
LEMMA ExecutesType ==
    ASSUME TypeInv, NEW op, Executes(op), UNCHANGED <<cfgVars, excVars>>,
           pending' \subseteq Exc, pendingReg' \subseteq ExtIRQ,
           primask' \in BOOLEAN, faultmask' \in BOOLEAN, basepri' \in Byte,
           sleeping' \in BOOLEAN, eventRegister' \in BOOLEAN
    PROVE  TypeInv'
<1>1. EngineTypeOK' /\ ConfigTypeOK' /\ LoopTypeOK'
  BY DEF Executes, cfgVars, excVars, TypeInv, TypeOK, EngineTypeOK, ConfigTypeOK, LoopTypeOK
<1> QED
  BY <1>1, SameStack DEF excVars

\* The register writes that reconfigure the engine.
LEMMA ConfigureType ==
    ASSUME TypeInv, NEW op, Executes(op), ConfigTypeOK', UNCHANGED maskVars,
           UNCHANGED <<excStack, frames, lr, ipsr, active, inInterrupt, sleeping, eventRegister>>,
           privileged' \in BOOLEAN, pending' \subseteq Exc, pendingReg' \subseteq ExtIRQ
    PROVE  TypeInv'
<1>1. EngineTypeOK' /\ LoopTypeOK'
  BY DEF Executes, maskVars, TypeInv, TypeOK, EngineTypeOK, LoopTypeOK
<1> QED
  BY <1>1, SameStack

\* The writes to the NVIC, ICSR and STIR.
LEMMA NvicWriteType == ASSUME TypeInv, NvicWrite PROVE TypeInv'
<1> USE DEF TypeInv, TypeOK, EngineTypeOK, LoopTypeOK
<1>1. ExtIRQ \subseteq Exc /\ {PendSV, SysTick} \subseteq Exc
  BY DEF Exc, SysExc
<1>2. ASSUME NEW S \in SUBSET ExtIRQ, WriteIser(S) \/ WriteIcer(S) PROVE TypeInv'
  <2>1. ConfigTypeOK'
    <3>1. enabled' \subseteq ExtIRQ
      BY <1>2 DEF WriteIser, WriteIcer, ConfigTypeOK
    <3>2. UNCHANGED <<prio, prigroup, flags, npriv, fpca, deliverIrqs>>
      BY <1>2 DEF WriteIser, WriteIcer
    <3> QED
      BY <3>1, <3>2 DEF ConfigTypeOK
  <2>2. pending' \subseteq Exc /\ pendingReg' \subseteq ExtIRQ
    BY <1>1, <1>2 DEF WriteIser, WriteIcer, pendVars
  <2> QED BY <1>2, <2>1, <2>2, ConfigureType DEF WriteIser, WriteIcer, excVars
<1>3. ASSUME NEW S \in SUBSET ExtIRQ, WriteIspr(S) \/ WriteIcpr(S) PROVE TypeInv'
  <2>1. pending' \subseteq Exc /\ pendingReg' \subseteq ExtIRQ
    BY <1>1, <1>3 DEF WriteIspr, WriteIcpr
  <2> QED BY <1>3, <2>1, ExecutesType DEF WriteIspr, WriteIcpr, maskVars
<1>4. ASSUME NEW S \in SUBSET {PendSV, SysTick}, NEW C, WriteIcsr(S, C) PROVE TypeInv'
  <2>1. pending' \subseteq Exc /\ pendingReg' \subseteq ExtIRQ
    BY <1>1, <1>4 DEF WriteIcsr
  <2> QED BY <1>4, <2>1, ExecutesType DEF WriteIcsr, maskVars
<1>5. ASSUME NEW i \in ExtIRQ, WriteStir(i) PROVE TypeInv'
  <2>1. pending' \subseteq Exc /\ pendingReg' \subseteq ExtIRQ
    BY <1>1, <1>5 DEF WriteStir, pendVars
  <2> QED BY <1>5, <2>1, ExecutesType DEF WriteStir, maskVars
<1> QED
  BY <1>2, <1>3, <1>4, <1>5 DEF NvicWrite

\* The writes to the priorities and to the flags of the SCB.
LEMMA ScbWriteType == ASSUME TypeInv, ScbWrite PROVE TypeInv'
<1>1. ASSUME NEW p \in PrioWrites, WritePriority(p[1], p[2]) PROVE TypeInv'
  <2>1. p[1] \in Exc /\ p[2] \in Byte
    BY WritesAssumption
  <2>2. prio' \in [Exc -> -2..255]
    BY <1>1, <2>1 DEF WritePriority, Byte, TypeInv, TypeOK, ConfigTypeOK
  <2>3. ConfigTypeOK'
    BY <1>1, <2>2 DEF WritePriority, TypeInv, TypeOK, ConfigTypeOK
  <2> QED
    BY <1>1, <2>3, ConfigureType DEF WritePriority, excVars, pendVars, TypeInv, TypeOK, EngineTypeOK
<1>2. ASSUME NEW g \in PriGroup, WriteAircr(g) PROVE TypeInv'
  <2>1. ConfigTypeOK'
    BY <1>2, WritesAssumption DEF WriteAircr, TypeInv, TypeOK, ConfigTypeOK
  <2> QED
    BY <1>2, <2>1, ConfigureType DEF WriteAircr, excVars, pendVars, TypeInv, TypeOK, EngineTypeOK
<1>3. ASSUME NEW f \in FlagWrites, WriteFlag(f) PROVE TypeInv'
  <2>1. ConfigTypeOK'
    BY <1>3, WritesAssumption DEF WriteFlag, TypeInv, TypeOK, ConfigTypeOK
  <2> QED
    BY <1>3, <2>1, ConfigureType DEF WriteFlag, excVars, pendVars, TypeInv, TypeOK, EngineTypeOK
<1> QED
  BY <1>1, <1>2, <1>3 DEF ScbWrite

\* Masks, CONTROL, FPU use and the sleep hints.
LEMMA CoreInsnType == ASSUME TypeInv, CoreInsn PROVE TypeInv'
<1> USE DEF TypeInv, TypeOK, EngineTypeOK, LoopTypeOK
<1>1. CASE Nop \/ Wfi \/ Wfe \/ Sev
  BY <1>1, ExecutesType DEF Nop, Wfi, Wfe, Sev, pendVars, maskVars
<1>2. CASE Cps
  BY <1>2, ExecutesType DEF Cps, pendVars
<1>3. ASSUME NEW b \in BasePri, MsrBasepri(b) \/ MsrBasepriMax(b) PROVE TypeInv'
  BY <1>3, ExecutesType, WritesAssumption DEF MsrBasepri, MsrBasepriMax, pendVars
<1>4. CASE FpuInsn
  <2>1. ConfigTypeOK'
    BY <1>4 DEF FpuInsn, ConfigTypeOK
  <2> QED BY <1>4, <2>1, ConfigureType DEF FpuInsn, excVars, pendVars
<1>5. ASSUME NEW np \in BOOLEAN, MsrControl(np) PROVE TypeInv'
  <2>1. ConfigTypeOK' /\ privileged' \in BOOLEAN
    BY <1>5 DEF MsrControl, ConfigTypeOK
  <2> QED BY <1>5, <2>1, ConfigureType DEF MsrControl, pendVars
<1> QED
  BY <1>1, <1>2, <1>3, <1>4, <1>5 DEF CoreInsn

\* The inline delivery at the end of an iteration.
LEMMA DeliverType == ASSUME TypeInv, Deliver PROVE TypeInv'
<1>1. ConfigTypeOK' /\ LoopTypeOK'
  BY DEF Deliver, cfgVars, TypeInv, TypeOK, ConfigTypeOK, LoopTypeOK
<1>2. CASE deliverIrqs /\ Deliverable(excStack) # {}
  <2>1. PICK e \in Exc : TakeException(e, Core)
    BY <1>2 DEF Deliver, TypeInv, TypeOK, EngineTypeOK
  <2> QED
    BY <1>1, <2>1, CoreTyped, TakeType DEF TypeInv, TypeOK
<1>3. CASE ~(deliverIrqs /\ Deliverable(excStack) # {})
  <2>1. EngineTypeOK'
    BY <1>3 DEF Deliver, pendVars, maskVars, excVars, TypeInv, TypeOK, EngineTypeOK
  <2> QED
    BY <1>1, <1>3, <2>1, SameStack DEF Deliver, excVars
<1> QED
  BY <1>2, <1>3

\* An empty exception stack and its links are typed.
LEMMA ResetTyped ==
    /\ <<>> \in Seq(Entry) /\ <<>> \in Seq(ExcReturn) /\ Len(<<>>) = 0
    /\ [handler |-> FALSE, ext |-> FALSE] \in ExcReturn
    /\ 0 \in Vectors /\ 0 \in Byte
BY DEF ExcReturn, Vectors, Byte

\* What peripherals and the host driver do between two calls of run.
LEMMA OutsideType == ASSUME TypeInv, Peripherals \/ Driver PROVE TypeInv'
<1>1. CASE Peripherals
  <2>1. PICK e \in ExtIRQ \cup {SysTick} : Raise(e)
    BY <1>1 DEF Peripherals
  <2>2. e \in Exc
    BY DEF Exc, SysExc
  <2>3. EngineTypeOK' /\ ConfigTypeOK' /\ LoopTypeOK'
    <3>1. EngineTypeOK'
      BY <2>1, <2>2 DEF Raise, maskVars, cfgVars, excVars, TypeInv, TypeOK, EngineTypeOK
    <3>2. ConfigTypeOK'
      BY <2>1, <2>2 DEF Raise, maskVars, cfgVars, excVars, TypeInv, TypeOK, ConfigTypeOK
    <3>3. LoopTypeOK'
      BY <2>1, <2>2 DEF Raise, maskVars, cfgVars, excVars, TypeInv, TypeOK, LoopTypeOK
    <3> QED
      BY <3>1, <3>2, <3>3
  <2> QED BY <2>1, <2>3, SameStack DEF Raise, excVars
<1>2. CASE Wake
  <2>1. EngineTypeOK' /\ ConfigTypeOK' /\ LoopTypeOK'
    <3>1. EngineTypeOK'
      BY <1>2 DEF Wake, pendVars, maskVars, cfgVars, excVars, TypeInv, TypeOK, EngineTypeOK
    <3>2. ConfigTypeOK'
      BY <1>2 DEF Wake, pendVars, maskVars, cfgVars, excVars, TypeInv, TypeOK, ConfigTypeOK
    <3>3. LoopTypeOK'
      BY <1>2 DEF Wake, pendVars, maskVars, cfgVars, excVars, TypeInv, TypeOK, LoopTypeOK
    <3> QED
      BY <3>1, <3>2, <3>3
  <2> QED BY <1>2, <2>1, SameStack DEF Wake, excVars
<1>3. CASE TakeNext
  <2>1. ExtIRQ \subseteq Exc
    BY DEF Exc
  <2>2. EngineTypeOK' /\ ConfigTypeOK' /\ LoopTypeOK'
    <3>1. EngineTypeOK'
      BY <1>3, <2>1 DEF TakeNext, maskVars, cfgVars, TypeInv, TypeOK, EngineTypeOK
    <3>2. ConfigTypeOK'
      BY <1>3, <2>1 DEF TakeNext, maskVars, cfgVars, TypeInv, TypeOK, ConfigTypeOK
    <3>3. LoopTypeOK'
      BY <1>3, <2>1 DEF TakeNext, maskVars, cfgVars, TypeInv, TypeOK, LoopTypeOK
    <3> QED
      BY <3>1, <3>2, <3>3
  <2> QED BY <1>3, <2>2, SameStack DEF TakeNext
<1>4. CASE \E b \in BOOLEAN : SetDeliverIrqs(b)
  <2>1. EngineTypeOK' /\ ConfigTypeOK' /\ LoopTypeOK'
    <3>1. EngineTypeOK'
      BY <1>4 DEF SetDeliverIrqs, pendVars, maskVars, excVars, TypeInv, TypeOK, EngineTypeOK
    <3>2. ConfigTypeOK'
      BY <1>4 DEF SetDeliverIrqs, pendVars, maskVars, excVars, TypeInv, TypeOK, ConfigTypeOK
    <3>3. LoopTypeOK'
      BY <1>4 DEF SetDeliverIrqs, pendVars, maskVars, excVars, TypeInv, TypeOK, LoopTypeOK
    <3> QED
      BY <3>1, <3>2, <3>3
  <2> QED BY <1>4, <2>1, SameStack DEF SetDeliverIrqs, excVars
<1>5. CASE ResetCpu
  <2>1. EngineTypeOK' /\ FramesCover'
    <3>1. excStack' = <<>> /\ frames' = <<>> /\ lr' = [handler |-> FALSE, ext |-> FALSE]
      BY <1>5 DEF ResetCpu
    <3>2. /\ excStack' \in Seq(Entry) /\ frames' \in Seq(ExcReturn) /\ lr' \in ExcReturn
          /\ FramesCover'
      BY <3>1, ResetTyped DEF FramesCover
    <3>3. ipsr' \in Vectors /\ basepri' \in Byte
      BY <1>5, ResetTyped DEF ResetCpu
    <3> QED
      BY <1>5, <3>2, <3>3 DEF ResetCpu, pendVars, TypeInv, TypeOK, EngineTypeOK
  <2>2. ConfigTypeOK' /\ LoopTypeOK'
    BY <1>5 DEF ResetCpu, TypeInv, TypeOK, ConfigTypeOK, LoopTypeOK
  <2> QED BY <2>1, <2>2 DEF TypeInv, TypeOK
<1> QED
  BY <1>1, <1>2, <1>3, <1>4, <1>5 DEF Driver

\* The state the core is built in.
LEMMA InitType == Init => TypeInv
<1> SUFFICES ASSUME Init PROVE TypeInv
  OBVIOUS
<1>1. prio \in [Exc -> -2..255]
  BY DEF Init
<1>2. EngineTypeOK /\ FramesCover
  <2>1. excStack = <<>> /\ frames = <<>> /\ lr = [handler |-> FALSE, ext |-> FALSE]
    BY DEF Init
  <2>2. excStack \in Seq(Entry) /\ frames \in Seq(ExcReturn) /\ lr \in ExcReturn /\ FramesCover
    BY <2>1, ResetTyped DEF FramesCover
  <2>3. ipsr \in Vectors /\ basepri \in Byte
    BY ResetTyped DEF Init
  <2> QED
    BY <2>2, <2>3 DEF Init, EngineTypeOK
<1>3. ConfigTypeOK
  <2>1. enabled = {} /\ prigroup = 0 /\ flags = {} /\ npriv = FALSE /\ fpca = FALSE
    BY DEF Init
  <2>2. deliverIrqs \in BOOLEAN
    BY DEF Init
  <2>3. enabled \subseteq ExtIRQ /\ flags \subseteq Flags /\ prigroup \in 0..7
    BY <2>1
  <2> QED BY <1>1, <2>1, <2>2, <2>3, Zenon DEF ConfigTypeOK
<1>4. LoopTypeOK
  BY DEF Init, LoopTypeOK
<1> QED
  BY <1>2, <1>3, <1>4 DEF TypeInv, TypeOK

\* The invariant is inductive: one case per kind of step.
LEMMA NextType == TypeInv /\ [Next]_vars => TypeInv'
<1> SUFFICES ASSUME TypeInv, [Next]_vars PROVE TypeInv'
  OBVIOUS
<1>1. CASE Firmware
  BY <1>1, SystemInsnType, NvicWriteType, ScbWriteType, CoreInsnType DEF Firmware
<1>2. CASE RaiseDeferred
  BY <1>2, SynchronousType
<1>3. CASE UNCHANGED vars
  <2>1. EngineTypeOK'
    BY <1>3 DEF vars, pendVars, maskVars, excVars, TypeInv, TypeOK, EngineTypeOK
  <2>2. ConfigTypeOK' /\ LoopTypeOK'
    BY <1>3 DEF vars, cfgVars, TypeInv, TypeOK, ConfigTypeOK, LoopTypeOK
  <2> QED
    BY <1>3, <2>1, <2>2, SameStack DEF vars, excVars
<1> QED
  BY <1>1, <1>2, <1>3, DeliverType, OutsideType DEF Next

\* The state of the engine keeps its type whatever firmware and driver do, and a
\* handler on the exception stack always has a stacked frame to return to.
THEOREM TypeCorrect == Spec => [](TypeOK /\ FramesCover)
<1>1. TypeInv => TypeOK /\ FramesCover
  BY DEF TypeInv
<1> QED
  BY <1>1, InitType, NextType, PTL DEF Spec

-----------------------------------------------------------------------------
(* The pending bitmaps *)

\* The bitmap delivery scans and the copy ISPR shows never disagree, whatever
\* peripherals, firmware and driver set and clear in whatever order.
THEOREM PendingAgreement == Spec => []PendingAgree
<1>1. Init => PendingAgree
  BY DEF Init, PendingAgree
<1>2. TypeInv /\ PendingAgree /\ [Next]_vars => PendingAgree'
  <2> SUFFICES ASSUME TypeInv, PendingAgree, [Next]_vars PROVE PendingAgree'
    OBVIOUS
  <2> USE DEF PendingAgree
  <2>1. SysTick \notin ExtIRQ /\ PendSV \notin ExtIRQ
    BY ExtIRQAssumption DEF SysTick, PendSV
  <2>2. ASSUME NEW e, pending' = pending \ {e}, pendingReg' = pendingReg \ {e} PROVE PendingAgree'
    BY <2>2
  <2>3. ASSUME NEW e, NEW core, RaiseSync(e, core) PROVE PendingAgree'
    BY <2>3, <2>2 DEF RaiseSync, TakeException, Enter, Halt, pendVars
  <2>4. ASSUME NEW v, ExceptionReturn(v) PROVE PendingAgree'
    BY <2>4, <2>3, <2>2 DEF ExceptionReturn, RaiseInvpc, EnterChained, Enter, Unstack, pendVars
  <2>5. CASE SystemInsn
    BY <2>5, <2>3, <2>4 DEF SystemInsn, HandlerReturns, ForgedReturn, Undefined, Svc, UsageTrap,
       DataAbort, FetchFault, pendVars
  <2>6. CASE NvicWrite
    <3>1. ASSUME NEW S \in SUBSET ExtIRQ, WriteIser(S) \/ WriteIcer(S) PROVE PendingAgree'
      BY <3>1 DEF WriteIser, WriteIcer, pendVars
    <3>2. ASSUME NEW S \in SUBSET ExtIRQ, WriteIspr(S) \/ WriteIcpr(S) PROVE PendingAgree'
      BY <3>2 DEF WriteIspr, WriteIcpr
    <3>3. ASSUME NEW S \in SUBSET {PendSV, SysTick}, NEW C \in SUBSET {PendSV, SysTick},
                 WriteIcsr(S, C)
          PROVE  PendingAgree'
      BY <2>1, <3>3 DEF WriteIcsr
    <3>4. ASSUME NEW i \in ExtIRQ, WriteStir(i) PROVE PendingAgree'
      BY <3>4 DEF WriteStir, pendVars
    <3> QED
      BY <2>6, <3>1, <3>2, <3>3, <3>4 DEF NvicWrite
  <2>7. CASE ScbWrite
    BY <2>7 DEF ScbWrite, WritePriority, WriteAircr, WriteFlag, pendVars
  <2>8. CASE CoreInsn
    BY <2>8 DEF CoreInsn, Nop, Cps, FpuInsn, Wfi, Wfe, Sev, MsrBasepri, MsrBasepriMax,
       MsrControl, pendVars
  <2>9. CASE RaiseDeferred
    BY <2>9, <2>3 DEF RaiseDeferred
  <2>10. CASE Deliver
    BY <2>10, <2>2 DEF Deliver, TakeException, Enter, pendVars
  <2>11. CASE Peripherals
    BY <2>1, <2>11 DEF Peripherals, Raise
  <2>12. CASE Driver
    BY <2>12, <2>2 DEF Driver, Wake, TakeNext, ResetCpu, SetDeliverIrqs, pendVars
  <2>13. CASE UNCHANGED vars
    BY <2>13 DEF vars, pendVars
  <2> QED
    BY <2>5, <2>6, <2>7, <2>8, <2>9, <2>10, <2>11, <2>12, <2>13 DEF Next, Firmware
<1> QED
  BY <1>1, <1>2, InitType, NextType, PTL DEF Spec

-----------------------------------------------------------------------------
(* Nesting *)

Strict(stk) ==
    \A i, j \in 1..Len(stk) : i < j => Group(stk[j].irq) < Group(stk[i].irq)

\* Entering above what runs keeps a stack strict, ...
LEMMA StrictAppend ==
    ASSUME ConfigTypeOK, NEW stk \in Seq(Entry), Strict(stk),
           NEW x \in Entry, Group(x.irq) < ExecutionPriority(stk)
    PROVE  Strict(Append(stk, x))
<1> DEFINE n == Len(stk)
<1> DEFINE new == Append(stk, x)
<1>1. /\ n \in Nat /\ Len(new) = n + 1 /\ new[n + 1] = x
      /\ \A i \in 1..n : new[i] = stk[i] /\ stk[i] \in Entry
  OBVIOUS
<1>2. \A y \in Entry : Group(y.irq) \in Int
  BY GroupInt DEF Entry
<1>3. SUFFICES ASSUME NEW i \in 1..(n + 1), NEW j \in 1..(n + 1), i < j
               PROVE  Group(new[j].irq) < Group(new[i].irq)
  BY <1>1 DEF Strict
<1>4. i \in 1..n /\ new[i] = stk[i] /\ stk[i] \in Entry
  BY <1>1, <1>3
<1>5. CASE j \in 1..n
  BY <1>1, <1>3, <1>4, <1>5 DEF Strict
<1>6. CASE j = n + 1
  <2>1. stk # <<>> /\ stk[n] \in Entry /\ n \in 1..n
    BY <1>1, <1>4
  <2>2. Group(x.irq) < Group(stk[n].irq)
    BY <2>1 DEF ExecutionPriority, Top
  <2>3. i = n \/ Group(stk[n].irq) < Group(stk[i].irq)
    BY <1>1, <1>4, <2>1 DEF Strict
  <2>4. Group(x.irq) < Group(stk[i].irq)
    <3>1. Group(x.irq) \in Int /\ Group(stk[n].irq) \in Int /\ Group(stk[i].irq) \in Int
      BY <1>2, <1>4, <2>1
    <3> QED BY <2>2, <2>3, <3>1
  <2> QED
    BY <1>1, <1>4, <1>6, <2>4
<1> QED
  BY <1>1, <1>3, <1>5, <1>6

\* ... and so does returning from the top of it.
LEMMA StrictPop ==
    ASSUME NEW stk \in Seq(Entry), stk # <<>>, Strict(stk)
    PROVE  Strict(Pop(stk))
<1>1. /\ Len(stk) \in Nat /\ Len(Pop(stk)) = Len(stk) - 1
      /\ \A i \in 1..Len(Pop(stk)) : Pop(stk)[i] = stk[i]
  BY PopLemma
<1> QED
  BY <1>1 DEF Strict

\* Whether a stack is strict depends on the priorities and on nothing else.
LEMMA StrictPrimed ==
    ASSUME UNCHANGED <<prio, prigroup>>, Strict(excStack')
    PROVE  StrictNesting'
BY DEF Strict, StrictNesting, Group

\* A fresh entry above a strict stack.
LEMMA TakeStrict ==
    ASSUME TypeOK, UNCHANGED <<prio, prigroup>>, NEW core, CoreOK(core), Strict(core.stack),
           NEW e \in Exc, Group(e) < ExecutionPriority(core.stack), TakeException(e, core)
    PROVE  StrictNesting'
<1> DEFINE entry == [irq |-> e, fpExt |-> fpca]
<1>1. entry \in Entry /\ entry.irq = e /\ core.stack \in Seq(Entry)
  BY DEF Entry, TypeOK, ConfigTypeOK, CoreOK, CoreType
<1>2. excStack' = Append(core.stack, entry)
  BY DEF TakeException, Enter
<1>3. Strict(Append(core.stack, entry))
  <2> HIDE DEF entry
  <2> QED BY <1>1, StrictAppend DEF TypeOK
<1> QED
  BY <1>2, <1>3, StrictPrimed

\* A synchronous raise enters only above what runs, or escalates, or halts.
LEMMA RaiseStrict ==
    ASSUME TypeOK, UNCHANGED <<prio, prigroup>>, NEW core, CoreOK(core), Strict(core.stack),
           NEW e \in Exc, RaiseSync(e, core)
    PROVE  StrictNesting'
<1>1. HardFault \in Exc
  BY DEF Exc, SysExc
<1>2. \A x \in Exc : ~Blocked(x, core) => Group(x) < ExecutionPriority(core.stack)
  <2>1. \A x \in Exc : Group(x) \in Int
    BY GroupInt DEF TypeOK
  <2>2. ExecutionPriority(core.stack) \in Int
    <3>1. core.stack # <<>> => Top(core.stack) \in Entry
      BY DEF Top, CoreOK, CoreType
    <3> QED BY <2>1, <3>1 DEF ExecutionPriority, Entry
  <2> QED
    BY <2>1, <2>2 DEF Blocked
<1>3. CASE Halt(core)
  BY <1>3, StrictPrimed DEF Halt
<1> QED
  BY <1>1, <1>2, <1>3, TakeStrict DEF RaiseSync

\* A return pops the top entry and may tail-chain or raise above the rest.
LEMMA ReturnStrict ==
    ASSUME TypeInv, StrictNesting, NEW v \in ExcReturn, ExceptionReturn(v)
    PROVE  StrictNesting'
<1>1. UNCHANGED <<prio, prigroup>> /\ Strict(excStack) /\ TypeOK
  BY DEF ExceptionReturn, cfgVars, Strict, StrictNesting, TypeInv
<1>2. ASSUME NEW core, CoreOK(core), Strict(core.stack), RaiseInvpc(core) PROVE StrictNesting'
  BY <1>1, <1>2, RaiseStrict, FaultTargets DEF RaiseInvpc
<1>3. CASE RaiseInvpc(Core)
  BY <1>1, <1>2, <1>3, CoreTyped DEF Core
<1>4. CASE excStack # <<>>
  <2>1. CoreOK(Popped) /\ CoreOK(Unstacked) /\ Top(excStack) \in Entry
    BY <1>4, PoppedTyped
  <2>2. Strict(Popped.stack) /\ Strict(Unstacked.stack)
    BY <1>1, <1>4, StrictPop DEF Popped, Unstacked, TypeOK, EngineTypeOK
  <2>3. ASSUME NEW e \in pending, Selected(e, Popped.stack),
               EnterChained(e, Popped, Top(excStack).fpExt)
        PROVE  StrictNesting'
    <3> DEFINE entry == [irq |-> e, fpExt |-> Top(excStack).fpExt]
    <3>1. entry \in Entry /\ entry.irq = e
      BY <1>1, <2>1 DEF Entry, TypeOK, EngineTypeOK
    <3>2. excStack' = Append(Popped.stack, entry)
      BY <2>3 DEF EnterChained, Enter
    <3>3. Strict(Append(Popped.stack, entry))
      <4>1. Group(e) < ExecutionPriority(Popped.stack)
        BY <2>3 DEF Selected, Deliverable
      <4>2. Popped.stack \in Seq(Entry)
        BY <2>1 DEF CoreOK, CoreType
      <4> HIDE DEF entry
      <4> QED BY <1>1, <2>2, <3>1, <4>1, <4>2, StrictAppend DEF TypeOK
    <3> QED
      BY <1>1, <3>2, <3>3, StrictPrimed
  <2>4. CASE Unstack(v)
    BY <1>1, <2>2, <2>4, StrictPrimed DEF Unstack
  <2>5. CASE RaiseInvpc(Abandoned(Popped)) \/ RaiseInvpc(Abandoned(Unstacked))
    BY <1>1, <1>2, <2>1, <2>2, <2>5, AbandonedTyped DEF Abandoned
  <2> QED
    BY <1>3, <1>4, <2>3, <2>4, <2>5 DEF ExceptionReturn
<1> QED
  BY <1>3, <1>4 DEF ExceptionReturn

\* Firmware may reprogram any priority but a running handler's.
LEMMA WriteStrict ==
    ASSUME TypeInv, StrictNesting, ScbWrite
    PROVE  StrictNesting'
<1>1. ASSUME NEW p \in PrioWrites, WritePriority(p[1], p[2]) PROVE StrictNesting'
  <2>1. excStack' = excStack /\ prigroup' = prigroup
    BY <1>1 DEF WritePriority, excVars
  <2>2. \A i \in 1..Len(excStack) : prio'[excStack[i].irq] = prio[excStack[i].irq]
    <3>1. \A i \in 1..Len(excStack) : excStack[i].irq # p[1]
      BY <1>1 DEF WritePriority
    <3>2. \A i \in 1..Len(excStack) : excStack[i] \in Entry
      BY DEF TypeInv, TypeOK, EngineTypeOK
    <3>3. \A x \in Exc : x # p[1] => prio'[x] = prio[x]
      BY <1>1 DEF WritePriority, TypeInv, TypeOK, ConfigTypeOK
    <3> QED
      BY <3>1, <3>2, <3>3 DEF Entry
  <2> QED
    BY <2>1, <2>2 DEF StrictNesting, Group
<1>2. ASSUME NEW g \in PriGroup, WriteAircr(g) PROVE StrictNesting'
  BY <1>2 DEF WriteAircr, excVars, StrictNesting
<1>3. ASSUME NEW f \in FlagWrites, WriteFlag(f) PROVE StrictNesting'
  BY <1>3 DEF WriteFlag, excVars, StrictNesting, Group
<1> QED
  BY <1>1, <1>2, <1>3 DEF ScbWrite

\* StrictNesting is inductive relative to the type invariant.
LEMMA NextStrict == TypeInv /\ StrictNesting /\ [Next]_vars => StrictNesting'
<1> SUFFICES ASSUME TypeInv, StrictNesting, [Next]_vars PROVE StrictNesting'
  OBVIOUS
<1>1. ASSUME UNCHANGED <<excStack, prio, prigroup>> PROVE StrictNesting'
  BY <1>1 DEF StrictNesting, Group
<1>2. Strict(excStack) /\ CoreOK(Core) /\ Core.stack = excStack /\ TypeOK
  BY CoreTyped DEF Strict, StrictNesting, Core, TypeInv
<1>3. ASSUME NEW e \in Exc, RaiseSync(e, Core), UNCHANGED cfgVars PROVE StrictNesting'
  BY <1>2, <1>3, RaiseStrict DEF cfgVars
<1>4. CASE HandlerReturns \/ ForgedReturn
  BY <1>4, ReturnStrict DEF HandlerReturns, ForgedReturn, TypeInv, TypeOK, EngineTypeOK
<1>5. CASE Svc \/ UsageTrap \/ FetchFault \/ RaiseDeferred
  BY <1>3, <1>5, FaultTargets DEF Svc, UsageTrap, FetchFault, RaiseDeferred
<1>6. CASE Undefined \/ DataAbort
  BY <1>1, <1>6 DEF Undefined, DataAbort, cfgVars, excVars
<1>7. CASE NvicWrite
  BY <1>1, <1>7 DEF NvicWrite, WriteIser, WriteIcer, WriteIspr, WriteIcpr, WriteIcsr, WriteStir,
     cfgVars, excVars
<1>8. CASE CoreInsn
  BY <1>1, <1>8 DEF CoreInsn, Nop, Cps, FpuInsn, Wfi, Wfe, Sev, MsrBasepri, MsrBasepriMax,
     MsrControl, cfgVars, excVars
<1>9. CASE Deliver
  <2>1. UNCHANGED cfgVars
    BY <1>9 DEF Deliver
  <2>2. CASE deliverIrqs /\ Deliverable(excStack) # {}
    <3>1. PICK e \in pending : Selected(e, excStack) /\ TakeException(e, Core)
      BY <1>9, <2>2 DEF Deliver
    <3>2. e \in Exc /\ Group(e) < ExecutionPriority(Core.stack)
      BY <1>2, <3>1 DEF Selected, Deliverable, TypeOK, EngineTypeOK
    <3> QED
      BY <1>2, <2>1, <3>1, <3>2, TakeStrict DEF cfgVars
  <2>3. CASE ~(deliverIrqs /\ Deliverable(excStack) # {})
    BY <1>1, <1>9, <2>1, <2>3 DEF Deliver, excVars, cfgVars
  <2> QED
    BY <2>2, <2>3
<1>10. CASE Peripherals
  BY <1>1, <1>10 DEF Peripherals, Raise, cfgVars, excVars
<1>11. CASE ResetCpu
  BY <1>11 DEF ResetCpu, StrictNesting
<1>12. CASE Wake \/ TakeNext \/ \E b \in BOOLEAN : SetDeliverIrqs(b)
  BY <1>1, <1>12 DEF Wake, TakeNext, SetDeliverIrqs, cfgVars, excVars
<1>13. CASE UNCHANGED vars
  BY <1>1, <1>13 DEF vars, cfgVars, excVars
<1> QED
  BY <1>4, <1>5, <1>6, <1>7, <1>8, <1>9, <1>10, <1>11, <1>12, <1>13, WriteStrict
     DEF Next, Firmware, SystemInsn, Driver

\* Whatever fault, escalation, tail-chain, forged return or reset occurs, handlers
\* nest strictly by group priority; so none of them preempts itself.
THEOREM NestingIsStrict == Spec => []StrictNesting
<1>1. Init => StrictNesting
  BY DEF Init, StrictNesting
<1> QED
  BY <1>1, InitType, NextType, NextStrict, PTL DEF Spec

-----------------------------------------------------------------------------
(* The kinds of step.  Whatever else it does, a step leaves the exception     *)
(* stack alone, or it is one of a few.                                       *)

\* The engine does not move, and no instruction has entered a handler.
Still ==
    /\ UNCHANGED <<excVars, npriv, cfsr>>
    /\ fault' \in {fault, TRUE}
    /\ ~(at = "fetch" /\ at' = "deliver" /\ entered')

\* Delivery takes the most urgent exception, ...
Delivers ==
    /\ at = "deliver" /\ UNCHANGED <<cfgVars, cfsr>>
    /\ \E e \in pending : Selected(e, excStack) /\ TakeException(e, Core)

\* ... an instruction or a deferred fault raises one, ...
SyncExc == {HardFault, MemManage, BusFault, UsageFault, SVCall}
Raises ==
    /\ UNCHANGED cfgVars /\ cfsr' \subseteq cfsr \cup ((0..31) \ {InvpcBit})
    /\ ~fault /\ at = "fetch" /\ (fault' => at' = "fetch")
    /\ \E e \in SyncExc : RaiseSync(e, Core)

\* ... or a handler returns: by its link, if firmware does not forge another.
Returns ==
    \E v \in ExcReturn :
        ExceptionReturn(v) /\ ("forge" \in GuestOps \/ (v = lr /\ ipsr # 0))

\* One of them is what a step does; CONTROL, the polling driver and a reset apart.
LEMMA Steps ==
    ASSUME TypeInv, [Next]_vars
    PROVE  \/ Still \/ Delivers \/ Raises \/ Returns
           \/ (\E np \in BOOLEAN : MsrControl(np)) \/ TakeNext \/ ResetCpu
<1> USE DEF Still
<1>1. CASE HandlerReturns \/ ForgedReturn
  BY <1>1 DEF HandlerReturns, ForgedReturn, Returns, TypeInv, TypeOK, EngineTypeOK
<1>2. CASE Undefined \/ DataAbort
  BY <1>2 DEF Undefined, DataAbort, cfgVars
<1>3. CASE Svc \/ UsageTrap \/ FetchFault \/ RaiseDeferred
  <2>1. SVCall \in SyncExc /\ UsageTarget \in SyncExc
        /\ FaultTarget(MemManage, "MEMFAULTENA") \in SyncExc
        /\ FaultTarget(BusFault, "BUSFAULTENA") \in SyncExc
    BY DEF UsageTarget, FaultTarget, SyncExc
  <2>2. \E e \in SyncExc : RaiseSync(e, Core)
    BY <1>3, <2>1 DEF Svc, UsageTrap, FetchFault, RaiseDeferred
  <2>3. UNCHANGED cfgVars /\ ~fault /\ at = "fetch" /\ (fault' => at' = "fetch")
    BY <1>3 DEF Svc, UsageTrap, FetchFault, RaiseDeferred, Fetching, EndInstruction
  <2>4. cfsr' \subseteq cfsr \cup ((0..31) \ {InvpcBit})
    BY <1>3 DEF Svc, UsageTrap, FetchFault, RaiseDeferred, InvpcBit
  <2> QED BY <2>2, <2>3, <2>4 DEF Raises
<1>4. CASE NvicWrite
  BY <1>4 DEF NvicWrite, WriteIser, WriteIcer, WriteIspr, WriteIcpr, WriteIcsr, WriteStir, Executes, cfgVars
<1>5. CASE ScbWrite
  BY <1>5 DEF ScbWrite, WritePriority, WriteAircr, WriteFlag, Executes
<1>6. CASE CoreInsn
  BY <1>6 DEF CoreInsn, Nop, Cps, FpuInsn, Wfi, Wfe, Sev, MsrBasepri, MsrBasepriMax, Executes, cfgVars
<1>7. CASE Deliver
  BY <1>7 DEF Deliver, Delivers, cfgVars
<1>8. CASE Peripherals
  BY <1>8 DEF Peripherals, Raise, cfgVars
<1>9. CASE Driver
  BY <1>9 DEF Driver, Wake, SetDeliverIrqs, cfgVars
<1>10. CASE UNCHANGED vars
  BY <1>10 DEF vars, cfgVars
<1> QED
  BY <1>1, <1>2, <1>3, <1>4, <1>5, <1>6, <1>7, <1>8, <1>9, <1>10 DEF Next, Firmware, SystemInsn

-----------------------------------------------------------------------------
(* Active bits *)

Irqs(stk) == {stk[i].irq : i \in 1..Len(stk)}

\* What entering adds to a stack, ...
LEMMA IrqsAppend ==
    ASSUME NEW stk \in Seq(Entry), NEW x \in Entry
    PROVE  /\ Irqs(Append(stk, x)) = Irqs(stk) \cup {x.irq}
           /\ Append(stk, x) # <<>> /\ Top(Append(stk, x)) = x
<1> DEFINE new == Append(stk, x)
<1>1. /\ Len(stk) \in Nat /\ Len(new) = Len(stk) + 1 /\ new[Len(stk) + 1] = x
      /\ \A i \in 1..Len(stk) : new[i] = stk[i]
  OBVIOUS
<1>2. 1..Len(new) = 1..Len(stk) \cup {Len(stk) + 1}
  BY <1>1
<1>3. new # <<>> /\ Top(new) = x
  BY <1>1 DEF Top
<1>4. Irqs(new) = Irqs(stk) \cup {x.irq}
  <2> HIDE DEF new
  <2> QED BY <1>1, <1>2 DEF Irqs
<1> QED
  BY <1>3, <1>4

\* ... and what returning takes away from one that is strict.
LEMMA IrqsPop ==
    ASSUME ConfigTypeOK, NEW stk \in Seq(Entry), stk # <<>>, Strict(stk)
    PROVE  Irqs(Pop(stk)) = Irqs(stk) \ {Top(stk).irq} /\ Top(stk).irq \in Irqs(stk)
<1> DEFINE n == Len(stk)
<1>1. /\ n \in Nat \ {0} /\ Len(Pop(stk)) = n - 1
      /\ \A i \in 1..(n - 1) : Pop(stk)[i] = stk[i]
      /\ \A i \in 1..n : stk[i] \in Entry
  BY PopLemma
<1>2. \A i \in 1..n : Group(stk[i].irq) \in Int
  BY <1>1, GroupInt DEF Entry
<1>3. \A i \in 1..(n - 1) : stk[i].irq # stk[n].irq
  BY <1>1, <1>2 DEF Strict
<1>4. 1..n = 1..(n - 1) \cup {n} /\ n \in 1..n
  BY <1>1
<1>5. Top(stk) = stk[n]
  BY DEF Top
<1>6. Irqs(stk) = {stk[i].irq : i \in 1..n}
  BY DEF Irqs
<1>7. Irqs(Pop(stk)) = {stk[i].irq : i \in 1..(n - 1)}
  BY <1>1 DEF Irqs
<1> HIDE DEF n
<1>8. Irqs(stk) = Irqs(Pop(stk)) \cup {stk[n].irq}
  BY <1>4, <1>6, <1>7
<1> QED
  BY <1>3, <1>5, <1>7, <1>8

ActiveOK(core) == core.active = Irqs(core.stack) \cap ActiveBits

\* A fresh entry sets the bit of what it puts on the stack.
LEMMA TakeActive ==
    ASSUME TypeOK, NEW core, CoreOK(core), ActiveOK(core), NEW e \in Exc, TakeException(e, core)
    PROVE  ActiveAgree'
<1>1. [irq |-> e, fpExt |-> fpca] \in Entry /\ core.stack \in Seq(Entry)
  BY DEF Entry, TypeOK, ConfigTypeOK, CoreOK, CoreType
<1>2. Irqs(excStack') = Irqs(core.stack) \cup {e}
  BY <1>1, IrqsAppend DEF TakeException, Enter
<1> QED
  BY <1>2 DEF TakeException, Enter, ActiveOK, ActiveAgree, Irqs

\* So does a synchronous raise, and a halt leaves bits and stack as they are.
LEMMA RaiseActive ==
    ASSUME TypeOK, NEW core, CoreOK(core), ActiveOK(core), NEW e \in Exc, RaiseSync(e, core)
    PROVE  ActiveAgree'
<1>1. HardFault \in Exc
  BY DEF Exc, SysExc
<1>2. CASE Halt(core)
  BY <1>2 DEF Halt, ActiveOK, ActiveAgree, Irqs
<1> QED
  BY <1>1, <1>2, TakeActive DEF RaiseSync

\* A return clears the bit of what it pops, and a tail-chain sets another.
LEMMA ReturnActive ==
    ASSUME TypeInv, StrictNesting, ActiveAgree, NEW v \in ExcReturn, ExceptionReturn(v)
    PROVE  ActiveAgree'
<1>1. ActiveOK(Core) /\ CoreOK(Core) /\ TypeOK
  BY CoreTyped DEF ActiveOK, Core, ActiveAgree, Irqs, TypeInv
<1>2. ASSUME NEW core, CoreOK(core), ActiveOK(core), RaiseInvpc(core) PROVE ActiveAgree'
  BY <1>1, <1>2, RaiseActive, FaultTargets DEF RaiseInvpc
<1>3. CASE excStack # <<>>
  <2>1. CoreOK(Popped) /\ CoreOK(Unstacked) /\ Top(excStack) \in Entry
    BY <1>3, PoppedTyped
  <2>2. ActiveOK(Popped) /\ ActiveOK(Unstacked)
    <3>1. Irqs(Pop(excStack)) = Irqs(excStack) \ {Top(excStack).irq}
      BY <1>3, IrqsPop DEF Strict, StrictNesting, TypeInv, TypeOK, EngineTypeOK
    <3>2. active = Irqs(excStack) \cap ActiveBits
      BY DEF ActiveAgree, Irqs
    <3>3. /\ Popped.stack = Pop(excStack) /\ Popped.active = active \ {Top(excStack).irq}
          /\ Unstacked.stack = Popped.stack /\ Unstacked.active = Popped.active
      BY DEF Popped, Unstacked
    <3> QED BY <3>1, <3>2, <3>3 DEF ActiveOK
  <2>3. ASSUME NEW e \in pending, EnterChained(e, Popped, Top(excStack).fpExt) PROVE ActiveAgree'
    <3> DEFINE entry == [irq |-> e, fpExt |-> Top(excStack).fpExt]
    <3>1. entry \in Entry /\ entry.irq = e /\ Popped.stack \in Seq(Entry)
      BY <1>1, <2>1 DEF Entry, TypeOK, EngineTypeOK, CoreOK, CoreType
    <3>2. excStack' = Append(Popped.stack, entry) /\ active' = Popped.active \cup ({e} \cap ActiveBits)
      BY <2>3 DEF EnterChained, Enter
    <3>3. Irqs(excStack') = Irqs(Popped.stack) \cup {e}
      <4> HIDE DEF entry
      <4> QED BY <3>1, <3>2, IrqsAppend
    <3> QED
      BY <2>2, <3>2, <3>3 DEF ActiveOK, ActiveAgree, Irqs
  <2>4. CASE Unstack(v)
    BY <2>2, <2>4 DEF Unstack, ActiveOK, ActiveAgree, Irqs
  <2>5. CASE RaiseInvpc(Abandoned(Popped)) \/ RaiseInvpc(Abandoned(Unstacked))
    <3>1. ActiveOK(Abandoned(Popped)) /\ ActiveOK(Abandoned(Unstacked))
      BY <2>2 DEF Abandoned, ActiveOK
    <3> QED BY <1>1, <1>2, <2>1, <2>5, <3>1, AbandonedTyped
  <2> QED
    BY <1>1, <1>2, <1>3, <2>3, <2>4, <2>5 DEF ExceptionReturn
<1> QED
  BY <1>1, <1>2, <1>3 DEF ExceptionReturn

\* The active bits agree with the stack after any step of a core that delivers its own
\* interrupts: a driver that takes them sets bits of no handler, and Cpu::reset empties
\* the stack and leaves the NVIC as it was.
NoPolling == "takenext" \notin DriverOps
NoReset == "reset" \notin DriverOps

\* Nothing but a handler of the stack is active after a step of the engine, of firmware or of a driver.
LEMMA NextActive ==
    ASSUME NoPolling, NoReset
    PROVE  TypeInv /\ StrictNesting /\ ActiveAgree /\ [Next]_vars => ActiveAgree'
<1> SUFFICES ASSUME TypeInv, StrictNesting, ActiveAgree, [Next]_vars PROVE ActiveAgree'
  OBVIOUS
<1>1. ActiveOK(Core) /\ CoreOK(Core) /\ TypeOK
  BY CoreTyped DEF ActiveOK, Core, ActiveAgree, Irqs, TypeInv
<1>2. CASE Still
  BY <1>2 DEF Still, excVars, ActiveAgree
<1>3. CASE Delivers
  BY <1>1, <1>3, TakeActive DEF Delivers, TypeOK, EngineTypeOK
<1>4. CASE Raises
  BY <1>1, <1>4, RaiseActive DEF Raises, SyncExc, Exc, SysExc
<1>5. CASE Returns
  BY <1>5, ReturnActive DEF Returns
<1>6. CASE \E np \in BOOLEAN : MsrControl(np)
  BY <1>6 DEF MsrControl, ActiveAgree
<1>7. ~TakeNext /\ ~ResetCpu
  BY DEF NoPolling, NoReset, TakeNext, ResetCpu
<1> QED
  BY <1>2, <1>3, <1>4, <1>5, <1>6, <1>7, Steps

\* Whatever nests, faults, chains or returns, forged or not: IABR and SHCSR show the
\* exceptions on the stack and no others.
THEOREM ActiveBitsHonest ==
    ASSUME NoPolling, NoReset
    PROVE  Spec => []ActiveAgree
<1>1. Init => ActiveAgree
  BY DEF Init, ActiveAgree
<1> QED
  BY <1>1, InitType, NextType, NestingIsStrict, NextActive, PTL DEF Spec

-----------------------------------------------------------------------------
(* Frames and mode *)

\* Whatever values firmware returns through, a handler has a frame to return to.
COROLLARY FramesSuffice == Spec => []FramesCover
BY TypeCorrect, PTL

\* IPSR is zero for no exception.
LEMMA VectorNotZero == \A e \in Exc : 16 + e \in Int /\ 16 + e # 0
BY ExtIRQAssumption DEF Exc, SysExc, NMI, HardFault, MemManage, BusFault, UsageFault, SVCall, PendSV, SysTick

\* Entering a handler puts the core in the mode of that handler.
LEMMA TakeMode ==
    ASSUME TypeOK, NEW core, CoreOK(core), NEW e \in Exc, TakeException(e, core)
    PROVE  ModeAgree'
<1>1. [irq |-> e, fpExt |-> fpca] \in Entry /\ core.stack \in Seq(Entry)
  BY DEF Entry, TypeOK, ConfigTypeOK, CoreOK, CoreType
<1>2. excStack' # <<>> /\ Top(excStack').irq = e
  BY <1>1, IrqsAppend DEF TakeException, Enter
<1> QED
  BY <1>2 DEF TakeException, Enter, Vector, ModeAgree, Top

\* A raise enters a handler or stops the core.
LEMMA RaiseMode ==
    ASSUME TypeOK, NEW core, CoreOK(core), NEW e \in Exc, RaiseSync(e, core)
    PROVE  ModeAgree'
<1>1. HardFault \in Exc
  BY DEF Exc, SysExc
<1> QED
  BY <1>1, TakeMode DEF RaiseSync, Halt, ModeAgree

\* A return is into the handler below or, when there is none, into thread mode.
LEMMA ReturnMode ==
    ASSUME TypeInv, NEW v \in ExcReturn, ExceptionReturn(v)
    PROVE  ModeAgree'
<1>1. CoreOK(Core) /\ TypeOK
  BY CoreTyped DEF TypeInv
<1>2. ASSUME NEW core, CoreOK(core), RaiseInvpc(core) PROVE ModeAgree'
  BY <1>1, <1>2, RaiseMode, FaultTargets DEF RaiseInvpc
<1>3. CASE excStack # <<>>
  <2>1. CoreOK(Popped) /\ CoreOK(Unstacked) /\ Top(excStack) \in Entry
    BY <1>3, PoppedTyped
  <2>2. ASSUME NEW e \in pending, EnterChained(e, Popped, Top(excStack).fpExt) PROVE ModeAgree'
    <3> DEFINE entry == [irq |-> e, fpExt |-> Top(excStack).fpExt]
    <3>1. entry \in Entry /\ entry.irq = e /\ Popped.stack \in Seq(Entry)
      BY <1>1, <2>1 DEF Entry, TypeOK, EngineTypeOK, CoreOK, CoreType
    <3>2. excStack' = Append(Popped.stack, entry)
      BY <2>2 DEF EnterChained, Enter
    <3>3. excStack' # <<>> /\ Top(excStack').irq = e
      <4> HIDE DEF entry
      <4> QED BY <3>1, <3>2, IrqsAppend
    <3> QED
      BY <2>2, <3>3 DEF EnterChained, Enter, Vector, ModeAgree, Top
  <2>3. ASSUME Unstack(v), v.handler = (Popped.stack # <<>>), UNCHANGED npriv PROVE ModeAgree'
    <3>1. Unstacked.stack = Popped.stack
      BY DEF Unstacked
    <3> QED
      BY <2>3, <3>1 DEF Unstack, RestoredIpsr, RestoredPrivilege, Vector, ModeAgree, Top
  <2>4. CASE RaiseInvpc(Abandoned(Popped)) \/ RaiseInvpc(Abandoned(Unstacked))
    BY <1>1, <1>2, <2>1, <2>4, AbandonedTyped
  <2>5. v.handler \in BOOLEAN /\ UNCHANGED npriv
    BY DEF ExcReturn, ExceptionReturn, cfgVars
  <2> QED
    BY <1>1, <1>2, <1>3, <2>2, <2>3, <2>4, <2>5 DEF ExceptionReturn
<1> QED
  BY <1>1, <1>2, <1>3 DEF ExceptionReturn

\* The mode follows the stack after every step but a reset, which leaves in_interrupt.
LEMMA NextMode ==
    ASSUME NoReset
    PROVE  TypeInv /\ ModeAgree /\ [Next]_vars => ModeAgree'
<1> SUFFICES ASSUME TypeInv, ModeAgree, [Next]_vars PROVE ModeAgree'
  OBVIOUS
<1>1. CoreOK(Core) /\ TypeOK
  BY CoreTyped DEF TypeInv
<1>2. CASE Still
  <2>1. UNCHANGED <<excStack, ipsr, inInterrupt, privileged, npriv>> /\ (~fault' => ~fault)
    <3>1. fault' = fault \/ fault' = TRUE
      BY <1>2 DEF Still
    <3> QED BY <1>2, <3>1 DEF Still, excVars
  <2> QED
    BY <2>1 DEF ModeAgree, Top
<1>3. CASE Delivers
  BY <1>1, <1>3, TakeMode DEF Delivers, TypeOK, EngineTypeOK
<1>4. CASE Raises
  BY <1>1, <1>4, RaiseMode DEF Raises, SyncExc, Exc, SysExc
<1>5. CASE Returns
  BY <1>5, ReturnMode DEF Returns
<1>6. ASSUME NEW np \in BOOLEAN, MsrControl(np) PROVE ModeAgree'
  <2>1. excStack # <<>> => Top(excStack).irq \in Exc
    BY PoppedTyped DEF Entry
  <2>2. ~fault => (ipsr # 0 <=> excStack # <<>>)
    BY <2>1, VectorNotZero DEF ModeAgree
  <2>3. UNCHANGED <<fault, ipsr, inInterrupt, excStack>> /\ privileged' = (ipsr # 0 \/ ~npriv')
    BY <1>6 DEF MsrControl, Executes
  <2> QED
    BY <2>2, <2>3 DEF ModeAgree
<1>7. CASE TakeNext
  BY <1>7 DEF TakeNext, ModeAgree, cfgVars
<1>8. ~ResetCpu
  BY DEF NoReset, ResetCpu
<1> QED
  BY <1>2, <1>3, <1>4, <1>5, <1>6, <1>7, <1>8, Steps

\* Whatever nests, faults, chains or returns, forged or not: a running core shows the
\* IPSR, the in_interrupt flag and the privilege of the handler on top of its stack.
THEOREM ModeFollowsStack ==
    ASSUME NoReset
    PROVE  Spec => []ModeAgree
<1>1. Init => ModeAgree
  BY DEF Init, ModeAgree
<1> QED
  BY <1>1, InitType, NextType, NextMode, PTL DEF Spec

-----------------------------------------------------------------------------
(* The way back *)

\* Firmware returns through the value its entry gave it, and not below another handler.
Unforged == "forge" \notin GuestOps
NoThreadEntry == "NONBASETHRDENA" \notin FlagWrites

\* Link registers lead back through a stack, level by level.
Linked(stk, frm, link) ==
    /\ Len(frm) = Len(stk)
    /\ stk # <<>> => link = Link(stk, Len(stk))
    /\ \A i \in 2..Len(stk) : frm[i] = Link(stk, i - 1)

\* Linkage is inductive with what it takes for a return to be accepted.
LinkInv ==
    /\ ReturnLinkage
    /\ ipsr # 0 <=> excStack # <<>>
    /\ "NONBASETHRDENA" \notin flags

\* A frame on top of a linked stack leads to the handler that was interrupted.
LEMMA LinkedAppend ==
    ASSUME NEW stk \in Seq(Entry), NEW frm \in Seq(ExcReturn), NEW link \in ExcReturn,
           NEW x \in Entry, Linked(stk, frm, link)
    PROVE  Linked(Append(stk, x), Append(frm, link), [handler |-> stk # <<>>, ext |-> x.fpExt])
<1> DEFINE n == Len(stk)
<1> DEFINE new == Append(stk, x)
<1> DEFINE fnew == Append(frm, link)
<1>1. /\ n \in Nat /\ Len(new) = n + 1 /\ new[n + 1] = x /\ \A i \in 1..n : new[i] = stk[i]
      /\ Len(fnew) = n + 1 /\ fnew[n + 1] = link /\ \A i \in 1..n : fnew[i] = frm[i]
      /\ stk # <<>> <=> n > 0
  BY DEF Linked
<1>2. Link(new, n + 1) = [handler |-> stk # <<>>, ext |-> x.fpExt]
  BY <1>1 DEF Link
<1>3. ASSUME NEW i \in 2..(n + 1) PROVE fnew[i] = Link(new, i - 1)
  <2>1. i - 1 \in 1..n /\ new[i - 1] = stk[i - 1]
    BY <1>1
  <2>2. Link(new, i - 1) = Link(stk, i - 1)
    BY <2>1 DEF Link
  <2>3. CASE i = n + 1
    BY <1>1, <2>1, <2>2, <2>3 DEF Linked
  <2>4. CASE i \in 2..n
    BY <1>1, <2>2, <2>4 DEF Linked
  <2> QED BY <1>1, <2>3, <2>4
<1>4. Linked(new, fnew, [handler |-> stk # <<>>, ext |-> x.fpExt])
  <2> HIDE DEF new, fnew
  <2> QED BY <1>1, <1>2, <1>3 DEF Linked
<1> QED
  BY <1>4

\* A fresh entry links to what it interrupts, ...
LEMMA TakeLinked ==
    ASSUME TypeOK, NEW core, CoreOK(core), Linked(core.stack, core.frames, core.lr),
           core.ipsr # 0 <=> core.stack # <<>>, NEW e \in Exc, TakeException(e, core)
    PROVE  Linked(excStack', frames', lr') /\ (ipsr' # 0 <=> excStack' # <<>>)
<1> DEFINE entry == [irq |-> e, fpExt |-> fpca]
<1>1. entry \in Entry /\ entry.fpExt = fpca
  BY DEF Entry, TypeOK, ConfigTypeOK
<1>2. /\ core.stack \in Seq(Entry) /\ core.frames \in Seq(ExcReturn) /\ core.lr \in ExcReturn
  BY DEF CoreOK, CoreType
<1>3. /\ excStack' = Append(core.stack, entry) /\ frames' = Append(core.frames, core.lr)
      /\ lr' = [handler |-> core.stack # <<>>, ext |-> fpca] /\ ipsr' = 16 + e
  BY DEF TakeException, Enter, EntryLink, Vector
<1>4. excStack' # <<>> /\ ipsr' # 0
  BY <1>1, <1>2, <1>3, IrqsAppend, VectorNotZero
<1> HIDE DEF entry
<1> QED
  BY <1>1, <1>2, <1>3, <1>4, LinkedAppend

\* ... a tail-chain to what the popped handler had interrupted, over the same frames, ...
LEMMA ChainLinked ==
    ASSUME TypeInv, Linked(excStack, frames, lr), excStack # <<>>,
           NEW e \in pending, EnterChained(e, Popped, Top(excStack).fpExt)
    PROVE  Linked(excStack', frames', lr') /\ (ipsr' # 0 <=> excStack' # <<>>)
<1> DEFINE n == Len(excStack)
<1> DEFINE entry == [irq |-> e, fpExt |-> Top(excStack).fpExt]
<1>1. e \in Exc /\ Top(excStack) \in Entry /\ entry \in Entry /\ entry.fpExt = Top(excStack).fpExt
  BY PoppedTyped DEF Entry, TypeInv, TypeOK, EngineTypeOK
<1>2. /\ n \in Nat \ {0} /\ Pop(excStack) \in Seq(Entry) /\ Len(Pop(excStack)) = n - 1
      /\ \A i \in 1..(n - 1) : Pop(excStack)[i] = excStack[i]
      /\ Pop(excStack) # <<>> <=> n > 1
  BY PopLemma DEF TypeInv, TypeOK, EngineTypeOK
<1>3. /\ excStack' = Append(Pop(excStack), entry) /\ frames' = frames /\ ipsr' = 16 + e
      /\ lr' = [handler |-> Pop(excStack) # <<>>, ext |-> Top(excStack).fpExt]
  BY DEF EnterChained, Enter, ChainLink, Popped, Vector
<1> HIDE DEF entry
<1>4. /\ Len(excStack') = n /\ excStack'[n] = entry
      /\ \A i \in 1..(n - 1) : excStack'[i] = excStack[i]
  BY <1>1, <1>2, <1>3
<1>5. lr' = Link(excStack', n)
  BY <1>1, <1>2, <1>3, <1>4 DEF Link
<1>6. ASSUME NEW i \in 2..n PROVE frames'[i] = Link(excStack', i - 1)
  <2>1. i - 1 \in 1..(n - 1)
    BY <1>2
  <2> QED BY <1>3, <1>4, <2>1 DEF Linked, Link
<1> QED
  BY <1>1, <1>2, <1>3, <1>4, <1>5, <1>6, VectorNotZero DEF Linked

\* ... and unstacking restores the link of the level below.
LEMMA UnstackLinked ==
    ASSUME TypeInv, Linked(excStack, frames, lr), excStack # <<>>,
           NEW v \in ExcReturn, v.handler = (Popped.stack # <<>>), Unstack(v)
    PROVE  Linked(excStack', frames', lr') /\ (ipsr' # 0 <=> excStack' # <<>>)
<1> DEFINE n == Len(excStack)
<1>1. /\ n \in Nat \ {0} /\ Pop(excStack) \in Seq(Entry) /\ Len(Pop(excStack)) = n - 1
      /\ \A i \in 1..(n - 1) : Pop(excStack)[i] = excStack[i]
  BY PopLemma, SMTT(30) DEF TypeInv, TypeOK, EngineTypeOK
<1>2. /\ frames # <<>> /\ Len(frames) = n /\ Len(Pop(frames)) = n - 1
      /\ \A i \in 1..(n - 1) : Pop(frames)[i] = frames[i]
  <2>1. frames \in Seq(ExcReturn) /\ Len(frames) = n /\ frames # <<>>
    BY <1>1 DEF Linked, TypeInv, TypeOK, EngineTypeOK
  <2> QED BY <2>1, PopLemma
<1>3. excStack' = Pop(excStack) /\ frames' = Pop(frames) /\ lr' = frames[n]
  BY <1>2 DEF Unstack, Unstacked, Popped, Top
<1>4. excStack' # <<>> => lr' = Link(excStack', Len(excStack'))
  <2> SUFFICES ASSUME excStack' # <<>> PROVE lr' = Link(excStack', n - 1)
    BY <1>1, <1>3
  <2>1. n \in 2..n /\ n - 1 \in 1..(n - 1)
    BY <1>1, <1>3
  <2> QED BY <1>1, <1>3, <2>1 DEF Linked, Link
<1>5. ASSUME NEW i \in 2..(n - 1) PROVE frames'[i] = Link(excStack', i - 1)
  <2>1. i \in 1..(n - 1) /\ i - 1 \in 1..(n - 1) /\ i \in 2..n
    BY <1>1
  <2> QED BY <1>1, <1>2, <1>3, <2>1 DEF Linked, Link
<1>6. ipsr' # 0 <=> excStack' # <<>>
  <2>1. excStack' # <<>> => Top(excStack') \in Entry
    BY <1>1, <1>3 DEF Top
  <2>2. ipsr' = IF v.handler THEN 16 + Top(excStack').irq ELSE 0
    BY DEF Unstack, RestoredIpsr, Vector
  <2>3. v.handler = (excStack' # <<>>)
    BY DEF Unstack, Unstacked
  <2> QED BY <2>1, <2>2, <2>3, VectorNotZero DEF Entry
<1> QED
  BY <1>1, <1>2, <1>3, <1>4, <1>5, <1>6 DEF Linked

\* A return through the link value is always accepted: it chains or unstacks.
LEMMA ReturnAccepted ==
    ASSUME TypeInv, LinkInv, excStack # <<>>, ExceptionReturn(lr)
    PROVE  /\ UNCHANGED cfsr
           /\ \/ \E e \in pending : /\ Selected(e, Popped.stack)
                                    /\ EnterChained(e, Popped, Top(excStack).fpExt)
              \/ Unstack(lr) /\ lr.handler = (Popped.stack # <<>>)
<1>1. lr.handler = (Len(excStack) > 1) /\ lr.ext = Top(excStack).fpExt
  BY DEF LinkInv, ReturnLinkage, Link, Top
<1>2. Popped.stack # <<>> <=> Len(excStack) > 1
  BY PopLemma DEF Popped, TypeInv, TypeOK, EngineTypeOK
<1>3. lr.handler = (Popped.stack # <<>>) /\ lr.handler \in BOOLEAN
  BY <1>1, <1>2
<1>4. "NONBASETHRDENA" \notin flags
  BY DEF LinkInv
<1> DEFINE chains == deliverIrqs /\ fpca = Top(excStack).fpExt /\ Deliverable(Popped.stack) # {}
<1>5. CASE chains
  BY <1>1, <1>5 DEF ExceptionReturn
<1>6. CASE ~chains
  <2>1. Unstack(lr)
    BY <1>1, <1>3, <1>4, <1>6 DEF ExceptionReturn
  <2> QED BY <1>3, <2>1 DEF Unstack
<1> QED
  BY <1>5, <1>6

\* NONBASETHRDENA stays clear when nothing sets it.
LEMMA NextFlags ==
    ASSUME NoThreadEntry, "NONBASETHRDENA" \notin flags, [Next]_vars
    PROVE  "NONBASETHRDENA" \notin flags'
<1>1. CASE UNCHANGED cfgVars
  BY <1>1 DEF cfgVars
<1>2. CASE NvicWrite
  BY <1>2 DEF NvicWrite, WriteIser, WriteIcer, WriteIspr, WriteIcpr, WriteIcsr, WriteStir, cfgVars
<1>3. CASE ScbWrite
  BY <1>3 DEF NoThreadEntry, ScbWrite, WritePriority, WriteAircr, WriteFlag
<1>4. CASE CoreInsn
  BY <1>4 DEF CoreInsn, Nop, Cps, FpuInsn, Wfi, Wfe, Sev, MsrBasepri, MsrBasepriMax, MsrControl, cfgVars
<1>5. CASE Driver
  BY <1>5 DEF Driver, Wake, TakeNext, ResetCpu, SetDeliverIrqs, cfgVars
<1>6. SystemInsn \/ RaiseDeferred \/ Deliver \/ Peripherals \/ UNCHANGED vars => UNCHANGED cfgVars
  BY DEF SystemInsn, HandlerReturns, ForgedReturn, ExceptionReturn, Undefined, Svc, UsageTrap,
     DataAbort, FetchFault, RaiseDeferred, Deliver, Peripherals, Raise, vars, cfgVars
<1> QED
  BY <1>1, <1>2, <1>3, <1>4, <1>5, <1>6 DEF Next, Firmware

\* The linkage is inductive when firmware returns through the values it was given.
LEMMA NextLink ==
    ASSUME Unforged, NoThreadEntry
    PROVE  TypeInv /\ LinkInv /\ [Next]_vars => LinkInv'
<1> SUFFICES ASSUME TypeInv, LinkInv, [Next]_vars PROVE LinkInv'
  OBVIOUS
<1>1. "NONBASETHRDENA" \notin flags'
  BY NextFlags DEF LinkInv
<1>2. Linked(excStack, frames, lr) /\ InvpcBit \notin cfsr /\ (ipsr # 0 <=> excStack # <<>>)
  BY DEF LinkInv, ReturnLinkage, Linked
<1>3. ASSUME Linked(excStack', frames', lr'), InvpcBit \notin cfsr', ipsr' # 0 <=> excStack' # <<>>
      PROVE  LinkInv'
  BY <1>1, <1>3 DEF LinkInv, ReturnLinkage, Linked
<1>4. ASSUME UNCHANGED <<excStack, frames, lr, ipsr, cfsr>> PROVE LinkInv'
  BY <1>2, <1>3, <1>4
<1>5. CoreOK(Core) /\ TypeOK
  BY CoreTyped DEF TypeInv
<1>6. ASSUME NEW e \in Exc, TakeException(e, Core), InvpcBit \notin cfsr' PROVE LinkInv'
  <2>1. Linked(Core.stack, Core.frames, Core.lr) /\ (Core.ipsr # 0 <=> Core.stack # <<>>)
    BY <1>2 DEF Core
  <2> QED BY <1>3, <1>5, <1>6, <2>1, TakeLinked
<1>7. CASE Still
  BY <1>4, <1>7 DEF Still, excVars
<1>8. CASE Delivers
  BY <1>2, <1>5, <1>6, <1>8 DEF Delivers, TypeOK, EngineTypeOK
<1>9. CASE Raises
  <2>1. InvpcBit \notin cfsr'
    BY <1>2, <1>9 DEF Raises
  <2>2. SyncExc \subseteq Exc /\ HardFault \in Exc
    BY DEF SyncExc, Exc, SysExc
  <2>3. CASE Halt(Core)
    BY <1>2, <1>3, <2>1, <2>3 DEF Halt, Core
  <2> QED BY <1>6, <1>9, <2>1, <2>2, <2>3 DEF Raises, RaiseSync
<1>10. CASE Returns
  <2>1. ExceptionReturn(lr) /\ excStack # <<>> /\ lr \in ExcReturn
    BY <1>2, <1>10 DEF Returns, Unforged
  <2>2. UNCHANGED cfsr /\ InvpcBit \notin cfsr'
    BY <1>2, <2>1, ReturnAccepted
  <2>3. CASE \E e \in pending : EnterChained(e, Popped, Top(excStack).fpExt)
    BY <1>2, <1>3, <2>1, <2>2, <2>3, ChainLinked
  <2>4. CASE Unstack(lr) /\ lr.handler = (Popped.stack # <<>>)
    BY <1>2, <1>3, <2>1, <2>2, <2>4, UnstackLinked
  <2> QED BY <2>1, <2>3, <2>4, ReturnAccepted
<1>11. CASE \E np \in BOOLEAN : MsrControl(np)
  BY <1>4, <1>11 DEF MsrControl, Executes
<1>12. CASE TakeNext
  BY <1>4, <1>12 DEF TakeNext
<1>13. CASE ResetCpu
  BY <1>2, <1>3, <1>13 DEF ResetCpu, Linked
<1> QED
  BY <1>7, <1>8, <1>9, <1>10, <1>11, <1>12, <1>13, Steps

\* Through every nesting, chain and return, with interrupts delivered by the core or
\* taken by the driver, each link register leads one level down with the frame size
\* reserved there, and no return through one is refused.
THEOREM LinksLeadBack ==
    ASSUME Unforged, NoThreadEntry
    PROVE  Spec => []ReturnLinkage
<1>1. Init => LinkInv
  BY DEF Init, LinkInv, ReturnLinkage
<1>2. LinkInv => ReturnLinkage
  BY DEF LinkInv
<1> QED
  BY <1>1, <1>2, InitType, NextType, NextLink, PTL DEF Spec

-----------------------------------------------------------------------------
(* Which handler a step enters *)

\* The ways into a handler: delivery, a synchronous raise, a tail-chain.
Fresh(e)       == at = "deliver" /\ e \in pending /\ Selected(e, excStack)
Synchronous(e) == at = "fetch" /\ e \in SyncExc /\ ~Masked(e)
Chained(e)     == at = "fetch" /\ excStack # <<>> /\ e \in pending /\ Selected(e, Popped.stack)

\* An entry puts what it enters on top, one level up.
LEMMA TakeTop ==
    ASSUME TypeOK, NEW core, CoreOK(core), NEW e \in Exc, TakeException(e, core)
    PROVE  /\ excStack' # <<>> /\ Top(excStack').irq = e
           /\ Len(excStack') = Len(core.stack) + 1
<1>1. [irq |-> e, fpExt |-> fpca] \in Entry /\ core.stack \in Seq(Entry)
  BY DEF Entry, TypeOK, ConfigTypeOK, CoreOK, CoreType
<1>2. excStack' = Append(core.stack, [irq |-> e, fpExt |-> fpca])
  BY DEF TakeException, Enter
<1> QED
  BY <1>1, <1>2, IrqsAppend

\* A tail-chain puts what it enters where the popped handler was.
LEMMA ChainTop ==
    ASSUME TypeInv, excStack # <<>>, NEW e \in pending, EnterChained(e, Popped, Top(excStack).fpExt)
    PROVE  /\ excStack' # <<>> /\ Top(excStack').irq = e
           /\ Len(excStack') = Len(excStack)
<1> DEFINE entry == [irq |-> e, fpExt |-> Top(excStack).fpExt]
<1>1. entry \in Entry /\ entry.irq = e
  BY PoppedTyped DEF Entry, TypeInv, TypeOK, EngineTypeOK
<1>2. Popped.stack \in Seq(Entry) /\ Len(Popped.stack) = Len(excStack) - 1 /\ Len(excStack) \in Nat
  BY PopLemma DEF Popped, TypeInv, TypeOK, EngineTypeOK
<1>3. excStack' = Append(Popped.stack, entry)
  BY DEF EnterChained, Enter
<1>4. excStack' # <<>> /\ Top(excStack') = entry /\ Len(excStack') = Len(Popped.stack) + 1
  <2> HIDE DEF entry
  <2> QED BY <1>1, <1>2, <1>3, IrqsAppend
<1> QED
  BY <1>1, <1>2, <1>4

\* A raise enters an unmasked synchronous exception, or halts.
LEMMA RaiseTakes ==
    ASSUME NEW x \in SyncExc, NEW core, RaiseSync(x, core)
    PROVE  (\E y \in SyncExc : ~Masked(y) /\ TakeException(y, core)) \/ Halt(core)
<1>1. HardFault \in SyncExc
  BY DEF SyncExc
<1> QED
  BY <1>1 DEF RaiseSync, Blocked

\* What a return does, in the terms of the others.
LEMMA ReturnKinds ==
    ASSUME TypeInv, NEW v \in ExcReturn, ExceptionReturn(v)
    PROVE  /\ at = "fetch" /\ ~fault /\ (~fault' => at' = "deliver") /\ (fault' => at' = "fetch")
           /\ \/ \E core : /\ CoreOK(core) /\ Len(core.stack) >= Len(excStack) - 1
                           /\ Len(core.stack) <= Len(excStack)
                           /\ RaiseSync(UsageTarget, core)
              \/ /\ excStack # <<>>
                 /\ \E e \in pending :
                      Selected(e, Popped.stack) /\ EnterChained(e, Popped, Top(excStack).fpExt)
              \/ excStack # <<>> /\ Unstack(v)
<1>1. CoreOK(Core) /\ Core.stack = excStack /\ TypeOK /\ Len(excStack) \in Nat
  BY CoreTyped DEF Core, TypeInv, TypeOK, EngineTypeOK
<1>2. at = "fetch" /\ ~fault /\ (~fault' => at' = "deliver") /\ (fault' => at' = "fetch")
  BY DEF ExceptionReturn, Fetching, EndInstruction
<1>3. CASE RaiseInvpc(Core)
  BY <1>1, <1>2, <1>3 DEF RaiseInvpc
<1>4. CASE excStack # <<>>
  <2>1. /\ CoreOK(Abandoned(Popped)) /\ CoreOK(Abandoned(Unstacked))
        /\ Abandoned(Popped).stack = Pop(excStack) /\ Abandoned(Unstacked).stack = Pop(excStack)
        /\ Len(Pop(excStack)) = Len(excStack) - 1
    BY <1>1, <1>4, PoppedTyped, AbandonedTyped, PopLemma DEF Abandoned, Popped, Unstacked,
       TypeOK, EngineTypeOK
  <2>2. CASE RaiseInvpc(Abandoned(Popped)) \/ RaiseInvpc(Abandoned(Unstacked))
    BY <1>1, <1>2, <2>1, <2>2 DEF RaiseInvpc
  <2> QED
    BY <1>2, <1>3, <1>4, <2>2 DEF ExceptionReturn
<1> QED
  BY <1>3, <1>4 DEF ExceptionReturn

\* Only they enter: sleeping, register writes, the driver and a return do not.
LEMMA Enterings ==
    ASSUME TypeInv, [Next]_vars, NEW e, Enters(e)
    PROVE  Fresh(e) \/ Synchronous(e) \/ Chained(e)
<1>1. CoreOK(Core) /\ Core.stack = excStack /\ TypeOK
  BY CoreTyped DEF Core, TypeInv
<1>2. ~Still
  <2>1. Still => excStack' = excStack /\ ~(Len(excStack') > Len(excStack))
    BY <1>1 DEF Still, excVars, TypeOK, EngineTypeOK
  <2> QED BY <2>1 DEF Still, Enters
<1>3. CASE Delivers
  <2>1. PICK x \in pending : Selected(x, excStack) /\ TakeException(x, Core)
    BY <1>3 DEF Delivers
  <2>2. x = e
    BY <1>1, <2>1, TakeTop DEF Enters, TypeOK, EngineTypeOK
  <2> QED BY <1>3, <2>1, <2>2 DEF Delivers, Fresh
<1>4. SyncExc \subseteq Exc
  BY DEF SyncExc, Exc, SysExc
<1>5. ASSUME NEW core, CoreOK(core), NEW x \in SyncExc, RaiseSync(x, core), at = "fetch",
             Len(core.stack) <= Len(excStack), fault' => at' = "fetch"
      PROVE  Synchronous(e)
  <2>1. ~Halt(core)
    <3>1. ASSUME Halt(core) PROVE FALSE
      <4>1. ~(Len(excStack') > Len(excStack)) /\ at' = "fetch"
        BY <1>1, <1>5, <3>1 DEF Halt, CoreOK, CoreType, TypeOK, EngineTypeOK
      <4> QED BY <4>1 DEF Enters
    <3> QED BY <3>1
  <2>2. PICK y \in SyncExc : ~Masked(y) /\ TakeException(y, core)
    BY <1>5, <2>1, RaiseTakes
  <2>3. y = e
    BY <1>1, <1>4, <1>5, <2>2, TakeTop DEF Enters
  <2> QED BY <1>5, <2>2, <2>3 DEF Synchronous
<1>6. CASE Raises
  <2>1. Len(excStack) <= Len(excStack)
    BY <1>1 DEF TypeOK, EngineTypeOK
  <2> QED BY <1>1, <1>5, <1>6, <2>1 DEF Raises
<1>7. CASE Returns
  <2>1. PICK v \in ExcReturn : ExceptionReturn(v)
    BY <1>7 DEF Returns
  <2>2. UsageTarget \in SyncExc
    BY DEF UsageTarget, FaultTarget, SyncExc
  <2>3. ASSUME NEW x \in pending, excStack # <<>>, Selected(x, Popped.stack),
               EnterChained(x, Popped, Top(excStack).fpExt)
        PROVE  Chained(e)
    BY <2>1, <2>3, ChainTop, ReturnKinds DEF Enters, Chained
  <2>4. ~(excStack # <<>> /\ Unstack(v))
    <3>1. excStack # <<>> /\ Unstack(v) => ~(Len(excStack') > Len(excStack)) /\ ~entered'
      BY <1>1, PopLemma DEF Unstack, Unstacked, Popped, TypeOK, EngineTypeOK
    <3> QED BY <3>1 DEF Enters
  <2> QED BY <1>5, <2>1, <2>2, <2>3, <2>4, ReturnKinds
<1>8. ~(\E np \in BOOLEAN : MsrControl(np)) /\ ~TakeNext /\ ~ResetCpu
  <2>1. (\E np \in BOOLEAN : MsrControl(np)) => excStack' = excStack /\ ~entered'
    BY DEF MsrControl, Executes
  <2>2. TakeNext => excStack' = excStack /\ at' = at
    BY DEF TakeNext
  <2>3. ResetCpu => excStack' = <<>>
    BY DEF ResetCpu
  <2>4. excStack' = excStack => ~(Len(excStack') > Len(excStack))
    BY <1>1 DEF TypeOK, EngineTypeOK
  <2> QED BY <2>1, <2>2, <2>3, <2>4 DEF Enters
<1> QED
  BY <1>2, <1>3, <1>6, <1>7, <1>8, Steps

\* Every way into a handler respects PRIMASK, FAULTMASK and BASEPRI, whatever firmware
\* and driver do.
THEOREM MasksAreHonoured == Spec => MaskHonoured
<1>1. TypeInv /\ [Next]_vars => [\A e \in Exc : Enters(e) => ~Masked(e)]_vars
  <2> SUFFICES ASSUME TypeInv, [Next]_vars, NEW e \in Exc, Enters(e) PROVE ~Masked(e)
    OBVIOUS
  <2> QED BY Enterings DEF Fresh, Synchronous, Chained, Selected, Deliverable
<1> QED
  BY <1>1, InitType, NextType, PTL DEF Spec, MaskHonoured

-----------------------------------------------------------------------------
(* Which request a step removes *)

\* Only what may be raised asynchronously is ever pending.
PendingAsync == pending \cap SyncExc = {}

\* Firmware takes a request back, or the driver serves it itself.
Withdrawn(e) ==
    \/ \E S \in SUBSET ExtIRQ : WriteIcpr(S) /\ e \in S
    \/ \E S, C \in SUBSET {PendSV, SysTick} : WriteIcsr(S, C) /\ e \in C
    \/ TakeNext

\* What is not withdrawn goes by an entry; otherwise requests only come, and only from
\* the lines, PendSV and SysTick.
LEMMA Removals ==
    ASSUME TypeInv, [Next]_vars
    PROVE  /\ \A e \in pending \ pending' : Enters(e) \/ Withdrawn(e)
           /\ pending' \subseteq pending \cup ExtIRQ \cup {PendSV, SysTick}
<1> DEFINE Good == /\ \A e \in pending \ pending' : Enters(e) \/ Withdrawn(e)
                   /\ pending' \subseteq pending \cup ExtIRQ \cup {PendSV, SysTick}
<1>1. CoreOK(Core) /\ Core.stack = excStack /\ TypeOK /\ Len(excStack) \in Nat
  BY CoreTyped DEF Core, TypeInv, TypeOK, EngineTypeOK
<1>2. ASSUME pending \subseteq pending', pending' \subseteq pending \cup ExtIRQ \cup {PendSV, SysTick}
      PROVE  Good
  BY <1>2
<1>3. ASSUME UNCHANGED pending PROVE Good
  BY <1>3
<1>4. ASSUME NEW core, CoreOK(core), NEW e \in Exc, TakeException(e, core),
             \/ Len(core.stack) >= Len(excStack)
             \/ at = "fetch" /\ at' = "deliver"
      PROVE  Good
  <2>1. excStack' # <<>> /\ Top(excStack').irq = e /\ Len(excStack') = Len(core.stack) + 1
    BY <1>1, <1>4, TakeTop
  <2>2. pending' = pending \ {e} /\ entered' /\ Len(core.stack) \in Nat
    BY <1>4 DEF TakeException, Enter, CoreOK, CoreType
  <2>3. Enters(e)
    BY <1>1, <1>4, <2>1, <2>2 DEF Enters
  <2> QED BY <2>2, <2>3
<1>5. ASSUME NEW x \in SyncExc, NEW core, CoreOK(core), RaiseSync(x, core),
             \/ Len(core.stack) >= Len(excStack)
             \/ at = "fetch" /\ (~fault' => at' = "deliver"),
             ~fault
      PROVE  Good
  <2>1. CASE Halt(core)
    BY <1>3, <2>1 DEF Halt, pendVars
  <2>2. ASSUME NEW y \in SyncExc, TakeException(y, core) PROVE Good
    <3>1. y \in Exc /\ ~fault'
      BY <1>5, <2>2 DEF TakeException, SyncExc, Exc, SysExc
    <3> QED BY <1>4, <1>5, <2>2, <3>1
  <2> QED BY <1>5, <2>1, <2>2, RaiseTakes
<1>6. CASE HandlerReturns \/ ForgedReturn
  <2>1. PICK v \in ExcReturn : ExceptionReturn(v)
    BY <1>6 DEF HandlerReturns, ForgedReturn, TypeInv, TypeOK, EngineTypeOK
  <2>2. UsageTarget \in SyncExc
    BY DEF UsageTarget, FaultTarget, SyncExc
  <2>3. ASSUME NEW e \in pending, excStack # <<>>, EnterChained(e, Popped, Top(excStack).fpExt)
        PROVE  Good
    <3>1. excStack' # <<>> /\ Top(excStack').irq = e
      BY <2>3, ChainTop
    <3>2. pending' = pending \ {e} /\ entered' /\ UNCHANGED fault
      BY <2>3 DEF EnterChained, Enter
    <3>3. at = "fetch" /\ at' = "deliver"
      BY <2>1, <3>2, ReturnKinds
    <3>4. Enters(e)
      BY <3>1, <3>2, <3>3 DEF Enters
    <3> QED BY <3>2, <3>4
  <2>4. CASE Unstack(v)
    BY <1>3, <2>4 DEF Unstack, pendVars
  <2> QED BY <1>5, <2>1, <2>2, <2>3, <2>4, ReturnKinds
<1>7. CASE Svc \/ UsageTrap \/ FetchFault \/ RaiseDeferred
  <2>1. \E e \in SyncExc : RaiseSync(e, Core)
    BY <1>7 DEF Svc, UsageTrap, FetchFault, RaiseDeferred, UsageTarget, FaultTarget, SyncExc
  <2>2. ~fault
    BY <1>7 DEF Svc, UsageTrap, FetchFault, RaiseDeferred, Fetching
  <2> QED BY <1>1, <1>5, <2>1, <2>2
<1>8. CASE Undefined \/ DataAbort
  BY <1>3, <1>8 DEF Undefined, DataAbort, pendVars
<1>9. CASE NvicWrite
  <2>1. ASSUME NEW S \in SUBSET ExtIRQ, WriteIser(S) \/ WriteIcer(S) \/ WriteIspr(S) PROVE Good
    BY <1>1, <1>2, <2>1 DEF WriteIser, WriteIcer, WriteIspr, pendVars, TypeOK, EngineTypeOK
  <2>2. ASSUME NEW S \in SUBSET ExtIRQ, WriteIcpr(S) PROVE Good
    <3>1. pending' = pending \ (pendingReg \cap S)
      BY <2>2 DEF WriteIcpr
    <3>2. \A e \in pending \ pending' : e \in S
      BY <3>1
    <3>3. \A e \in pending \ pending' : Withdrawn(e)
      BY <2>2, <3>2 DEF Withdrawn
    <3> QED BY <3>1, <3>3
  <2>3. ASSUME NEW S \in SUBSET {PendSV, SysTick}, NEW C \in SUBSET {PendSV, SysTick}, WriteIcsr(S, C)
        PROVE  Good
    <3>1. /\ pending' \subseteq pending \cup {PendSV, SysTick}
          /\ \A e \in pending \ pending' : e \in C
      BY <2>3 DEF WriteIcsr
    <3>2. \A e \in pending \ pending' : Withdrawn(e)
      BY <2>3, <3>1 DEF Withdrawn
    <3> QED BY <3>1, <3>2
  <2>4. ASSUME NEW i \in ExtIRQ, WriteStir(i) PROVE Good
    BY <1>2, <2>4 DEF WriteStir, pendVars
  <2> QED BY <1>9, <2>1, <2>2, <2>3, <2>4 DEF NvicWrite
<1>10. CASE ScbWrite
  BY <1>3, <1>10 DEF ScbWrite, WritePriority, WriteAircr, WriteFlag, pendVars
<1>11. CASE CoreInsn
  BY <1>3, <1>11 DEF CoreInsn, Nop, Cps, FpuInsn, Wfi, Wfe, Sev, MsrBasepri, MsrBasepriMax,
     MsrControl, pendVars
<1>12. CASE Deliver
  <2>1. CASE UNCHANGED pendVars
    BY <1>3, <2>1 DEF pendVars
  <2>2. ASSUME NEW e \in pending, TakeException(e, Core) PROVE Good
    BY <1>1, <1>4, <2>2 DEF TypeOK, EngineTypeOK
  <2> QED BY <1>12, <2>1, <2>2 DEF Deliver
<1>13. CASE Peripherals
  BY <1>2, <1>13 DEF Peripherals, Raise
<1>14. CASE Wake \/ ResetCpu \/ \E b \in BOOLEAN : SetDeliverIrqs(b)
  BY <1>3, <1>14 DEF Wake, ResetCpu, SetDeliverIrqs, pendVars
<1>15. CASE TakeNext
  BY <1>15 DEF TakeNext, Withdrawn
<1>16. CASE UNCHANGED vars
  BY <1>3, <1>16 DEF vars, pendVars
<1> QED
  BY <1>6, <1>7, <1>8, <1>9, <1>10, <1>11, <1>12, <1>13, <1>14, <1>15, <1>16
     DEF Next, Firmware, SystemInsn, Driver

\* An interrupt leaves the bitmap when its handler is entered or when somebody asked
\* for it: no mask, priority, fault or reset makes the controller forget one.
THEOREM NoInterruptLost == Spec => NoLostInterrupt
<1>1. TypeInv /\ [Next]_vars =>
        [\A e \in pending \ pending' :
           \/ Enters(e)
           \/ \E S \in SUBSET ExtIRQ : WriteIcpr(S) /\ e \in S
           \/ \E S, C \in SUBSET {PendSV, SysTick} : WriteIcsr(S, C) /\ e \in C
           \/ TakeNext]_vars
  BY Removals DEF Withdrawn
<1> QED
  BY <1>1, InitType, NextType, PTL DEF Spec, NoLostInterrupt

\* Subpriorities are integers too, so the order of urgency is asymmetric.
LEMMA SubInt == ASSUME ConfigTypeOK, NEW e \in Exc PROVE Sub(e) \in Int
<1>1. prio[e] \in Int
  BY DEF ConfigTypeOK
<1>2. SubSize[prigroup + 1] \in {2, 4, 8, 16, 32, 64, 128, 256}
  BY DEF ConfigTypeOK, SubSize
<1>3. \A n \in Int : \A d \in {2, 4, 8, 16, 32, 64, 128, 256} : n % d \in Int
  OBVIOUS
<1> QED
  BY <1>1, <1>2, <1>3 DEF Sub

\* Of two exceptions at most one is more urgent than the other.
LEMMA UrgencyAsymmetric ==
    ASSUME ConfigTypeOK, NEW a \in Exc, NEW b \in Exc, MoreUrgent(a, b)
    PROVE  ~MoreUrgent(b, a)
<1>1. Group(a) \in Int /\ Group(b) \in Int /\ Sub(a) \in Int /\ Sub(b) \in Int
  BY GroupInt, SubInt
<1>2. a \in Int /\ b \in Int
  BY ExtIRQAssumption DEF Exc, SysExc, NMI, HardFault, MemManage, BusFault, UsageFault, SVCall,
     PendSV, SysTick
<1> QED
  BY <1>1, <1>2 DEF MoreUrgent

\* What is selected is the most urgent of all that is enabled and unmasked.
LEMMA SelectedIsUrgent ==
    ASSUME TypeOK, NEW stk \in Seq(Entry), NEW e \in pending, Selected(e, stk),
           NEW d \in pending, Enabled(d), ~Masked(d)
    PROVE  ~MoreUrgent(d, e)
<1>1. SUFFICES ASSUME MoreUrgent(d, e) PROVE FALSE
  OBVIOUS
<1>2. d \in Exc /\ e \in Exc /\ ConfigTypeOK
  BY DEF TypeOK, EngineTypeOK
<1>3. Group(d) \in Int /\ Group(e) \in Int
  BY <1>2, GroupInt
<1>4. ExecutionPriority(stk) \in Int
  <2>1. stk # <<>> => Top(stk) \in Entry
    BY PopLemma
  <2> QED BY <1>2, <2>1, GroupInt DEF ExecutionPriority, Entry
<1>5. d \in Deliverable(stk)
  BY <1>1, <1>3, <1>4 DEF MoreUrgent, Selected, Deliverable
<1>6. ~MoreUrgent(e, d)
  BY <1>1, <1>2, UrgencyAsymmetric
<1>7. d = e
  BY <1>5, <1>6 DEF Selected
<1> QED
  BY <1>1, <1>2, <1>7, UrgencyAsymmetric

\* Whatever the masks, priorities and groupings, delivery and tail-chaining take the most
\* urgent request; no synchronous raise passes for one of them.
THEOREM MostUrgentFirst == Spec => UrgentFirst
<1>1. Init => PendingAsync
  BY DEF Init, PendingAsync
<1>2. TypeInv /\ PendingAsync /\ [Next]_vars => PendingAsync'
  <2>1. (ExtIRQ \cup {PendSV, SysTick}) \cap SyncExc = {}
    BY ExtIRQAssumption DEF SyncExc, HardFault, MemManage, BusFault, UsageFault, SVCall, PendSV, SysTick
  <2> QED BY <2>1, Removals DEF PendingAsync
<1>3. TypeInv /\ PendingAsync /\ [Next]_vars =>
        [\A e \in pending \ pending' :
           Enters(e) /\ (at = "deliver" \/ Len(excStack') = Len(excStack)) =>
             \A d \in pending : Enabled(d) /\ ~Masked(d) => ~MoreUrgent(d, e)]_vars
  <2> SUFFICES ASSUME TypeInv, PendingAsync, [Next]_vars, NEW e \in pending, Enters(e),
                      NEW d \in pending, Enabled(d), ~Masked(d)
               PROVE  ~MoreUrgent(d, e)
    OBVIOUS
  <2>1. ~Synchronous(e)
    BY DEF PendingAsync, Synchronous
  <2>2. CASE Fresh(e)
    BY <2>2, SelectedIsUrgent DEF Fresh, TypeInv, TypeOK, EngineTypeOK
  <2>3. CASE Chained(e)
    <3>1. Popped.stack \in Seq(Entry)
      BY <2>3, PoppedTyped DEF Chained, CoreOK, CoreType
    <3> QED BY <2>3, <3>1, SelectedIsUrgent DEF Chained, TypeInv
  <2> QED BY <2>1, <2>2, <2>3, Enterings
<1> QED
  BY <1>1, <1>2, <1>3, InitType, NextType, PTL DEF Spec, UrgentFirst

-----------------------------------------------------------------------------
(* The stack implements a priority-ordered set of activations *)

\* IPSR names the handler on top, even in a core that has halted.
IpsrTop == ipsr = IF excStack = <<>> THEN 0 ELSE 16 + Top(excStack).irq

PreemptionInv == TypeInv /\ StrictNesting /\ LinkInv /\ IpsrTop

\* What firmware does in those hypotheses never gives a return up.
LEMMA OwnReturns ==
    ASSUME Unforged, TypeInv, LinkInv, Returns
    PROVE  /\ excStack # <<>> /\ UNCHANGED cfgVars
           /\ \/ \E e \in pending : /\ Selected(e, Popped.stack)
                                    /\ EnterChained(e, Popped, Top(excStack).fpExt)
              \/ Unstack(lr) /\ lr.handler = (Popped.stack # <<>>)
<1>1. ExceptionReturn(lr) /\ excStack # <<>>
  BY DEF Returns, Unforged, LinkInv
<1> QED
  BY <1>1, ReturnAccepted DEF ExceptionReturn

\* A raise from the running core enters something above it, or halts.
LEMMA RaiseAbove ==
    ASSUME TypeInv, Raises
    PROVE  \/ \E e \in Exc : TakeException(e, Core) /\ Group(e) < ExecutionPriority(excStack)
           \/ Halt(Core)
<1>1. PICK x \in SyncExc : RaiseSync(x, Core)
  BY DEF Raises
<1>2. SyncExc \subseteq Exc /\ HardFault \in Exc
  BY DEF SyncExc, Exc, SysExc
<1>3. excStack # <<>> => Top(excStack) \in Entry
  BY PoppedTyped
<1>4. ExecutionPriority(excStack) \in Int /\ \A e \in Exc : Group(e) \in Int
  BY <1>3, GroupInt DEF ExecutionPriority, Entry, TypeInv, TypeOK
<1>5. \A e \in Exc : ~Blocked(e, Core) => Group(e) < ExecutionPriority(excStack)
  BY <1>4 DEF Blocked, Core
<1> QED
  BY <1>1, <1>2, <1>5 DEF RaiseSync

\* After any step IPSR names the handler on top of the stack.
LEMMA NextIpsr ==
    ASSUME Unforged, NoReset, PreemptionInv, [Next]_vars
    PROVE  IpsrTop'
<1>1. CoreOK(Core) /\ TypeOK /\ TypeInv
  BY CoreTyped DEF PreemptionInv, TypeInv
<1>2. ASSUME UNCHANGED <<excStack, ipsr>> PROVE IpsrTop'
  BY <1>2 DEF PreemptionInv, IpsrTop, Top
<1>3. ASSUME NEW e \in Exc, TakeException(e, Core) PROVE IpsrTop'
  <2>1. excStack' # <<>> /\ Top(excStack').irq = e
    BY <1>1, <1>3, TakeTop
  <2> QED BY <1>3, <2>1 DEF TakeException, Enter, Vector, IpsrTop, Top
<1>4. CASE Still
  BY <1>2, <1>4 DEF Still, excVars
<1>5. CASE Delivers
  BY <1>1, <1>3, <1>5 DEF Delivers, TypeOK, EngineTypeOK
<1>6. CASE Raises
  BY <1>1, <1>2, <1>3, <1>6, RaiseAbove DEF Halt, Core
<1>7. CASE Returns
  <2>1. ASSUME NEW e \in pending, excStack # <<>>, EnterChained(e, Popped, Top(excStack).fpExt)
        PROVE  IpsrTop'
    <3>1. excStack' # <<>> /\ Top(excStack').irq = e
      BY <1>1, <2>1, ChainTop
    <3> QED BY <2>1, <3>1 DEF EnterChained, Enter, Vector, IpsrTop, Top
  <2>2. ASSUME Unstack(lr), lr.handler = (Popped.stack # <<>>) PROVE IpsrTop'
    BY <2>2 DEF Unstack, Unstacked, RestoredIpsr, Vector, IpsrTop, Top
  <2> QED BY <1>7, <2>1, <2>2, OwnReturns DEF PreemptionInv
<1>8. CASE (\E np \in BOOLEAN : MsrControl(np)) \/ TakeNext
  BY <1>2, <1>8 DEF MsrControl, TakeNext
<1>9. ~ResetCpu
  BY DEF NoReset, ResetCpu
<1> QED
  BY <1>1, <1>4, <1>5, <1>6, <1>7, <1>8, <1>9, Steps

\* Exceptions are numbers, and a typed stack holds nothing else.
LEMMA ExcInt == Exc \subseteq Int
BY ExtIRQAssumption DEF Exc, SysExc, NMI, HardFault, MemManage, BusFault, UsageFault, SVCall,
   PendSV, SysTick

\* What is on the stack are exceptions.
LEMMA IrqsTyped == ASSUME NEW stk \in Seq(Entry) PROVE Irqs(stk) \subseteq Exc
<1>1. \A i \in 1..Len(stk) : stk[i] \in Entry
  OBVIOUS
<1> QED
  BY <1>1 DEF Irqs, Entry

\* The handler on top is the most urgent of a strict stack, strictly so, ...
LEMMA TopIsMostUrgent ==
    ASSUME ConfigTypeOK, NEW stk \in Seq(Entry), stk # <<>>, Strict(stk)
    PROVE  /\ Top(stk).irq \in Irqs(stk) /\ Irqs(stk) \subseteq Exc
           /\ \A a \in Irqs(stk) \ {Top(stk).irq} : Group(Top(stk).irq) < Group(a)
<1> DEFINE n == Len(stk)
<1>1. n \in Nat \ {0} /\ n \in 1..n /\ \A i \in 1..n : stk[i] \in Entry
  OBVIOUS
<1>2. \A i \in 1..n : i = n \/ i < n
  BY <1>1
<1> QED
  BY <1>1, <1>2 DEF Irqs, Top, Strict, Entry

\* ... so what may preempt it may preempt all below it, ...
LEMMA AboveAll ==
    ASSUME ConfigTypeOK, NEW stk \in Seq(Entry), Strict(stk),
           NEW e \in Exc, Group(e) < ExecutionPriority(stk)
    PROVE  \A a \in Irqs(stk) : Group(e) < Group(a)
<1>1. CASE stk = <<>>
  BY <1>1 DEF Irqs
<1>2. CASE stk # <<>>
  <2>1. SUFFICES ASSUME NEW a \in Irqs(stk) PROVE Group(e) < Group(a)
    OBVIOUS
  <2>2. /\ Top(stk).irq \in Exc /\ a \in Exc
        /\ a = Top(stk).irq \/ Group(Top(stk).irq) < Group(a)
    BY <1>2, TopIsMostUrgent
  <2>3. Group(e) \in Int /\ Group(Top(stk).irq) \in Int /\ Group(a) \in Int
    BY <2>2, GroupInt
  <2>4. Group(e) < Group(Top(stk).irq)
    BY <1>2 DEF ExecutionPriority
  <2> QED BY <2>2, <2>3, <2>4
<1> QED
  BY <1>1, <1>2

PreemptionStep == [Preemption!Next]_(Preemption!vars)

\* A step that leaves stack and priorities alone is a request, or nothing.
LEMMA RequestPreempts ==
    ASSUME TypeInv', UNCHANGED <<excStack, ipsr, prio, prigroup>>
    PROVE  PreemptionStep
<1>1. pending' \in SUBSET Exc
  BY DEF TypeInv, TypeOK, EngineTypeOK
<1>2. [e \in Exc |-> Group(e)]' = [e \in Exc |-> Group(e)]
  BY DEF Group
<1>3. Preemption!Request
  BY <1>1, <1>2 DEF Preemption!Request
<1> QED
  BY <1>3 DEF PreemptionStep, Preemption!Next

\* An entry activates the exception above all that is active.
LEMMA TakePreempts ==
    ASSUME PreemptionInv, UNCHANGED <<prio, prigroup>>, NEW e \in Exc,
           TakeException(e, Core), Group(e) < ExecutionPriority(excStack)
    PROVE  PreemptionStep
<1>1. TypeOK /\ CoreOK(Core) /\ excStack \in Seq(Entry) /\ Strict(excStack) /\ ConfigTypeOK
  BY CoreTyped DEF PreemptionInv, TypeInv, TypeOK, EngineTypeOK, Strict, StrictNesting
<1>2. Irqs(excStack') = Irqs(excStack) \cup {e}
  <2>1. [irq |-> e, fpExt |-> fpca] \in Entry
    BY <1>1 DEF Entry, TypeOK, ConfigTypeOK
  <2> QED BY <1>1, <2>1, IrqsAppend DEF TakeException, Enter, Core
<1>3. \A a \in Irqs(excStack) : Group(e) < Group(a)
  BY <1>1, AboveAll
<1>4. Irqs(excStack) \subseteq Exc
  BY <1>1, IrqsTyped
<1>5. [x \in Exc |-> Group(x)]' = [x \in Exc |-> Group(x)]
  BY DEF Group
<1>6. ipsr' - 16 = e /\ pending' = pending \ {e}
  <2>1. e \in Int
    BY ExcInt
  <2> QED BY <2>1 DEF TakeException, Enter, Vector
<1>7. Preemption!Activate(e, {})
  BY <1>2, <1>3, <1>4, <1>5, <1>6 DEF Preemption!Activate, Irqs
<1> QED
  BY <1>7 DEF PreemptionStep, Preemption!Next

\* A tail-chain finishes the running handler and activates the next in one step.
LEMMA ChainPreempts ==
    ASSUME PreemptionInv, UNCHANGED <<prio, prigroup>>, excStack # <<>>, NEW e \in pending,
           Selected(e, Popped.stack), EnterChained(e, Popped, Top(excStack).fpExt)
    PROVE  PreemptionStep
<1> DEFINE top == Top(excStack).irq
<1> DEFINE entry == [irq |-> e, fpExt |-> Top(excStack).fpExt]
<1>1. TypeInv /\ TypeOK /\ ConfigTypeOK /\ e \in Exc /\ excStack \in Seq(Entry) /\ Strict(excStack)
  BY DEF PreemptionInv, TypeInv, TypeOK, EngineTypeOK, Strict, StrictNesting
<1>2. /\ Pop(excStack) \in Seq(Entry) /\ Strict(Pop(excStack)) /\ Popped.stack = Pop(excStack)
      /\ entry \in Entry /\ entry.irq = e /\ top \in Exc
  BY <1>1, PopLemma, StrictPop, PoppedTyped DEF Popped, Entry
<1>3. Irqs(Pop(excStack)) = Irqs(excStack) \ {top} /\ top \in Irqs(excStack)
  BY <1>1, IrqsPop
<1>4. Irqs(excStack') = (Irqs(excStack) \ {top}) \cup {e}
  <2>1. excStack' = Append(Pop(excStack), entry)
    BY <1>2 DEF EnterChained, Enter
  <2> HIDE DEF entry
  <2> QED BY <1>2, <1>3, <2>1, IrqsAppend
<1>5. \A a \in Irqs(excStack) \ {top} : Group(e) < Group(a)
  <2>1. Group(e) < ExecutionPriority(Pop(excStack))
    BY <1>2 DEF Selected, Deliverable
  <2> QED BY <1>1, <1>2, <1>3, <2>1, AboveAll
<1>6. Irqs(excStack) \subseteq Exc
  BY <1>1, IrqsTyped
<1>7. [x \in Exc |-> Group(x)]' = [x \in Exc |-> Group(x)]
  BY DEF Group
<1>8. ipsr' - 16 = e /\ ipsr - 16 = top /\ pending' = pending \ {e}
  <2>1. e \in Int /\ top \in Int
    BY <1>1, <1>2, ExcInt
  <2> QED BY <2>1 DEF EnterChained, Enter, Vector, PreemptionInv, IpsrTop
<1> HIDE DEF top, entry
<1>9. PICK done : done = {top}
  OBVIOUS
<1>10. Preemption!Activate(e, done)
  <2>1. done \subseteq {ipsr - 16} \cap Irqs(excStack)
    BY <1>3, <1>8, <1>9
  <2>2. \A a \in Irqs(excStack) \ done : [x \in Exc |-> Group(x)][e] < [x \in Exc |-> Group(x)][a]
    BY <1>1, <1>5, <1>6, <1>9
  <2> QED BY <1>4, <1>7, <1>8, <1>9, <2>1, <2>2 DEF Preemption!Activate, Irqs
<1>11. done \in SUBSET {excStack[i].irq : i \in 1..Len(excStack)}
  BY <1>3, <1>9 DEF Irqs
<1> QED
  BY <1>1, <1>10, <1>11 DEF PreemptionStep, Preemption!Next

\* Unstacking completes the running handler and resumes the most urgent one left.
LEMMA UnstackPreempts ==
    ASSUME PreemptionInv, IpsrTop', UNCHANGED <<prio, prigroup>>, excStack # <<>>,
           NEW v, Unstack(v)
    PROVE  PreemptionStep
<1> DEFINE top == Top(excStack).irq
<1> DEFINE left == Irqs(excStack')
<1>1. TypeInv /\ ConfigTypeOK /\ excStack \in Seq(Entry) /\ Strict(excStack)
  BY DEF PreemptionInv, TypeInv, TypeOK, EngineTypeOK, Strict, StrictNesting
<1>2. excStack' = Pop(excStack) /\ Pop(excStack) \in Seq(Entry) /\ Strict(Pop(excStack)) /\ top \in Exc
  BY <1>1, PopLemma, StrictPop, PoppedTyped DEF Unstack, Unstacked, Popped, Entry
<1>3. left = Irqs(excStack) \ {top} /\ top \in Irqs(excStack)
  BY <1>1, <1>2, IrqsPop
<1>4. \A x \in Exc : x \in Int
  BY ExcInt
<1>5. ipsr - 16 = top
  BY <1>2, <1>4 DEF PreemptionInv, IpsrTop
<1>6. [x \in Exc |-> Group(x)]' = [x \in Exc |-> Group(x)] /\ pending' = pending
  BY DEF Group, Unstack, pendVars
<1>7. ipsr' - 16 = Preemption!MostUrgent(left)
  <2>1. CASE excStack' = <<>>
    <3>1. left = {} /\ ipsr' - 16 = -16
      BY <2>1 DEF Irqs, IpsrTop
    <3> QED BY <3>1 DEF Preemption!MostUrgent
  <2>2. CASE excStack' # <<>>
    <3> DEFINE best == Top(excStack').irq
    <3>1. /\ best \in left /\ left \subseteq Exc
          /\ \A a \in left \ {best} : Group(best) < Group(a)
      BY <1>1, <1>2, <2>2, TopIsMostUrgent
    <3>2. \A a \in Exc : Group(a) \in Int
      BY <1>1, GroupInt
    <3>3. \A a \in left : Group(best) <= Group(a)
      BY <3>1, <3>2
    <3>4. \A a \in left : (\A d \in left : Group(a) <= Group(d)) => a = best
      BY <3>1, <3>2
    <3>5. ipsr' - 16 = best
      BY <1>4, <2>2, <3>1 DEF IpsrTop, Top
    <3>6. Preemption!MostUrgent(left) = best
      <4> HIDE DEF best, left
      <4>1. Preemption!MostUrgent(left)
              = CHOOSE e \in left : \A d \in left : [x \in Exc |-> Group(x)][e] <= [x \in Exc |-> Group(x)][d]
        BY <3>1 DEF Preemption!MostUrgent
      <4>2. \A a \in left : (\A d \in left : [x \in Exc |-> Group(x)][a] <= [x \in Exc |-> Group(x)][d])
              <=> \A d \in left : Group(a) <= Group(d)
        BY <3>1
      <4> QED BY <3>1, <3>3, <3>4, <4>1, <4>2
    <3> QED BY <3>5, <3>6
  <2> QED BY <2>1, <2>2
<1>8. Preemption!Complete
  <2> HIDE DEF top, left
  <2>1. ipsr - 16 \in Irqs(excStack) /\ left = Irqs(excStack) \ {ipsr - 16}
    BY <1>3, <1>5
  <2> QED BY <1>6, <1>7, <2>1 DEF Preemption!Complete, Irqs, left
<1> QED
  BY <1>8 DEF PreemptionStep, Preemption!Next

\* Priorities change in a step of their own, and never those of what is active.
LEMMA Relevels ==
    ASSUME TypeInv, [Next]_vars
    PROVE  \/ UNCHANGED <<prio, prigroup>>
           \/ /\ UNCHANGED <<excStack, ipsr, pending>>
              /\ \A a \in Irqs(excStack) : Group(a)' = Group(a)
<1>1. ASSUME NEW p \in PrioWrites, WritePriority(p[1], p[2])
      PROVE  UNCHANGED <<excStack, ipsr, pending>> /\ \A a \in Irqs(excStack) : Group(a)' = Group(a)
  <2>1. \A a \in Irqs(excStack) : a # p[1]
    BY <1>1 DEF WritePriority, Irqs
  <2>2. \A a \in Exc : a # p[1] => prio'[a] = prio[a]
    BY <1>1 DEF WritePriority, TypeInv, TypeOK, ConfigTypeOK
  <2>3. Irqs(excStack) \subseteq Exc
    BY IrqsTyped DEF TypeInv, TypeOK, EngineTypeOK
  <2>4. UNCHANGED <<excStack, ipsr, pending, prigroup>>
    BY <1>1 DEF WritePriority, excVars, pendVars
  <2> QED BY <2>1, <2>2, <2>3, <2>4 DEF Group
<1>2. ASSUME NEW g \in PriGroup, WriteAircr(g)
      PROVE  UNCHANGED <<excStack, ipsr, pending>> /\ \A a \in Irqs(excStack) : Group(a)' = Group(a)
  BY <1>2 DEF WriteAircr, excVars, pendVars, Irqs
<1>3. CASE ScbWrite
  BY <1>1, <1>2, <1>3 DEF ScbWrite, WriteFlag
<1>4. CASE UNCHANGED cfgVars
  BY <1>4 DEF cfgVars
<1>5. CASE NvicWrite
  BY <1>5 DEF NvicWrite, WriteIser, WriteIcer, WriteIspr, WriteIcpr, WriteIcsr, WriteStir, cfgVars
<1>6. CASE CoreInsn
  BY <1>6 DEF CoreInsn, Nop, Cps, FpuInsn, Wfi, Wfe, Sev, MsrBasepri, MsrBasepriMax, MsrControl, cfgVars
<1>7. CASE Driver
  BY <1>7 DEF Driver, Wake, TakeNext, ResetCpu, SetDeliverIrqs, cfgVars
<1>8. SystemInsn \/ RaiseDeferred \/ Deliver \/ Peripherals \/ UNCHANGED vars => UNCHANGED cfgVars
  BY DEF SystemInsn, HandlerReturns, ForgedReturn, ExceptionReturn, Undefined, Svc, UsageTrap,
     DataAbort, FetchFault, RaiseDeferred, Deliver, Peripherals, Raise, vars, cfgVars
<1> QED
  BY <1>3, <1>4, <1>5, <1>6, <1>7, <1>8 DEF Next, Firmware

\* New priorities that move no group of a running handler are a step the abstract engine may take.
LEMMA RelevelPreempts ==
    ASSUME TypeInv, TypeInv', UNCHANGED <<excStack, ipsr, pending>>,
           \A a \in Irqs(excStack) : Group(a)' = Group(a)
    PROVE  PreemptionStep
<1>1. \A x \in Exc : Group(x)' \in Int
  <2>1. ConfigTypeOK' => \A x \in Exc : Group(x)' \in Int
    <3>1. \A n \in Int : \A d \in {2, 4, 8, 16, 32, 64, 128, 256} : n \div d \in Int
      OBVIOUS
    <3>2. ASSUME ConfigTypeOK', NEW x \in Exc PROVE Group(x)' \in Int
      <4>1. prio'[x] \in Int /\ prigroup' \in 0..7
        BY <3>2 DEF ConfigTypeOK
      <4>2. \A g \in 0..7 : SubSize[g + 1] \in {2, 4, 8, 16, 32, 64, 128, 256}
        BY DEF SubSize
      <4> QED BY <3>1, <4>1, <4>2 DEF Group
    <3> QED BY <3>2
  <2> QED BY <2>1 DEF TypeInv, TypeOK
<1>2. [x \in Exc |-> Group(x)]' \in [Exc -> Int]
  BY <1>1
<1>3. Irqs(excStack) \subseteq Exc
  BY IrqsTyped DEF TypeInv, TypeOK, EngineTypeOK
<1>4. \A a \in Irqs(excStack) : [x \in Exc |-> Group(x)]'[a] = [x \in Exc |-> Group(x)][a]
  BY <1>3
<1>5. Preemption!Relevel
  BY <1>2, <1>4 DEF Preemption!Relevel, Irqs
<1> QED
  BY <1>5 DEF PreemptionStep, Preemption!Next

\* One case per kind of step.
LEMMA StepPreempts ==
    ASSUME Unforged, NoReset, PreemptionInv, PreemptionInv', [Next]_vars
    PROVE  PreemptionStep
<1>1. TypeInv /\ TypeInv' /\ TypeOK /\ CoreOK(Core) /\ excStack \in Seq(Entry)
  BY CoreTyped DEF PreemptionInv, TypeInv, TypeOK, EngineTypeOK
<1>2. CASE /\ UNCHANGED <<excStack, ipsr, pending>>
           /\ \A a \in Irqs(excStack) : Group(a)' = Group(a)
  BY <1>1, <1>2, RelevelPreempts
<1>3. CASE UNCHANGED <<prio, prigroup>>
  <2>1. ASSUME UNCHANGED <<excStack, ipsr>> PROVE PreemptionStep
    BY <1>1, <1>3, <2>1, RequestPreempts
  <2>2. CASE Still \/ (\E np \in BOOLEAN : MsrControl(np)) \/ TakeNext
    BY <2>1, <2>2 DEF Still, excVars, MsrControl, TakeNext
  <2>3. CASE Delivers
    <3>1. PICK e \in pending : Selected(e, excStack) /\ TakeException(e, Core)
      BY <2>3 DEF Delivers
    <3>2. e \in Exc /\ Group(e) < ExecutionPriority(excStack)
      BY <1>1, <3>1 DEF Selected, Deliverable, TypeOK, EngineTypeOK
    <3> QED BY <1>3, <3>1, <3>2, TakePreempts
  <2>4. CASE Raises
    <3>1. CASE Halt(Core)
      BY <2>1, <3>1 DEF Halt, Core
    <3> QED BY <1>1, <1>3, <2>4, <3>1, RaiseAbove, TakePreempts
  <2>5. CASE Returns
    BY <1>1, <1>3, <2>5, OwnReturns, ChainPreempts, UnstackPreempts DEF PreemptionInv
  <2>6. ~ResetCpu
    BY DEF NoReset, ResetCpu
  <2> QED BY <1>1, <2>2, <2>3, <2>4, <2>5, <2>6, Steps
<1> QED
  BY <1>1, <1>2, <1>3, Relevels

\* Delivery, nesting, escalation, tail-chaining and return, over stacks, frames, masks
\* and registers, are a priority-ordered set of activations of which the most urgent
\* runs: as long as handlers return through their links, and nobody resets the core.
THEOREM EnginePreempts ==
    ASSUME Unforged, NoThreadEntry, NoReset
    PROVE  Spec => IsPreemptive
<1>1. Init => PreemptionInv
  <2>1. Init => LinkInv
    BY DEF Init, LinkInv, ReturnLinkage
  <2> QED BY <2>1, InitType DEF Init, PreemptionInv, StrictNesting, IpsrTop
<1>2. PreemptionInv /\ [Next]_vars => PreemptionInv'
  BY NextType, NextStrict, NextLink, NextIpsr DEF PreemptionInv
<1>3. Init => Preemption!Init
  <2> SUFFICES ASSUME Init PROVE Preemption!Init
    OBVIOUS
  <2>1. {excStack[i].irq : i \in 1..Len(excStack)} = {}
    BY DEF Init
  <2>2. \A e \in Exc : Group(e) \in Int
    BY InitType, GroupInt DEF TypeInv, TypeOK
  <2> QED BY <2>1, <2>2 DEF Init, Preemption!Init
<1>4. PreemptionInv /\ PreemptionInv' /\ [Next]_vars => [Preemption!Next]_(Preemption!vars)
  BY StepPreempts DEF PreemptionStep
<1> QED
  BY <1>1, <1>2, <1>3, <1>4, PTL DEF Spec, IsPreemptive, Preemption!Spec
=============================================================================
