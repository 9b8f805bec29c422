---------------------------- MODULE EventRouting ----------------------------
(***************************************************************************)
(* From a peripheral event to the interrupt, the DMAC unit or the DTC       *)
(* transfer it causes: the links of the ICU, the queue of staged DMAC       *)
(* units, the pending DTC activations, and the flag by which the run loop   *)
(* knows that there is something to drain (system.rs, ra_icu.rs, ra_dma.rs, *)
(* cpu/mem.rs).                                                             *)
(*                                                                         *)
(* A drain (service_sync_dma_inner) is one call of the code and several     *)
(* steps here: at "dtc" it fires activations, at "units" it moves staged    *)
(* units, and a transfer to a peripheral register may raise an event.       *)
(* Firmware, the peripherals and the driver act at "firmware" only.         *)
(***************************************************************************)
EXTENDS Integers, Sequences, FiniteSets
LOCAL INSTANCE SequencesExt

CONSTANTS
    Chan,         \* DMAC channels
    Irq,          \* lines with an IELSR register
    Timer,        \* events of GPT channels: these reach the DMAC
    Plain,        \* events of the other peripherals, pins and keys
    Delsr,        \* what firmware writes to DELSR
    Ielsr,        \* what firmware writes to IELSR: [event, dtce]
    Settings,     \* descriptors firmware writes: [mode, each, srcRepeat, length]
    Sources,      \* where the source areas firmware chooses begin
    UnitEvents,   \* events a transfer of the DMAC to a register may raise
    DtcEvents,    \* events a transfer of the DTC to a register may raise
    Ops,          \* what firmware and the components may do besides
    Taken,        \* channels from which a component takes staged units
    MaxUnits,     \* bound: largest count firmware writes to DMCRA
    MaxSlice,     \* bound: slices of 64 instructions that pass
    MaxPending,   \* bound: activations that wait when a peripheral raises another
    Room          \* addresses of a descriptor's source, which wrap

NoLink == 65535
EndEvent(ch) == 17 + ch
Event == Timer \cup Plain \cup {EndEvent(ch) : ch \in Chan}

\* What the 16-bit count of a descriptor holds.
Halfword == {n \in Nat : n < 65536}

RoutingAssumption ==
    /\ Chan \subseteq 0..7 /\ Taken \subseteq Chan /\ Irq \subseteq 0..95
    /\ Timer \cup Plain \subseteq 0..511
    /\ UnitEvents \cup DtcEvents \subseteq Event \ {0}
    /\ Ielsr \subseteq [event : 0..511, dtce : BOOLEAN]
    /\ Settings \subseteq [mode : {"normal", "repeat", "block"}, each : BOOLEAN,
                           srcRepeat : BOOLEAN, length : Halfword]
    /\ MaxUnits \in Nat /\ MaxSlice \in Nat /\ MaxPending \in Nat /\ Room \in Nat \ {0} /\ Sources \subseteq 0..(Room - 1)

VARIABLES
    ielsr,       \* IELSR_MIRROR
    delsr,       \* DELSR_MIRROR
    dmac,        \* registers of each DMAC channel
    staged,      \* event units in pending_dma, per channel in the order of seq
    copy,        \* channels with an immediate memory copy in pending_dma
    outstanding, \* DMAC_OUTSTANDING
    dtcPending,  \* DTC_PENDING, newest last
    dtcCh,       \* DTC_CH: repeat state by line
    descriptor,  \* the transfer_info_t firmware keeps in SRAM for each line
    area,        \* history: where the source area firmware last chose begins
    active,      \* DMA_ACTIVE
    completed,   \* DMA_COMPLETED
    irqPending,  \* lines pending in the NVIC
    raised,      \* slice in which each timer event was last due
    now,         \* INSTRUCTION_COUNT >> 6
    at           \* "firmware", "dtc" or "units"

links   == <<ielsr, delsr>>
engine  == <<dtcPending, dtcCh, descriptor, area>>
vars == <<ielsr, delsr, dmac, staged, copy, outstanding, dtcPending, dtcCh,
          descriptor, area, active, completed, irqPending, raised, now, at>>

Disarmed == [dte |-> FALSE, cra |-> 0, dtie |-> FALSE, dtif |-> FALSE,
             realMode |-> FALSE]
NoEvent == [event |-> 0, dtce |-> FALSE]
NoRepeatState == [settings |-> [mode |-> "normal", each |-> FALSE, srcRepeat |-> FALSE, length |-> 0],
                  base |-> 0, remaining |-> 0, done |-> FALSE]
NoDescriptor == [settings |-> NoRepeatState.settings, src |-> 0]

-----------------------------------------------------------------------------
(* Raising an event.                                                         *)

\* queue_event_unit: a channel with no remaining count ignores the request.
Requested(e) == {ch \in Chan : dmac[ch].dte /\ dmac[ch].cra > 0 /\ delsr[ch] = e}

\* The lines whose IELSR selects e, and among them those handed to the DTC.
Selecting(e) == {irq \in Irq : e # 0 /\ ielsr[irq].event = e}
Activated(e) == {irq \in Selecting(e) : ielsr[irq].dtce}

\* With the interrupt at the end of the transfer, a line the DTC knows stays quiet.
Quiet(irq) ==
    /\ dtcCh[irq].settings.length > 0
    /\ ~dtcCh[irq].settings.each /\ ~dtcCh[irq].done

Interrupted(e) == Selecting(e) \ {irq \in Activated(e) : Quiet(irq)}

\* dtc_activate for every line, event by event in the order of the table.
Activate(pending, E) ==
    LET irqs == UNION {Activated(e) : e \in E}
        earlier(i, j) == ielsr[i].event < ielsr[j].event
                         \/ (ielsr[i].event = ielsr[j].event /\ i < j)
    IN  IF irqs = {} THEN pending ELSE pending \o SetToSortSeq(irqs, earlier)

\* Mutant: queueing an activation does not raise the flag.
KickedByUnits(E, S) == active \/ S # {}

\* dma_kick, by an activation or by a staged unit.
Kicked(E, S) == active \/ S # {} \/ \E e \in E : Activated(e) # {}

\* icu_raise_event for every event of E, with S the channels that staged a unit.
RaiseIcu(E, S) ==
    /\ dtcPending' = Activate(dtcPending, E)
    /\ irqPending' = irqPending \cup UNION {Interrupted(e) : e \in E}
    /\ active' = Kicked(E, S)

\* dmac_unit_queued.
Counted(S, count) == [ch \in Chan |-> IF ch \in S THEN count[ch] + 1 ELSE count[ch]]

\* queue_unit on the channels of S: queue holds what remains of the staged units.
Stage(S, queue, count, due) ==
    /\ staged' = [ch \in Chan |->
          IF ch \in S THEN Append(queue[ch], [slice |-> due, unit |-> dmac[ch].cra]) ELSE queue[ch]]
    /\ outstanding' = Counted(S, count)
    /\ dmac' = [ch \in Chan |-> IF ch \in S THEN [dmac[ch] EXCEPT !.cra = @ - 1] ELSE dmac[ch]]

\* A GPT walks over a compare match or a period end: the DMAC first, then the ICU.
Notified(e) == IF e \in Timer THEN Requested(e) ELSE {}

\* It was due at an earlier slice, never before one it already raised.
MayBeDue(e, due) == due <= now /\ IF e \in Timer THEN due >= raised[e] ELSE due = now

Recorded(e, due) == raised' = IF e \in Timer THEN [raised EXCEPT ![e] = due] ELSE raised

-----------------------------------------------------------------------------
(* The peripherals, between and during batches.                              *)

RaiseEvent(e, due) ==
    /\ at = "firmware" /\ Len(dtcPending) < MaxPending
    /\ Stage(Notified(e), staged, outstanding, due)
    /\ RaiseIcu({e}, Notified(e))
    /\ Recorded(e, due)
    /\ UNCHANGED <<links, copy, dtcCh, descriptor, area, completed, now, at>>

\* Mutant: a channel whose last end firmware has not acknowledged does not end.
EndedOnce == {ch \in Chan : dmac[ch].dte /\ dmac[ch].cra = 0 /\ outstanding[ch] = 0 /\ ~dmac[ch].dtif}

\* service_completions: the channels whose last unit has moved.
Ended == {ch \in Chan : dmac[ch].dte /\ dmac[ch].cra = 0 /\ outstanding[ch] = 0}

DmacTick ==
    /\ at = "firmware" /\ Ended # {}
    /\ dmac' = [ch \in Chan |->
          IF ch \in Ended THEN [dmac[ch] EXCEPT !.dte = FALSE, !.dtif = TRUE] ELSE dmac[ch]]
    /\ RaiseIcu({EndEvent(ch) : ch \in {c \in Ended : dmac[c].dtie}}, {})
    /\ UNCHANGED <<links, staged, copy, outstanding, dtcCh, descriptor, area,
                   completed, raised, now, at>>

Pass ==
    /\ at = "firmware" /\ now < MaxSlice /\ now' = now + 1
    /\ UNCHANGED <<links, dmac, staged, copy, outstanding, engine, active, completed,
                   irqPending, raised, at>>

-----------------------------------------------------------------------------
(* The drain.                                                                *)

\* service_sync_dma, every 16 instructions.
RunDrain ==
    /\ at = "firmware" /\ active
    /\ at' = "dtc"
    /\ UNCHANGED <<links, dmac, staged, copy, outstanding, engine, active, completed,
                   irqPending, raised, now>>

\* The driver rewrote the descriptor: the repeat state starts anew.  A new source
\* alone does not show.
Resynced(irq) ==
    LET d == descriptor[irq] IN
    IF dtcCh[irq].settings = d.settings THEN dtcCh[irq]
    ELSE [settings |-> d.settings, base |-> d.src, remaining |-> d.settings.length, done |-> FALSE]

\* Nothing to move: no descriptor, a mode without a consumer, or a transfer done.
Inert(irq) ==
    LET s == descriptor[irq].settings IN
    s.length = 0 \/ s.mode = "block" \/ (s.mode = "normal" /\ Resynced(irq).done)

\* Mutant: the area wraps one unit late.
WrapsLate(ch) == ch.remaining = 0

\* The unit that is about to move is the last of the transfer or of the area.
Wraps(ch) == ch.remaining = 1

\* The source after the unit: it advances, and a repeating source returns.
NextSource(irq, ch) ==
    LET d == descriptor[irq] IN
    IF Wraps(ch) /\ d.settings.mode = "repeat" /\ d.settings.srcRepeat
    THEN ch.base ELSE (d.src + 1) % Room

\* The count after the unit: at its end the transfer is done, or the area starts over.
Recount(ch) ==
    IF ~Wraps(ch) THEN [ch EXCEPT !.remaining = (@ - 1) % 65536]
    ELSE IF ch.settings.mode = "normal" THEN [ch EXCEPT !.remaining = 0, !.done = TRUE]
    ELSE [ch EXCEPT !.remaining = ch.settings.length]

\* The unit moves: to a register, it may raise e in passing.
FireUnit(irq, others, e) ==
    LET ch == Resynced(irq) IN
    /\ dtcPending' = Activate(others, {e})
    /\ active' = Kicked({e}, Notified(e))
    /\ irqPending' = irqPending \cup Interrupted(e)
         \cup IF ch.settings.each \/ Wraps(ch) THEN {irq} ELSE {}
    /\ descriptor' = [descriptor EXCEPT ![irq].src = NextSource(irq, ch)]
    /\ dtcCh' = [dtcCh EXCEPT ![irq] = Recount(ch)]

\* dtc_fire on the newest activation.
ServiceDtc(e, due) ==
    /\ at = "dtc" /\ dtcPending # <<>>
    /\ LET irq    == dtcPending[Len(dtcPending)]
           others == SubSeq(dtcPending, 1, Len(dtcPending) - 1)
       IN  \/ /\ Inert(irq) /\ e = 0 /\ dtcPending' = others
              /\ UNCHANGED <<dmac, staged, outstanding, dtcCh, descriptor, irqPending,
                             active, raised>>
           \/ /\ ~Inert(irq) /\ FireUnit(irq, others, e)
              /\ Stage(Notified(e), staged, outstanding, due)
              /\ Recorded(e, due)
    /\ UNCHANGED <<links, copy, area, completed, now, at>>

DtcDone ==
    /\ at = "dtc" /\ dtcPending = <<>> /\ at' = "units"
    /\ UNCHANGED <<links, dmac, staged, copy, outstanding, engine, active, completed,
                   irqPending, raised, now>>

\* Mutant: of two units of one channel in one slice the later one goes first.
BeforeBySeqDown(a, b) ==
    \/ a.slice < b.slice
    \/ a.slice = b.slice /\ (a.ch < b.ch \/ (a.ch = b.ch /\ a.seq > b.seq))

\* take_due: by slice, then by channel, then by age.
Before(a, b) ==
    \/ a.slice < b.slice
    \/ a.slice = b.slice /\ (a.ch < b.ch \/ (a.ch = b.ch /\ a.seq < b.seq))

Staged(ch) == {[slice |-> staged[ch][i].slice, ch |-> ch, seq |-> i] : i \in DOMAIN staged[ch]}
Copies == {[slice |-> 0, ch |-> ch, seq |-> 0] : ch \in copy}

\* Mutant: a unit is due only once its slice is over.
DueLater == Copies \cup {u \in UNION {Staged(ch) : ch \in Chan} : u.slice < now}

\* What waits in pending_dma and is due.  A copy carries no time and no age.
Due == Copies \cup {u \in UNION {Staged(ch) : ch \in Chan} : u.slice <= now}

First(u) == u \in Due /\ \A v \in Due \ {u} : Before(u, v)

Completed(ch) == completed' = completed \cup {ch}

\* Mutant: a unit of a channel that was disarmed meanwhile is not counted off.
UnitDoneIfArmed(ch) == IF dmac[ch].dte THEN [outstanding EXCEPT ![ch] = @ - 1] ELSE outstanding

\* dmac_unit_done.
UnitDone(ch) == [outstanding EXCEPT ![ch] = @ - 1]

\* A DMAC unit moves; an endpoint may be a register that raises e.
ServiceUnit(u, e, due) ==
    /\ at = "units" /\ First(u) /\ u.seq > 0
    /\ Stage(Notified(e),
             [staged EXCEPT ![u.ch] = SubSeq(@, 1, u.seq - 1) \o SubSeq(@, u.seq + 1, Len(@))],
             UnitDone(u.ch), due)
    /\ RaiseIcu({e}, Notified(e))
    /\ Recorded(e, due)
    /\ Completed(u.ch)
    /\ UNCHANGED <<links, copy, dtcCh, descriptor, area, now, at>>

ServiceCopy(u) ==
    /\ at = "units" /\ First(u) /\ u.seq = 0
    /\ copy' = copy \ {u.ch}
    /\ Completed(u.ch)
    /\ UNCHANGED <<links, dmac, staged, outstanding, engine, active, irqPending, raised, now, at>>

\* Stay active while units remain that are not yet due.
StaysActive == copy # {} \/ \E ch \in Chan : staged[ch] # <<>>

DrainDone ==
    /\ at = "units" /\ Due = {}
    /\ active' = (active /\ StaysActive)
    /\ at' = "firmware"
    /\ UNCHANGED <<links, dmac, staged, copy, outstanding, engine, completed, irqPending,
                   raised, now>>

-----------------------------------------------------------------------------
(* Firmware: every store to a register ends in a drain.                      *)

Drain == at' = IF active' THEN "dtc" ELSE "firmware"

WriteLinks ==
    /\ at = "firmware"
    /\ UNCHANGED <<dmac, staged, copy, outstanding, engine, active, completed,
                   irqPending, raised, now>>
    /\ Drain

WriteIelsr(irq, w) == ielsr' = [ielsr EXCEPT ![irq] = w] /\ UNCHANGED delsr /\ WriteLinks
WriteDelsr(ch, e) == delsr' = [delsr EXCEPT ![ch] = e] /\ UNCHANGED ielsr /\ WriteLinks

WriteDmac(ch, registers, kick, copies) ==
    /\ at = "firmware"
    /\ dmac' = [dmac EXCEPT ![ch] = registers]
    /\ active' = (active \/ kick)
    /\ copy' = copy \cup copies
    /\ Drain
    /\ UNCHANGED <<links, staged, outstanding, engine, completed, irqPending, raised, now>>

WriteDmcra(ch, n) == WriteDmac(ch, [dmac[ch] EXCEPT !.cra = n], FALSE, {})

\* DMCNT arms or disarms; a staged unit is not withdrawn.
WriteDmcnt(ch, dte) == WriteDmac(ch, [dmac[ch] EXCEPT !.dte = dte], TRUE, {})

WriteDmint(ch, dtie) == WriteDmac(ch, [dmac[ch] EXCEPT !.dtie = dtie], FALSE, {})

\* DMSTS: a bit written as 1 is cleared.
WriteDmsts(ch, bit) == WriteDmac(ch, [dmac[ch] EXCEPT !.dtif = @ /\ ~bit], FALSE, {})

WriteDmtmd(ch) == WriteDmac(ch, [dmac[ch] EXCEPT !.realMode = TRUE], FALSE, {})

\* The enable bit stages an immediate copy, until DMTMD was once written.
WriteChcr(ch) ==
    ~dmac[ch].realMode /\ dmac[ch].cra > 0 /\ WriteDmac(ch, dmac[ch], TRUE, {ch})

\* R_DTC_Reconfigure: a descriptor in SRAM, with settings the DTC does not hold
\* for the line unless Ops has "rebase".  A store to RAM drains nothing.
WriteDescriptor(irq, s, src) ==
    /\ at = "firmware" /\ (s # dtcCh[irq].settings \/ "rebase" \in Ops)
    /\ descriptor' = [descriptor EXCEPT ![irq] = [settings |-> s, src |-> src]]
    /\ area' = [area EXCEPT ![irq] = src]
    /\ UNCHANGED <<links, dmac, staged, copy, outstanding, dtcPending, dtcCh, active,
                   completed, irqPending, raised, now, at>>

TakeIrq(irq) ==
    /\ at = "firmware" /\ irq \in irqPending /\ irqPending' = irqPending \ {irq}
    /\ UNCHANGED <<links, dmac, staged, copy, outstanding, engine, active, completed,
                   raised, now, at>>

-----------------------------------------------------------------------------
(* The component API and the reset.                                          *)

CheckCompletion(ch) ==
    /\ at = "firmware" /\ completed' = completed \ {ch} /\ completed' # completed
    /\ UNCHANGED <<links, dmac, staged, copy, outstanding, engine, active, irqPending,
                   raised, now, at>>

SetCompleted(ch) ==
    /\ at = "firmware" /\ "api" \in Ops /\ Completed(ch) /\ completed' # completed
    /\ UNCHANGED <<links, dmac, staged, copy, outstanding, engine, active, irqPending,
                   raised, now, at>>

\* dtc_has_pending pops and activates again: only the flag may change.
DtcHasPending ==
    /\ at = "firmware" /\ "api" \in Ops /\ dtcPending # <<>> /\ active' = TRUE
    /\ UNCHANGED <<links, dmac, staged, copy, outstanding, engine, completed, irqPending,
                   raised, now, at>>

\* dma_take_pending removes a unit without executing it; bound: one before a reset.
TakePending(ch, i) ==
    /\ at = "firmware" /\ ch \in Taken /\ i \in DOMAIN staged[ch]
    /\ outstanding[ch] = Len(staged[ch])
    /\ staged' = [staged EXCEPT ![ch] = SubSeq(@, 1, i - 1) \o SubSeq(@, i + 1, Len(@))]
    /\ UNCHANGED <<links, dmac, copy, outstanding, engine, active, completed, irqPending,
                   raised, now, at>>

\* reset_globals and a new core; the flag and the clock go on.
Reset ==
    /\ at = "firmware" /\ "reset" \in Ops
    /\ ielsr' = [irq \in Irq |-> NoEvent] /\ delsr' = [ch \in Chan |-> NoLink]
    /\ dmac' = [ch \in Chan |-> Disarmed]
    /\ staged' = [ch \in Chan |-> <<>>] /\ copy' = {}
    /\ outstanding' = [ch \in Chan |-> 0]
    /\ dtcPending' = <<>> /\ dtcCh' = [irq \in Irq |-> NoRepeatState]
    /\ descriptor' = [irq \in Irq |-> NoDescriptor] /\ area' = [irq \in Irq |-> 0]
    /\ completed' = {} /\ irqPending' = {}
    /\ raised' = [e \in Timer |-> now]
    /\ UNCHANGED <<active, now, at>>

Init ==
    /\ ielsr = [irq \in Irq |-> NoEvent] /\ delsr = [ch \in Chan |-> NoLink]
    /\ dmac = [ch \in Chan |-> Disarmed]
    /\ staged = [ch \in Chan |-> <<>>] /\ copy = {}
    /\ outstanding = [ch \in Chan |-> 0]
    /\ dtcPending = <<>> /\ dtcCh = [irq \in Irq |-> NoRepeatState]
    /\ descriptor = [irq \in Irq |-> NoDescriptor] /\ area = [irq \in Irq |-> 0]
    /\ completed = {} /\ irqPending = {} /\ active = FALSE
    /\ raised = [e \in Timer |-> 0] /\ now = 0 /\ at = "firmware"

DmacWrite(ch) ==
    \/ \E n \in 0..MaxUnits : WriteDmcra(ch, n)
    \/ \E bit \in BOOLEAN : WriteDmcnt(ch, bit) \/ WriteDmint(ch, bit) \/ WriteDmsts(ch, bit)
    \/ WriteDmtmd(ch)
    \/ WriteChcr(ch)

DrainStep ==
    \/ \E e \in DtcEvents \cup {0}, due \in 0..MaxSlice : MayBeDue(e, due) /\ ServiceDtc(e, due)
    \/ DtcDone
    \/ \E u \in Due :
          \/ ServiceCopy(u)
          \/ \E e \in UnitEvents \cup {0}, due \in 0..MaxSlice :
                MayBeDue(e, due) /\ ServiceUnit(u, e, due)
    \/ DrainDone

Next ==
    \/ \E e \in Timer \cup Plain, due \in 0..MaxSlice : MayBeDue(e, due) /\ RaiseEvent(e, due)
    \/ DmacTick
    \/ Pass
    \/ RunDrain
    \/ DrainStep
    \/ \E ch \in Chan :
          \/ DmacWrite(ch)
          \/ \E e \in Delsr : WriteDelsr(ch, e)
          \/ CheckCompletion(ch)
          \/ SetCompleted(ch)
          \/ \E i \in 1..MaxUnits : TakePending(ch, i)
    \/ \E irq \in Irq :
          \/ \E w \in Ielsr : WriteIelsr(irq, w)
          \/ \E s \in Settings, src \in Sources : WriteDescriptor(irq, s, src)
          \/ TakeIrq(irq)
    \/ DtcHasPending
    \/ Reset

Spec == Init /\ [][Next]_vars

\* run drains while the flag is set and a drain is one uninterrupted call; the
\* driver ticks the DMAC again and again, so a channel that is ready to end at
\* infinitely many instants is found ready.
FairSpec == Spec /\ WF_vars(RunDrain) /\ WF_vars(DrainStep) /\ SF_vars(DmacTick)

-----------------------------------------------------------------------------
(* Properties.                                                               *)

\* What TransferService calls the arming, the count, the queue and the report.
Units(s) == [i \in DOMAIN s |-> s[i].unit]

Armed == [ch \in Chan |-> dmac[ch].dte]
Left  == [ch \in Chan |-> dmac[ch].cra]
Owed  == [ch \in Chan |-> Units(staged[ch])]
Told  == [ch \in Chan |-> dmac[ch].dtif]

Service == INSTANCE TransferService WITH armed <- Armed, left <- Left, owed <- Owed, ended <- Told

\* DMAC, queue, clock and run loop together implement TransferService: every unit
\* a channel accepts moves once and in order, and the channel ends only then.
IsService == Service!Spec

TypeOK ==
    /\ ielsr \in [Irq -> [event : 0..511, dtce : BOOLEAN]]
    /\ delsr \in [Chan -> Delsr \cup {NoLink}]
    /\ dmac \in [Chan -> [dte : BOOLEAN, cra : 0..MaxUnits, dtie : BOOLEAN, dtif : BOOLEAN,
                          realMode : BOOLEAN]]
    /\ staged \in [Chan -> Seq([slice : 0..now, unit : 1..MaxUnits])]
    /\ copy \subseteq Chan /\ completed \subseteq Chan
    /\ outstanding \in [Chan -> Nat]
    /\ dtcPending \in Seq(Irq) /\ irqPending \subseteq Irq
    /\ active \in BOOLEAN /\ now \in 0..MaxSlice /\ raised \in [Timer -> 0..now]
    /\ at \in {"firmware", "dtc", "units"}

\* The counter a channel's completion waits for is the number of its units in
\* the queue, whoever rearms, disarms or reloads the channel in between
\* (DMAC_OUTSTANDING, kept by two modules).
OutstandingAgree == \A ch \in Chan : outstanding[ch] = Len(staged[ch])

\* While anything waits to be moved the flag that makes run drain is set: no
\* transfer is left behind when the loop goes idle (DMA_ACTIVE).
GateOpen ==
    dtcPending # <<>> \/ copy # {} \/ (\E ch \in Chan : staged[ch] # <<>>) => active

\* The DTC reads only within the area firmware chose last: a repeating source
\* returns to its own start, a normal transfer stops at its end.
AreaHonoured ==
    \A irq \in Irq :
        LET d == descriptor[irq]  s == d.settings IN
        s = dtcCh[irq].settings /\ s.length > 0 =>
            CASE s.mode = "normal" -> (d.src - area[irq]) % Room <= s.length
              [] s.mode = "repeat" /\ s.srcRepeat -> (d.src - area[irq]) % Room < s.length
              [] OTHER -> TRUE

\* Event 0 stands for no event and moves nothing, whatever DELSR holds.
NoneNeverFires == \A ch \in Chan : delsr[ch] = 0 => staged[ch] = <<>>

\* Whatever waits is served: a drain ends, and leaves nothing due behind.
AllServed ==
    dtcPending # <<>> \/ copy # {} \/ (\E ch \in Chan : staged[ch] # <<>>)
        ~> at = "firmware" /\ dtcPending = <<>> /\ copy = {} /\ \A ch \in Chan : staged[ch] = <<>>

\* A channel whose units are used up ends, unless firmware reloads it.
EndReported ==
    \A ch \in Chan : dmac[ch].dte /\ dmac[ch].cra = 0 ~> ~dmac[ch].dte \/ dmac[ch].cra > 0
=============================================================================
