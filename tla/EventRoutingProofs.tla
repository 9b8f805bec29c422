------------------------- MODULE EventRoutingProofs -------------------------
(***************************************************************************)
(* Theorems about EventRouting, for any channels, lines, links and events:   *)
(* the counter a completion waits for agrees with the queue, the run loop's  *)
(* flag is set while anything waits, the DTC stays within its areas, and the *)
(* whole implements the service.                                             *)
(***************************************************************************)
EXTENDS EventRouting, SequenceTheorems, TLAPS

Unit == [slice : Nat, unit : Nat]
Registers == [dte : BOOLEAN, cra : Nat, dtie : BOOLEAN, dtif : BOOLEAN, realMode : BOOLEAN]

\* The part of TypeOK the queue rests on.
QueueTypeOK ==
    /\ dmac \in [Chan -> Registers]
    /\ staged \in [Chan -> Seq(Unit)]
    /\ outstanding \in [Chan -> Nat]
    /\ now \in Nat

QueueInv == QueueTypeOK /\ OutstandingAgree

-----------------------------------------------------------------------------
(* The queue.                                                                *)

\* What a segment of a sequence is.
LEMMA Segment ==
    ASSUME NEW T, NEW s \in Seq(T), NEW m \in Nat, NEW n \in Nat, 1 <= m, m <= n + 1, n <= Len(s)
    PROVE  /\ SubSeq(s, m, n) \in Seq(T) /\ Len(SubSeq(s, m, n)) = n - m + 1
           /\ \A j \in 1..(n - m + 1) : SubSeq(s, m, n)[j] = s[m + j - 1]
<1>1. \A j \in m..n : s[j] \in T
  OBVIOUS
<1>2. /\ SubSeq(s, m, n) \in Seq(T)
      /\ Len(SubSeq(s, m, n)) = IF m <= n THEN n - m + 1 ELSE 0
      /\ \A j \in 1..(n - m + 1) : SubSeq(s, m, n)[j] = s[m + j - 1]
  BY <1>1, SubSeqProperties
<1> QED BY <1>2

\* A sequence without its i-th element is one shorter.
LEMMA Removed ==
    ASSUME NEW T, NEW s \in Seq(T), NEW i \in 1..Len(s)
    PROVE  /\ SubSeq(s, 1, i - 1) \o SubSeq(s, i + 1, Len(s)) \in Seq(T)
           /\ Len(SubSeq(s, 1, i - 1) \o SubSeq(s, i + 1, Len(s))) = Len(s) - 1
<1> DEFINE before == SubSeq(s, 1, i - 1)
<1> DEFINE after  == SubSeq(s, i + 1, Len(s))
<1>1. before \in Seq(T) /\ Len(before) = i - 1
  <2>1. i - 1 \in Nat /\ i - 1 <= Len(s)
    OBVIOUS
  <2> QED BY <2>1, Segment
<1>2. after \in Seq(T) /\ Len(after) = Len(s) - i
  <2>1. i + 1 \in Nat /\ 1 <= i + 1 /\ i + 1 <= Len(s) + 1 /\ Len(s) \in Nat /\ Len(s) <= Len(s)
    OBVIOUS
  <2>2. Len(s) - (i + 1) + 1 = Len(s) - i
    OBVIOUS
  <2>3. after \in Seq(T) /\ Len(after) = Len(s) - (i + 1) + 1
    BY <2>1, Segment
  <2> QED BY <2>2, <2>3
<1> HIDE DEF before, after
<1>3. before \o after \in Seq(T) /\ Len(before \o after) = Len(before) + Len(after)
  BY <1>1, <1>2, ConcatProperties
<1>4. Len(before) + Len(after) = Len(s) - 1
  BY <1>1, <1>2
<1> QED BY <1>3, <1>4 DEF before, after

\* Staging a unit for each of some channels keeps the counters in step.
LEMMA StageKeeps ==
    ASSUME NEW S, S \subseteq {ch \in Chan : dmac[ch].cra > 0}, QueueTypeOK,
           NEW queue \in [Chan -> Seq(Unit)], NEW count \in [Chan -> Nat],
           \A ch \in Chan : count[ch] = Len(queue[ch]),
           NEW due \in Nat, Stage(S, queue, count, due), now' = now
    PROVE  QueueInv'
<1>1. dmac' \in [Chan -> Registers]
  <2>1. ASSUME NEW ch \in Chan, ch \in S PROVE [dmac[ch] EXCEPT !.cra = dmac[ch].cra - 1] \in Registers
    <3>1. dmac[ch] \in Registers /\ dmac[ch].cra > 0
      BY <2>1 DEF QueueTypeOK
    <3>2. dmac[ch].cra \in Nat
      BY <3>1 DEF Registers
    <3>3. dmac[ch].cra - 1 \in Nat
      BY <3>1, <3>2
    <3> QED BY <3>1, <3>3 DEF Registers
  <2> QED BY <2>1 DEF Stage, QueueTypeOK
<1>2. ASSUME NEW ch \in Chan
      PROVE  staged'[ch] \in Seq(Unit) /\ outstanding'[ch] \in Nat /\ outstanding'[ch] = Len(staged'[ch])
  <2> DEFINE u == [slice |-> due, unit |-> dmac[ch].cra]
  <2>1. u \in Unit
    BY DEF QueueTypeOK, Registers, Unit
  <2>2. CASE ch \in S
    <3>1. staged'[ch] = Append(queue[ch], u) /\ outstanding'[ch] = count[ch] + 1
      BY <2>2 DEF Stage, Counted
    <3> QED BY <3>1, <2>1, AppendProperties
  <2>3. CASE ch \notin S
    BY <2>3 DEF Stage, Counted
  <2> QED BY <2>2, <2>3
<1> QED BY <1>1, <1>2 DEF QueueInv, QueueTypeOK, OutstandingAgree, Stage, Counted

\* Only an armed channel with units left is asked for one.
LEMMA NotifiedHaveUnits ==
    ASSUME NEW e PROVE Notified(e) \subseteq {ch \in Chan : dmac[ch].dte /\ dmac[ch].cra > 0}
BY DEF Notified, Requested

\* A raised event keeps the counters in step.
LEMMA RaiseEventQueue ==
    ASSUME RoutingAssumption, QueueInv, NEW e, NEW due \in 0..MaxSlice, RaiseEvent(e, due)
    PROVE  QueueInv'
<1>1. Notified(e) \subseteq {ch \in Chan : dmac[ch].cra > 0}
  BY NotifiedHaveUnits
<1>2. staged \in [Chan -> Seq(Unit)] /\ outstanding \in [Chan -> Nat]
      /\ \A ch \in Chan : outstanding[ch] = Len(staged[ch])
  BY DEF QueueInv, QueueTypeOK, OutstandingAgree
<1>3. due \in Nat
  BY DEF RoutingAssumption
<1> QED BY <1>1, <1>2, <1>3, StageKeeps DEF RaiseEvent, QueueInv

\* So does a transfer of the DTC that raises one.
LEMMA ServiceDtcQueue ==
    ASSUME RoutingAssumption, QueueInv, NEW e, NEW due \in 0..MaxSlice, ServiceDtc(e, due)
    PROVE  QueueInv'
<1>1. Notified(e) \subseteq {ch \in Chan : dmac[ch].cra > 0}
  BY NotifiedHaveUnits
<1>2. staged \in [Chan -> Seq(Unit)] /\ outstanding \in [Chan -> Nat]
      /\ \A ch \in Chan : outstanding[ch] = Len(staged[ch])
  BY DEF QueueInv, QueueTypeOK, OutstandingAgree
<1>3. due \in Nat
  BY DEF RoutingAssumption
<1>4. CASE UNCHANGED <<dmac, staged, outstanding, now>>
  BY <1>4 DEF QueueInv, QueueTypeOK, OutstandingAgree
<1>5. CASE Stage(Notified(e), staged, outstanding, due) /\ now' = now
  BY <1>1, <1>2, <1>3, <1>5, StageKeeps DEF QueueInv
<1> QED BY <1>4, <1>5 DEF ServiceDtc

\* What is due of the staged units is in the queue.
LEMMA DueIsStaged ==
    ASSUME NEW u \in Due, u.seq > 0
    PROVE  u.ch \in Chan /\ u.seq \in DOMAIN staged[u.ch] /\ u.slice = staged[u.ch][u.seq].slice
<1>1. CASE u \in Copies
  BY <1>1 DEF Copies
<1>2. CASE \E ch \in Chan : u \in Staged(ch)
  <2>1. PICK ch \in Chan : u \in Staged(ch)
    BY <1>2
  <2>2. PICK i \in DOMAIN staged[ch] : u = [slice |-> staged[ch][i].slice, ch |-> ch, seq |-> i]
    BY <2>1, Zenon DEF Staged
  <2>3. u.ch = ch /\ u.seq = i /\ u.slice = staged[ch][i].slice
    BY <2>2
  <2> QED BY <2>3
<1> QED BY <1>1, <1>2 DEF Due

\* A unit that moves leaves the queue and the counter together, and what it raises
\* enters both.
LEMMA ServiceUnitQueue ==
    ASSUME RoutingAssumption, QueueInv, NEW u \in Due, NEW e, NEW due \in 0..MaxSlice,
           ServiceUnit(u, e, due)
    PROVE  QueueInv'
<1> DEFINE queue == [staged EXCEPT ![u.ch] = SubSeq(@, 1, u.seq - 1) \o SubSeq(@, u.seq + 1, Len(@))]
<1>1. u.ch \in Chan /\ u.seq \in DOMAIN staged[u.ch]
  BY DueIsStaged DEF ServiceUnit
<1>2. staged[u.ch] \in Seq(Unit) /\ u.seq \in 1..Len(staged[u.ch])
  BY <1>1 DEF QueueInv, QueueTypeOK
<1>3. queue[u.ch] \in Seq(Unit) /\ Len(queue[u.ch]) = Len(staged[u.ch]) - 1
  <2>1. queue[u.ch] = SubSeq(staged[u.ch], 1, u.seq - 1) \o SubSeq(staged[u.ch], u.seq + 1, Len(staged[u.ch]))
    BY <1>1 DEF QueueInv, QueueTypeOK
  <2> QED BY <2>1, <1>2, Removed
<1>4. \A ch \in Chan \ {u.ch} : queue[ch] = staged[ch]
  BY DEF QueueInv, QueueTypeOK
<1>5. queue \in [Chan -> Seq(Unit)]
  BY <1>3, <1>4 DEF QueueInv, QueueTypeOK
<1>6. UnitDone(u.ch) \in [Chan -> Nat] /\ \A ch \in Chan : UnitDone(u.ch)[ch] = Len(queue[ch])
  <2>1. outstanding[u.ch] = Len(staged[u.ch]) /\ Len(staged[u.ch]) >= 1
    BY <1>1, <1>2 DEF QueueInv, OutstandingAgree
  <2>2. UnitDone(u.ch)[u.ch] = Len(queue[u.ch]) /\ UnitDone(u.ch)[u.ch] \in Nat
    <3> HIDE DEF queue
    <3>1. UnitDone(u.ch)[u.ch] = outstanding[u.ch] - 1
      BY <1>1 DEF UnitDone, QueueInv, QueueTypeOK
    <3>2. Len(staged[u.ch]) - 1 \in Nat
      BY <1>2
    <3> QED BY <1>3, <2>1, <3>1, <3>2
  <2>3. \A ch \in Chan \ {u.ch} : UnitDone(u.ch)[ch] = Len(queue[ch]) /\ UnitDone(u.ch)[ch] \in Nat
    BY <1>4 DEF UnitDone, QueueInv, QueueTypeOK, OutstandingAgree
  <2> QED BY <2>2, <2>3 DEF UnitDone, QueueInv, QueueTypeOK
<1>7. Notified(e) \subseteq {ch \in Chan : dmac[ch].cra > 0} /\ due \in Nat
  BY NotifiedHaveUnits DEF RoutingAssumption
<1> HIDE DEF queue
<1>8. Stage(Notified(e), queue, UnitDone(u.ch), due) /\ now' = now
  BY DEF ServiceUnit, queue
<1> QED BY <1>5, <1>6, <1>7, <1>8, StageKeeps DEF QueueInv

\* Firmware's stores to a channel's registers leave the queue alone.
LEMMA DmacWriteQueue ==
    ASSUME RoutingAssumption, QueueInv, NEW ch \in Chan, DmacWrite(ch)
    PROVE  QueueInv'
<1>1. dmac[ch] \in Registers
  BY DEF QueueInv, QueueTypeOK
<1>2. ASSUME NEW r \in Registers, NEW kick, NEW copies, WriteDmac(ch, r, kick, copies) PROVE QueueInv'
  BY <1>2 DEF WriteDmac, QueueInv, QueueTypeOK, OutstandingAgree
<1>3. ASSUME NEW n \in 0..MaxUnits, WriteDmcra(ch, n) PROVE QueueInv'
  <2>1. n \in Nat
    BY DEF RoutingAssumption
  <2>2. [dmac[ch] EXCEPT !.cra = n] \in Registers
    BY <1>1, <2>1 DEF Registers
  <2> QED BY <1>2, <1>3, <2>2 DEF WriteDmcra
<1>4. ASSUME NEW bit \in BOOLEAN, WriteDmcnt(ch, bit) \/ WriteDmint(ch, bit) \/ WriteDmsts(ch, bit)
      PROVE QueueInv'
  <2>1. /\ [dmac[ch] EXCEPT !.dte = bit] \in Registers
        /\ [dmac[ch] EXCEPT !.dtie = bit] \in Registers
        /\ [dmac[ch] EXCEPT !.dtif = dmac[ch].dtif /\ ~bit] \in Registers
    BY <1>1 DEF Registers
  <2> QED BY <1>2, <1>4, <2>1 DEF WriteDmcnt, WriteDmint, WriteDmsts
<1>5. ASSUME WriteDmtmd(ch) PROVE QueueInv'
  <2>1. [dmac[ch] EXCEPT !.realMode = TRUE] \in Registers
    BY <1>1 DEF Registers
  <2> QED BY <1>2, <1>5, <2>1 DEF WriteDmtmd
<1>6. ASSUME WriteChcr(ch) PROVE QueueInv'
  BY <1>1, <1>2, <1>6 DEF WriteChcr
<1> QED BY <1>3, <1>4, <1>5, <1>6 DEF DmacWrite

\* An end disarms a channel and leaves queue and counters alone.
LEMMA DmacTickQueue == ASSUME QueueInv, DmacTick PROVE QueueInv'
<1>1. ASSUME NEW ch \in Chan PROVE [dmac[ch] EXCEPT !.dte = FALSE, !.dtif = TRUE] \in Registers
  BY DEF QueueInv, QueueTypeOK, Registers
<1> QED BY <1>1 DEF DmacTick, QueueInv, QueueTypeOK, OutstandingAgree

\* A reset empties the queue and the counters.
LEMMA ResetQueue == ASSUME QueueInv, Reset PROVE QueueInv'
<1>1. Disarmed \in Registers
  BY DEF Disarmed, Registers
<1>2. <<>> \in Seq(Unit) /\ Len(<<>>) = 0
  OBVIOUS
<1> QED BY <1>1, <1>2 DEF Reset, QueueInv, QueueTypeOK, OutstandingAgree

\* Nothing is staged or counted at the start.
LEMMA QueueInit == Init => QueueInv
<1>1. Disarmed \in Registers
  BY DEF Disarmed, Registers
<1>2. <<>> \in Seq(Unit) /\ Len(<<>>) = 0
  OBVIOUS
<1> QED BY <1>1, <1>2 DEF Init, QueueInv, QueueTypeOK, OutstandingAgree

\* No step lets a counter and its queue disagree, as long as no component takes units.
LEMMA QueueStep ==
    ASSUME RoutingAssumption, Taken = {}, QueueInv, [Next]_vars
    PROVE  QueueInv'
<1>1. ASSUME UNCHANGED <<dmac, staged, outstanding, now>> PROVE QueueInv'
  BY <1>1 DEF QueueInv, QueueTypeOK, OutstandingAgree
<1>2. ASSUME NEW e, NEW due \in 0..MaxSlice, RaiseEvent(e, due) PROVE QueueInv'
  BY <1>2, RaiseEventQueue
<1>3. ASSUME Pass PROVE QueueInv'
  BY <1>3 DEF Pass, QueueInv, QueueTypeOK, OutstandingAgree
<1>4. ASSUME DrainStep PROVE QueueInv'
  <2>1. ASSUME NEW e, NEW due \in 0..MaxSlice, ServiceDtc(e, due) PROVE QueueInv'
    BY <2>1, ServiceDtcQueue
  <2>2. ASSUME NEW u \in Due, NEW e, NEW due \in 0..MaxSlice, ServiceUnit(u, e, due) PROVE QueueInv'
    BY <2>2, ServiceUnitQueue
  <2>3. ASSUME NEW u, DtcDone \/ DrainDone \/ ServiceCopy(u) PROVE QueueInv'
    BY <2>3, <1>1 DEF DtcDone, DrainDone, ServiceCopy
  <2> QED BY <1>4, <2>1, <2>2, <2>3 DEF DrainStep
<1>5. ASSUME NEW ch \in Chan, NEW e,
             WriteDelsr(ch, e) \/ CheckCompletion(ch) \/ SetCompleted(ch) PROVE QueueInv'
  BY <1>1, <1>5 DEF WriteDelsr, WriteLinks, CheckCompletion, SetCompleted
<1>6. ASSUME NEW ch \in Chan, NEW i, TakePending(ch, i) PROVE QueueInv'
  BY <1>6 DEF TakePending
<1>7. ASSUME NEW irq \in Irq, NEW w, NEW s, NEW src,
             WriteIelsr(irq, w) \/ WriteDescriptor(irq, s, src) \/ TakeIrq(irq) PROVE QueueInv'
  BY <1>1, <1>7 DEF WriteIelsr, WriteLinks, WriteDescriptor, TakeIrq
<1>8. ASSUME RunDrain \/ DtcHasPending \/ UNCHANGED vars PROVE QueueInv'
  BY <1>1, <1>8 DEF RunDrain, DtcHasPending, vars
<1> QED BY <1>2, <1>3, <1>4, <1>5, <1>6, <1>7, <1>8, DmacTickQueue, DmacWriteQueue, ResetQueue DEF Next

\* The counter a channel's completion waits for is the number of its units in the
\* queue, for any channels, links and events, as long as no component takes units
\* out of the queue (dmac_unit_queued and dmac_unit_done against pending_dma).
THEOREM CountersAgree ==
    ASSUME RoutingAssumption, Taken = {}
    PROVE  Spec => []OutstandingAgree
<1>1. QueueInv /\ [Next]_vars => QueueInv'
  BY QueueStep
<1>2. QueueInv => OutstandingAgree
  BY DEF QueueInv
<1> QED BY <1>1, <1>2, QueueInit, PTL DEF Spec

-----------------------------------------------------------------------------
(* The flag.  The units of the DMAC are moved after the activations of the    *)
(* DTC: one that a unit brings about stays behind, so the flag is only proved *)
(* where no unit brings about an activation.                                 *)

UnitsActivateNothing == \A w \in Ielsr : w.dtce => w.event \notin UnitEvents

Waiting == dtcPending # <<>> \/ copy # {} \/ \E ch \in Chan : staged[ch] # <<>>

GateInv ==
    /\ Waiting => active
    /\ at = "units" => dtcPending = <<>>
    /\ ielsr \in [Irq -> Ielsr \cup {NoEvent}]

\* Raising events leaves nothing behind with the flag down.
LEMMA RaiseGate ==
    ASSUME NEW E, NEW S, RaiseIcu(E, S)
    PROVE  /\ active' <=> Kicked(E, S)
           /\ dtcPending' # dtcPending => active'
<1>1. CASE UNION {Activated(e) : e \in E} = {}
  <2>1. dtcPending' = dtcPending
    BY <1>1 DEF RaiseIcu, Activate
  <2> QED BY <2>1 DEF RaiseIcu
<1>2. CASE UNION {Activated(e) : e \in E} # {}
  <2>1. \E e \in E : Activated(e) # {}
    BY <1>2
  <2> QED BY <2>1 DEF RaiseIcu, Kicked
<1> QED BY <1>1, <1>2

\* A unit that moves activates no line.
LEMMA UnitsActivate ==
    ASSUME UnitsActivateNothing, GateInv, NEW e \in UnitEvents \cup {0}
    PROVE  Activate(dtcPending, {e}) = dtcPending
<1>1. Activated(e) = {}
  <2> SUFFICES ASSUME NEW irq \in Irq, e # 0, ielsr[irq].event = e, ielsr[irq].dtce PROVE FALSE
    BY DEF Activated, Selecting
  <2>1. ielsr[irq] \in Ielsr \/ ielsr[irq] = NoEvent
    BY DEF GateInv
  <2> QED BY <2>1 DEF UnitsActivateNothing, NoEvent
<1>2. UNION {Activated(x) : x \in {e}} = {}
  BY <1>1
<1> QED BY <1>2 DEF Activate

\* A drain lowers the flag only when nothing is left to move.
LEMMA DrainGate ==
    ASSUME UnitsActivateNothing, GateInv, DrainStep
    PROVE  GateInv'
<1>1. ASSUME NEW e, NEW due, ServiceDtc(e, due) PROVE GateInv'
  <2>1. active
    BY <1>1 DEF ServiceDtc, GateInv, Waiting
  <2>2. active' = active \/ active' = Kicked({e}, Notified(e))
    BY <1>1 DEF ServiceDtc, FireUnit
  <2>3. active'
    BY <2>1, <2>2 DEF Kicked
  <2> QED BY <1>1, <2>3 DEF ServiceDtc, links, GateInv
<1>2. ASSUME DtcDone PROVE GateInv'
  BY <1>2 DEF DtcDone, engine, links, GateInv, Waiting
<1>3. ASSUME NEW u \in Due, ServiceCopy(u) PROVE GateInv'
  <2>1. copy' \subseteq copy
    BY <1>3 DEF ServiceCopy
  <2> QED BY <1>3, <2>1 DEF ServiceCopy, engine, links, GateInv, Waiting
<1>4. ASSUME NEW u \in Due, NEW e \in UnitEvents \cup {0}, NEW due, ServiceUnit(u, e, due) PROVE GateInv'
  <2>1. u.ch \in Chan /\ u.seq \in DOMAIN staged[u.ch]
    BY <1>4, DueIsStaged DEF ServiceUnit
  <2>2. active
    BY <2>1 DEF GateInv, Waiting
  <2>3. active'
    BY <1>4, <2>2 DEF ServiceUnit, RaiseIcu, Kicked
  <2>4. dtcPending' = dtcPending
    BY <1>4, UnitsActivate DEF ServiceUnit, RaiseIcu
  <2> QED BY <1>4, <2>3, <2>4 DEF ServiceUnit, links, GateInv
<1>5. ASSUME DrainDone PROVE GateInv'
  BY <1>5 DEF DrainDone, StaysActive, engine, links, GateInv, Waiting
<1> QED BY <1>1, <1>2, <1>3, <1>4, <1>5 DEF DrainStep

\* Whoever stages a copy by a register also raises the flag.
LEMMA DmacWriteGate == ASSUME GateInv, NEW ch, DmacWrite(ch) PROVE GateInv'
<1>1. ASSUME NEW r, NEW kick \in BOOLEAN, NEW copies, copies # {} => kick, WriteDmac(ch, r, kick, copies)
      PROVE  GateInv'
  <2>1. active' <=> active \/ kick
    BY <1>1 DEF WriteDmac
  <2>2. copy' # {} => copy # {} \/ kick
    BY <1>1 DEF WriteDmac
  <2>3. at' # "units"
    BY <1>1 DEF WriteDmac, Drain
  <2> QED BY <1>1, <2>1, <2>2, <2>3 DEF WriteDmac, engine, links, GateInv, Waiting
<1>2. ASSUME NEW n, WriteDmcra(ch, n) PROVE GateInv'
  BY <1>1, <1>2 DEF WriteDmcra
<1>3. ASSUME NEW bit, WriteDmcnt(ch, bit) PROVE GateInv'
  BY <1>1, <1>3 DEF WriteDmcnt
<1>4. ASSUME NEW bit, WriteDmint(ch, bit) \/ WriteDmsts(ch, bit) \/ WriteDmtmd(ch) PROVE GateInv'
  BY <1>1, <1>4 DEF WriteDmint, WriteDmsts, WriteDmtmd
<1>5. ASSUME WriteChcr(ch) PROVE GateInv'
  BY <1>1, <1>5 DEF WriteChcr
<1> QED BY <1>2, <1>3, <1>4, <1>5 DEF DmacWrite

\* Nothing waits at the start.
LEMMA GateInit == Init => GateInv
BY DEF Init, GateInv, Waiting

\* No step leaves work behind a lowered flag.
LEMMA GateStep ==
    ASSUME UnitsActivateNothing, GateInv, [Next]_vars
    PROVE  GateInv'
<1>1. ASSUME UNCHANGED <<ielsr, staged, copy, dtcPending, active, at>> PROVE GateInv'
  BY <1>1 DEF GateInv, Waiting
<1>2. ASSUME NEW e, NEW due, RaiseEvent(e, due) PROVE GateInv'
  <2>1. \A ch \in Chan : staged'[ch] # <<>> => staged[ch] # <<>> \/ Notified(e) # {}
    BY <1>2 DEF RaiseEvent, Stage
  <2>2. /\ active' <=> Kicked({e}, Notified(e))
        /\ dtcPending' # dtcPending => active'
    BY <1>2, RaiseGate DEF RaiseEvent
  <2>3. active \/ Notified(e) # {} => active'
    BY <2>2 DEF Kicked
  <2> QED BY <1>2, <2>1, <2>2, <2>3 DEF RaiseEvent, links, GateInv, Waiting
<1>3. ASSUME DmacTick PROVE GateInv'
  <2> DEFINE E == {EndEvent(ch) : ch \in {c \in Ended : dmac[c].dtie}}
  <2>1. /\ active' <=> Kicked(E, {})
        /\ dtcPending' # dtcPending => active'
    BY <1>3, RaiseGate DEF DmacTick
  <2>2. active => active'
    BY <2>1 DEF Kicked
  <2> QED BY <1>3, <2>1, <2>2 DEF DmacTick, links, GateInv, Waiting
<1>4. ASSUME Pass \/ RunDrain \/ UNCHANGED vars PROVE GateInv'
  BY <1>4 DEF Pass, RunDrain, vars, engine, links, GateInv, Waiting
<1>5. ASSUME NEW ch, NEW e,
             WriteDelsr(ch, e) \/ CheckCompletion(ch) \/ SetCompleted(ch) PROVE GateInv'
  BY <1>5 DEF WriteDelsr, WriteLinks, Drain, CheckCompletion, SetCompleted, engine, links, GateInv, Waiting
<1>6. ASSUME NEW ch \in Chan, NEW i, TakePending(ch, i) PROVE GateInv'
  <2>1. active
    BY <1>6 DEF TakePending, GateInv, Waiting
  <2> QED BY <1>6, <2>1 DEF TakePending, engine, links, GateInv
<1>7. ASSUME NEW irq \in Irq, NEW w \in Ielsr, WriteIelsr(irq, w) PROVE GateInv'
  BY <1>7 DEF WriteIelsr, WriteLinks, Drain, engine, GateInv, Waiting
<1>8. ASSUME NEW irq, NEW s, NEW src, WriteDescriptor(irq, s, src) \/ TakeIrq(irq) PROVE GateInv'
  BY <1>1, <1>8 DEF WriteDescriptor, TakeIrq, engine, links
<1>9. ASSUME DtcHasPending PROVE GateInv'
  BY <1>9 DEF DtcHasPending, engine, links, GateInv, Waiting
<1>10. ASSUME Reset PROVE GateInv'
  BY <1>10 DEF Reset, GateInv, Waiting
<1> QED BY <1>2, <1>3, <1>4, <1>5, <1>6, <1>7, <1>8, <1>9, <1>10, DrainGate, DmacWriteGate DEF Next

\* While an activation, a copy or a staged unit waits the flag that makes run drain
\* is set, for any channels, links and events, as long as no link hands an event
\* that a DMAC unit may raise to the DTC (DMA_ACTIVE, dma_kick, dma_idle).
THEOREM NothingLeftBehind ==
    ASSUME UnitsActivateNothing
    PROVE  Spec => []GateOpen
<1>1. GateInv /\ [Next]_vars => GateInv'
  BY GateStep
<1>2. GateInv => GateOpen
  BY DEF GateInv, GateOpen, Waiting
<1> QED BY <1>1, <1>2, GateInit, PTL DEF Spec

-----------------------------------------------------------------------------
(* The service.  EventRouting implements TransferService: links, queue,      *)
(* clock and drain together move every accepted unit of a channel once and   *)
(* in order, and end the channel only when all have moved.                   *)

\* With two timers a channel that is linked to the other one could receive a unit
\* that is due before those it has.
OneTimer == \A e, f \in Timer : e = f

\* The units of a channel are queued in the order in which they are due.
Sorted(s) == \A i, j \in DOMAIN s : i <= j => s[i].slice <= s[j].slice
UpTo(s, due) == \A i \in DOMAIN s : s[i].slice <= due

OrderInv ==
    /\ raised \in [Timer -> Nat]
    /\ \A ch \in Chan : Sorted(staged[ch]) /\ \A e \in Timer : UpTo(staged[ch], raised[e])

ServiceInv == QueueInv /\ OrderInv

-----------------------------------------------------------------------------
(* Sequences of units.                                                       *)

\* The units of a queue are its entries without their slices.
LEMMA UnitsType ==
    ASSUME NEW s \in Seq(Unit)
    PROVE  Units(s) \in Seq(Nat) /\ Len(Units(s)) = Len(s) /\ \A i \in 1..Len(s) : Units(s)[i] = s[i].unit
<1>1. \A i \in 1..Len(s) : s[i].unit \in Nat
  <2>1. \A i \in 1..Len(s) : s[i] \in Unit
    OBVIOUS
  <2> QED BY <2>1 DEF Unit
<1>2. DOMAIN s = 1..Len(s) /\ Len(s) \in Nat
  OBVIOUS
<1>3. Units(s) = [i \in 1..Len(s) |-> s[i].unit]
  BY <1>2 DEF Units
<1> QED BY <1>1, <1>2, <1>3

\* No entries, no units.
LEMMA UnitsEmpty == Units(<<>>) = <<>>
<1>1. <<>> \in Seq(Unit) /\ Len(<<>>) = 0
  OBVIOUS
<1>2. Units(<<>>) \in Seq(Nat) /\ Len(Units(<<>>)) = 0
  BY <1>1, UnitsType
<1> QED BY <1>2, EmptySeq

\* Appending an entry appends its unit.
LEMMA UnitsAppend ==
    ASSUME NEW s \in Seq(Unit), NEW u \in Unit
    PROVE  Units(Append(s, u)) = Append(Units(s), u.unit)
<1> DEFINE a == Append(s, u)
<1> DEFINE b == Append(Units(s), u.unit)
<1>1. a \in Seq(Unit) /\ Len(a) = Len(s) + 1 /\ a[Len(s) + 1] = u /\ \A i \in 1..Len(s) : a[i] = s[i]
  BY AppendProperties
<1>2. u.unit \in Nat
  BY DEF Unit
<1>3. /\ b \in Seq(Nat) /\ Len(b) = Len(s) + 1 /\ b[Len(s) + 1] = u.unit
      /\ \A i \in 1..Len(s) : b[i] = s[i].unit
  BY <1>2, UnitsType, AppendProperties
<1> HIDE DEF a, b
<1>4. Units(a) \in Seq(Nat) /\ Len(Units(a)) = Len(s) + 1 /\ \A i \in 1..(Len(s) + 1) : Units(a)[i] = a[i].unit
  BY <1>1, UnitsType
<1>5. \A i \in 1..(Len(s) + 1) : Units(a)[i] = b[i]
  <2>1. \A i \in 1..(Len(s) + 1) : i \in 1..Len(s) \/ i = Len(s) + 1
    OBVIOUS
  <2> QED BY <1>1, <1>3, <1>4, <2>1
<1>6. Units(a) = b
  BY <1>3, <1>4, <1>5, SeqEqual
<1> QED BY <1>6 DEF a, b

\* Removing the oldest entry removes the oldest unit.
LEMMA UnitsTail ==
    ASSUME NEW s \in Seq(Unit), s # <<>>
    PROVE  Units(Tail(s)) = Tail(Units(s)) /\ Units(s) # <<>>
<1>1. Len(s) \in Nat \ {0}
  BY EmptySeq
<1>2. Tail(s) \in Seq(Unit) /\ Len(Tail(s)) = Len(s) - 1 /\ \A i \in 1..Len(Tail(s)) : Tail(s)[i] = s[i + 1]
  BY HeadTailProperties
<1>3. Units(s) \in Seq(Nat) /\ Len(Units(s)) = Len(s) /\ \A i \in 1..Len(s) : Units(s)[i] = s[i].unit
  BY UnitsType
<1>4. Units(s) # <<>>
  BY <1>1, <1>3, EmptySeq
<1>5. /\ Tail(Units(s)) \in Seq(Nat) /\ Len(Tail(Units(s))) = Len(s) - 1
      /\ \A i \in 1..(Len(s) - 1) : Tail(Units(s))[i] = Units(s)[i + 1]
  BY <1>3, <1>4, HeadTailProperties
<1>6. /\ Units(Tail(s)) \in Seq(Nat) /\ Len(Units(Tail(s))) = Len(s) - 1
      /\ \A i \in 1..(Len(s) - 1) : Units(Tail(s))[i] = Tail(s)[i].unit
  BY <1>2, UnitsType
<1>7. \A i \in 1..(Len(s) - 1) : Units(Tail(s))[i] = Tail(Units(s))[i]
  <2>1. \A i \in 1..(Len(s) - 1) : i + 1 \in 1..Len(s)
    BY <1>1
  <2> QED BY <1>2, <1>3, <1>5, <1>6, <2>1
<1>8. Units(Tail(s)) = Tail(Units(s))
  BY <1>5, <1>6, <1>7, SeqEqual
<1> QED BY <1>4, <1>8

\* Slices are numbers.
LEMMA SliceNat == ASSUME NEW s \in Seq(Unit), NEW i \in DOMAIN s PROVE s[i].slice \in Nat
<1>1. s[i] \in Unit
  OBVIOUS
<1> QED BY <1>1 DEF Unit

\* A unit that is due no earlier than the others goes to the end.
LEMMA AppendSorted ==
    ASSUME NEW s \in Seq(Unit), NEW u \in Unit, Sorted(s), UpTo(s, u.slice)
    PROVE  Sorted(Append(s, u)) /\ UpTo(Append(s, u), u.slice)
<1> DEFINE a == Append(s, u)
<1>1. /\ DOMAIN a = 1..(Len(s) + 1) /\ a[Len(s) + 1] = u
      /\ \A i \in 1..Len(s) : a[i] = s[i]
  <2>1. a \in Seq(Unit) /\ Len(a) = Len(s) + 1
    BY AppendProperties
  <2> QED BY <2>1, AppendProperties
<1>2. DOMAIN s = 1..Len(s) /\ Len(s) \in Nat /\ u.slice \in Nat
  BY DEF Unit
<1> HIDE DEF a
<1>3. \A i \in DOMAIN a : i \in DOMAIN s \/ i = Len(s) + 1
  BY <1>1, <1>2
<1>4. \A i \in DOMAIN a : a[i].slice <= u.slice
  BY <1>1, <1>2, <1>3 DEF UpTo
<1>5. ASSUME NEW i \in DOMAIN a, NEW j \in DOMAIN a, i <= j PROVE a[i].slice <= a[j].slice
  <2>1. CASE j = Len(s) + 1
    BY <1>1, <1>4, <2>1
  <2>2. CASE j \in DOMAIN s
    <3>1. i \in DOMAIN s
      BY <1>1, <1>2, <1>5, <2>2
    <3> QED BY <1>1, <1>2, <1>5, <2>2, <3>1 DEF Sorted
  <2> QED BY <1>3, <2>1, <2>2
<1>6. Sorted(a) /\ UpTo(a, u.slice)
  BY <1>4, <1>5 DEF Sorted, UpTo
<1> QED BY <1>6 DEF a

\* A queue in the order of its slices stays so without its oldest entry.
LEMMA TailSorted ==
    ASSUME NEW s \in Seq(Unit), s # <<>>, Sorted(s)
    PROVE  Sorted(Tail(s)) /\ \A due : UpTo(s, due) => UpTo(Tail(s), due)
<1>1. Len(s) \in Nat \ {0} /\ DOMAIN s = 1..Len(s)
  BY EmptySeq
<1>2. /\ DOMAIN Tail(s) = 1..(Len(s) - 1)
      /\ \A i \in DOMAIN Tail(s) : Tail(s)[i] = s[i + 1]
  <2>1. Tail(s) \in Seq(Unit) /\ Len(Tail(s)) = Len(s) - 1 /\ \A i \in 1..Len(Tail(s)) : Tail(s)[i] = s[i + 1]
    BY HeadTailProperties
  <2> QED BY <2>1
<1>3. \A i \in DOMAIN Tail(s) : i \in Nat /\ i + 1 \in DOMAIN s
  BY <1>1, <1>2
<1>4. ASSUME NEW due, UpTo(s, due) PROVE UpTo(Tail(s), due)
  BY <1>2, <1>3, <1>4 DEF UpTo
<1>5. ASSUME NEW i \in DOMAIN Tail(s), NEW j \in DOMAIN Tail(s), i <= j
      PROVE  Tail(s)[i].slice <= Tail(s)[j].slice
  <2>1. i + 1 <= j + 1
    BY <1>3, <1>5
  <2> QED BY <1>2, <1>3, <2>1 DEF Sorted
<1> QED BY <1>4, <1>5 DEF Sorted

\* Staging a unit for an event that is due now keeps the order.
LEMMA StageOrder ==
    ASSUME OneTimer, QueueTypeOK, OrderInv, NEW e, NEW due \in Nat, MayBeDue(e, due), Recorded(e, due),
           NEW queue \in [Chan -> Seq(Unit)], NEW count, Stage(Notified(e), queue, count, due),
           \A ch \in Chan : Sorted(queue[ch]) /\ \A t \in Timer : UpTo(queue[ch], raised[t])
    PROVE  OrderInv'
<1>1. CASE e \notin Timer
  <2>1. staged' = [ch \in Chan |-> queue[ch]] /\ raised' = raised
    BY <1>1 DEF Stage, Notified, Recorded
  <2> QED BY <2>1 DEF OrderInv
<1>2. CASE e \in Timer
  <2>1. raised' \in [Timer -> Nat] /\ raised'[e] = due /\ raised[e] <= due /\ raised[e] \in Nat
    BY <1>2 DEF Recorded, MayBeDue, OrderInv
  <2>2. ASSUME NEW ch \in Chan PROVE Sorted(staged'[ch]) /\ UpTo(staged'[ch], due)
    <3>1. queue[ch] \in Seq(Unit) /\ Sorted(queue[ch]) /\ UpTo(queue[ch], raised[e])
      BY <1>2
    <3>2. UpTo(queue[ch], due)
      <4>1. \A i \in DOMAIN queue[ch] : queue[ch][i].slice \in Nat
        BY <3>1, SliceNat
      <4> QED BY <2>1, <3>1, <4>1 DEF UpTo
    <3>3. CASE ch \in Notified(e)
      <4> DEFINE u == [slice |-> due, unit |-> dmac[ch].cra]
      <4>1. u \in Unit /\ u.slice = due
        BY DEF QueueTypeOK, Registers, Unit
      <4>2. staged'[ch] = Append(queue[ch], u)
        BY <3>3 DEF Stage
      <4> HIDE DEF u
      <4> QED BY <3>1, <3>2, <4>1, <4>2, AppendSorted
    <3>4. CASE ch \notin Notified(e)
      BY <3>1, <3>2, <3>4 DEF Stage
    <3> QED BY <3>3, <3>4
  <2>3. \A t \in Timer : t = e
    BY <1>2 DEF OneTimer
  <2> QED BY <2>1, <2>2, <2>3 DEF OrderInv
<1> QED BY <1>1, <1>2

\* Of one channel's units the oldest moves.
LEMMA FirstIsOldest ==
    ASSUME RoutingAssumption, ServiceInv, NEW u, First(u), u.seq > 0
    PROVE  /\ u.ch \in Chan /\ u.seq = 1 /\ staged[u.ch] # <<>>
           /\ SubSeq(staged[u.ch], 1, u.seq - 1) \o SubSeq(staged[u.ch], u.seq + 1, Len(staged[u.ch]))
                = Tail(staged[u.ch])
<1> DEFINE s == staged[u.ch]
<1>1. u \in Due /\ u.ch \in Chan /\ u.seq \in DOMAIN s /\ u.slice = s[u.seq].slice
  BY DueIsStaged DEF First
<1>2. s \in Seq(Unit) /\ Sorted(s)
  BY <1>1 DEF ServiceInv, QueueInv, QueueTypeOK, OrderInv
<1>3. u.seq \in 1..Len(s) /\ 1 \in DOMAIN s /\ s # <<>>
  BY <1>1, <1>2
<1>4. s[1].slice <= u.slice /\ s[1].slice \in Nat /\ u.slice \in Nat
  BY <1>1, <1>2, <1>3, SliceNat DEF Sorted
<1>5. u.slice <= now
  <2>1. u \notin Copies
    BY DEF Copies
  <2> QED BY <1>1, <2>1 DEF Due
<1>6. u.seq = 1
  <2> SUFFICES ASSUME u.seq # 1 PROVE FALSE
    OBVIOUS
  <2> DEFINE v == [slice |-> s[1].slice, ch |-> u.ch, seq |-> 1]
  <2>1. v \in Staged(u.ch)
    BY <1>3 DEF Staged
  <2>2. v.slice <= now
    BY <1>4, <1>5 DEF ServiceInv, QueueInv, QueueTypeOK
  <2>3. v \in Due \ {u}
    <3>1. v # u
      OBVIOUS
    <3> HIDE DEF v
    <3>2. v \in UNION {Staged(ch) : ch \in Chan}
      BY <1>1, <2>1
    <3> QED BY <2>2, <3>1, <3>2 DEF Due
  <2>4. Before(u, v)
    BY <2>3 DEF First
  <2>5. u.ch \in 0..7
    <3> HIDE DEF s, v
    <3>1. Chan \subseteq 0..7
      BY DEF RoutingAssumption
    <3> QED BY <1>1, <3>1
  <2> QED BY <1>3, <1>4, <2>4, <2>5 DEF Before
<1>7. SubSeq(s, 1, 0) = <<>>
  BY SubSeqEmpty
<1>8. Tail(s) = SubSeq(s, 2, Len(s)) /\ Tail(s) \in Seq(Unit)
  BY <1>2, <1>3, TailIsSubSeq, HeadTailProperties
<1>9. <<>> \o Tail(s) = Tail(s)
  BY <1>8, ConcatEmptySeq
<1> QED BY <1>1, <1>3, <1>6, <1>7, <1>8, <1>9

-----------------------------------------------------------------------------
(* The order is kept.                                                        *)

\* Serving the first unit that is due keeps every queue in order.
LEMMA ServiceUnitOrder ==
    ASSUME RoutingAssumption, OneTimer, ServiceInv, NEW u \in Due, NEW e, NEW due \in 0..MaxSlice,
           MayBeDue(e, due), ServiceUnit(u, e, due)
    PROVE  OrderInv'
<1> DEFINE queue == [staged EXCEPT ![u.ch] = SubSeq(@, 1, u.seq - 1) \o SubSeq(@, u.seq + 1, Len(@))]
<1>1. First(u) /\ u.seq > 0
  BY DEF ServiceUnit
<1>2. u.ch \in Chan /\ staged[u.ch] # <<>> /\ queue = [staged EXCEPT ![u.ch] = Tail(@)]
  BY <1>1, FirstIsOldest
<1>3. staged \in [Chan -> Seq(Unit)] /\ QueueTypeOK /\ OrderInv
  BY DEF ServiceInv, QueueInv, QueueTypeOK
<1>4. Tail(staged[u.ch]) \in Seq(Unit)
  BY <1>2, <1>3, HeadTailProperties
<1> HIDE DEF queue
<1>5. queue \in [Chan -> Seq(Unit)]
  BY <1>2, <1>3, <1>4
<1>6. ASSUME NEW ch \in Chan PROVE Sorted(queue[ch]) /\ \A t \in Timer : UpTo(queue[ch], raised[t])
  <2>1. staged[ch] \in Seq(Unit) /\ Sorted(staged[ch]) /\ \A t \in Timer : UpTo(staged[ch], raised[t])
    BY <1>3 DEF OrderInv
  <2>2. CASE ch = u.ch
    <3>1. queue[ch] = Tail(staged[ch])
      BY <1>2, <1>3, <2>2
    <3> QED BY <1>2, <2>1, <2>2, <3>1, TailSorted
  <2>3. CASE ch # u.ch
    BY <1>2, <1>3, <2>1, <2>3
  <2> QED BY <2>2, <2>3
<1>7. due \in Nat
  BY DEF RoutingAssumption
<1>8. Stage(Notified(e), queue, UnitDone(u.ch), due) /\ Recorded(e, due)
  BY DEF ServiceUnit, queue
<1> QED BY <1>3, <1>5, <1>6, <1>7, <1>8, StageOrder

\* No step stages a unit before one that is already queued.
LEMMA OrderStep ==
    ASSUME RoutingAssumption, Taken = {}, OneTimer, ServiceInv, [Next]_vars
    PROVE  OrderInv'
<1>1. ASSUME UNCHANGED <<staged, raised>> PROVE OrderInv'
  BY <1>1 DEF ServiceInv, OrderInv, Sorted, UpTo
<1>2. /\ QueueTypeOK /\ OrderInv /\ staged \in [Chan -> Seq(Unit)]
      /\ \A ch \in Chan : Sorted(staged[ch]) /\ \A t \in Timer : UpTo(staged[ch], raised[t])
      /\ 0..MaxSlice \subseteq Nat
  BY DEF ServiceInv, QueueInv, QueueTypeOK, OrderInv, RoutingAssumption
<1>3. ASSUME NEW e, NEW due \in 0..MaxSlice, MayBeDue(e, due), RaiseEvent(e, due) PROVE OrderInv'
  BY <1>2, <1>3, StageOrder DEF RaiseEvent
<1>4. ASSUME NEW e, NEW due \in 0..MaxSlice, MayBeDue(e, due), ServiceDtc(e, due) PROVE OrderInv'
  <2>1. CASE UNCHANGED <<staged, raised>>
    BY <1>1, <2>1
  <2>2. CASE Stage(Notified(e), staged, outstanding, due) /\ Recorded(e, due)
    BY <1>2, <1>4, <2>2, StageOrder
  <2> QED BY <1>4, <2>1, <2>2 DEF ServiceDtc
<1>5. ASSUME DrainStep PROVE OrderInv'
  <2>1. ASSUME NEW u, DtcDone \/ DrainDone \/ ServiceCopy(u) PROVE OrderInv'
    BY <1>1, <2>1 DEF DtcDone, DrainDone, ServiceCopy
  <2> QED BY <1>4, <1>5, <2>1, ServiceUnitOrder DEF DrainStep
<1>6. ASSUME NEW ch \in Chan, DmacWrite(ch) PROVE OrderInv'
  BY <1>1, <1>6 DEF DmacWrite, WriteDmac, WriteDmcra, WriteDmcnt, WriteDmint, WriteDmsts, WriteDmtmd, WriteChcr
<1>7. ASSUME NEW ch \in Chan, NEW e, NEW i,
             WriteDelsr(ch, e) \/ CheckCompletion(ch) \/ SetCompleted(ch) \/ TakePending(ch, i) PROVE OrderInv'
  BY <1>1, <1>7 DEF WriteDelsr, WriteLinks, CheckCompletion, SetCompleted, TakePending
<1>8. ASSUME NEW irq \in Irq, NEW w, NEW s, NEW src,
             WriteIelsr(irq, w) \/ WriteDescriptor(irq, s, src) \/ TakeIrq(irq) PROVE OrderInv'
  BY <1>1, <1>8 DEF WriteIelsr, WriteLinks, WriteDescriptor, TakeIrq
<1>9. ASSUME DmacTick \/ Pass \/ RunDrain \/ DtcHasPending \/ UNCHANGED vars PROVE OrderInv'
  BY <1>1, <1>9 DEF DmacTick, Pass, RunDrain, DtcHasPending, vars
<1>10. ASSUME Reset PROVE OrderInv'
  <2>1. DOMAIN <<>> = {}
    OBVIOUS
  <2> QED BY <1>2, <1>10, <2>1 DEF Reset, Sorted, UpTo, OrderInv, ServiceInv, QueueInv, QueueTypeOK
<1> QED BY <1>3, <1>5, <1>6, <1>7, <1>8, <1>9, <1>10 DEF Next

-----------------------------------------------------------------------------
(* Every step is one of the service, or leaves it as it is.                   *)

ServiceStep == [Service!Next]_(Service!vars)

\* A step that moves no register and no queue is no step of the service.
LEMMA Stutter == ASSUME UNCHANGED <<dmac, staged>> PROVE ServiceStep
BY DEF ServiceStep, Service!vars, Armed, Left, Owed, Told

\* Staging is accepting: what the units are called and how many are left agree.
LEMMA StageIsRequest ==
    ASSUME QueueTypeOK, NEW S, S \subseteq {ch \in Chan : dmac[ch].dte /\ dmac[ch].cra > 0},
           NEW queue \in [Chan -> Seq(Unit)], NEW count, NEW due \in Nat, Stage(S, queue, count, due)
    PROVE  /\ \A ch \in S : Armed[ch] /\ Left[ch] > 0
           /\ Left' = [ch \in Chan |-> IF ch \in S THEN Left[ch] - 1 ELSE Left[ch]]
           /\ Owed' = [ch \in Chan |-> IF ch \in S THEN Append(Units(queue[ch]), Left[ch]) ELSE Units(queue[ch])]
           /\ Armed' = Armed /\ Told' = Told
<1>1. \A ch \in S : ch \in Chan /\ dmac[ch].dte /\ dmac[ch].cra > 0
  OBVIOUS
<1>2. ASSUME NEW ch \in Chan
      PROVE  /\ dmac'[ch].dte = dmac[ch].dte /\ dmac'[ch].dtif = dmac[ch].dtif
             /\ dmac'[ch].cra = IF ch \in S THEN dmac[ch].cra - 1 ELSE dmac[ch].cra
  <2>1. dmac[ch] \in Registers
    BY DEF QueueTypeOK
  <2>2. dmac'[ch] = IF ch \in S THEN [dmac[ch] EXCEPT !.cra = dmac[ch].cra - 1] ELSE dmac[ch]
    BY DEF Stage
  <2> QED BY <2>1, <2>2 DEF Registers
<1>3. ASSUME NEW ch \in Chan
      PROVE  Units(staged'[ch]) = IF ch \in S THEN Append(Units(queue[ch]), dmac[ch].cra) ELSE Units(queue[ch])
  <2> DEFINE u == [slice |-> due, unit |-> dmac[ch].cra]
  <2>1. u \in Unit /\ u.unit = dmac[ch].cra
    BY DEF QueueTypeOK, Registers, Unit
  <2>2. staged'[ch] = IF ch \in S THEN Append(queue[ch], u) ELSE queue[ch]
    BY DEF Stage
  <2> HIDE DEF u
  <2> QED BY <2>1, <2>2, UnitsAppend
<1> QED BY <1>1, <1>2, <1>3 DEF Armed, Left, Owed, Told

\* An event that stages units accepts them.
LEMMA RequestServes ==
    ASSUME ServiceInv, NEW e, NEW due \in Nat, Stage(Notified(e), staged, outstanding, due)
    PROVE  ServiceStep
<1> DEFINE S == Notified(e)
<1>1. S \subseteq {ch \in Chan : dmac[ch].dte /\ dmac[ch].cra > 0} /\ S \in SUBSET Chan
  BY NotifiedHaveUnits
<1> HIDE DEF S
<1>2. /\ \A ch \in S : Armed[ch] /\ Left[ch] > 0
      /\ Left' = [ch \in Chan |-> IF ch \in S THEN Left[ch] - 1 ELSE Left[ch]]
      /\ Owed' = [ch \in Chan |-> IF ch \in S THEN Append(Units(staged[ch]), Left[ch]) ELSE Units(staged[ch])]
      /\ Armed' = Armed /\ Told' = Told
  <2>1. QueueTypeOK /\ staged \in [Chan -> Seq(Unit)]
    BY DEF ServiceInv, QueueInv, QueueTypeOK
  <2>2. Stage(S, staged, outstanding, due)
    BY DEF S
  <2> QED BY <1>1, <2>1, <2>2, StageIsRequest
<1>3. \A ch \in Chan : Owed[ch] = Units(staged[ch])
  BY DEF Owed
<1>4. Owed' = [ch \in Chan |-> IF ch \in S THEN Append(Owed[ch], Left[ch]) ELSE Owed[ch]]
  BY <1>2, <1>3
<1>5. Service!Next
  BY <1>1, <1>2, <1>4 DEF Service!Next, Service!Request
<1> QED BY <1>5 DEF ServiceStep

\* A unit that is served is the oldest its channel owes.
LEMMA MoveServes ==
    ASSUME RoutingAssumption, ServiceInv, NEW u \in Due, NEW e, NEW due \in 0..MaxSlice,
           ServiceUnit(u, e, due)
    PROVE  ServiceStep
<1> DEFINE queue == [staged EXCEPT ![u.ch] = SubSeq(@, 1, u.seq - 1) \o SubSeq(@, u.seq + 1, Len(@))]
<1> DEFINE S == Notified(e)
<1>1. u.ch \in Chan /\ staged[u.ch] # <<>> /\ queue = [staged EXCEPT ![u.ch] = Tail(@)]
  BY FirstIsOldest DEF ServiceUnit
<1>2. staged \in [Chan -> Seq(Unit)] /\ QueueTypeOK
  BY DEF ServiceInv, QueueInv, QueueTypeOK
<1>3. Tail(staged[u.ch]) \in Seq(Unit)
  BY <1>1, <1>2, HeadTailProperties
<1>4. Stage(S, queue, UnitDone(u.ch), due) /\ due \in Nat
  BY DEF ServiceUnit, RoutingAssumption
<1>5. S \subseteq {ch \in Chan : dmac[ch].dte /\ dmac[ch].cra > 0} /\ S \in SUBSET Chan
  BY NotifiedHaveUnits
<1> HIDE DEF queue, S
<1>6. queue \in [Chan -> Seq(Unit)]
  BY <1>1, <1>2, <1>3
<1>7. /\ \A ch \in S : Armed[ch] /\ Left[ch] > 0
      /\ Left' = [ch \in Chan |-> IF ch \in S THEN Left[ch] - 1 ELSE Left[ch]]
      /\ Owed' = [ch \in Chan |-> IF ch \in S THEN Append(Units(queue[ch]), Left[ch]) ELSE Units(queue[ch])]
      /\ Armed' = Armed /\ Told' = Told
  BY <1>2, <1>4, <1>5, <1>6, StageIsRequest
<1>8. Units(Tail(staged[u.ch])) = Tail(Units(staged[u.ch])) /\ Units(staged[u.ch]) # <<>>
  BY <1>1, <1>2, UnitsTail
<1> DEFINE from == [Owed EXCEPT ![u.ch] = Tail(@)]
<1>9. \A ch \in Chan : Units(queue[ch]) = from[ch]
  BY <1>1, <1>2, <1>8 DEF Owed
<1>10. Owed[u.ch] # <<>>
  BY <1>1, <1>8 DEF Owed
<1>11. Owed' = [ch \in Chan |-> IF ch \in S THEN Append(from[ch], Left[ch]) ELSE from[ch]]
  BY <1>7, <1>9
<1>12. \E T \in SUBSET Chan : Service!Move(u.ch, T)
  BY <1>5, <1>7, <1>10, <1>11 DEF Service!Move, Service!Request
<1>13. Service!Next
  BY <1>1, <1>12 DEF Service!Next, Service!Move, Service!Request
<1> QED BY <1>13 DEF ServiceStep

\* A channel ends when its counter is 0, so when none of its units is queued.
LEMMA TickServes == ASSUME ServiceInv, DmacTick PROVE ServiceStep
<1>1. ASSUME NEW ch \in Ended
      PROVE  ch \in Chan /\ dmac[ch].dte /\ dmac[ch].cra = 0 /\ Units(staged[ch]) = <<>>
  <2>1. ch \in Chan /\ dmac[ch].dte /\ dmac[ch].cra = 0 /\ outstanding[ch] = 0
    BY DEF Ended
  <2>2. Len(staged[ch]) = 0 /\ staged[ch] \in Seq(Unit)
    BY <2>1 DEF ServiceInv, QueueInv, QueueTypeOK, OutstandingAgree
  <2>3. staged[ch] = <<>>
    BY <2>2, EmptySeq
  <2> QED BY <2>1, <2>3, UnitsEmpty
<1>2. ASSUME NEW ch \in Chan
      PROVE  /\ dmac'[ch].cra = dmac[ch].cra
             /\ dmac'[ch].dte = (dmac[ch].dte /\ ch \notin Ended)
             /\ dmac'[ch].dtif = (dmac[ch].dtif \/ ch \in Ended)
  <2>1. dmac[ch] \in Registers
    BY DEF ServiceInv, QueueInv, QueueTypeOK
  <2>2. dmac'[ch] = IF ch \in Ended THEN [dmac[ch] EXCEPT !.dte = FALSE, !.dtif = TRUE] ELSE dmac[ch]
    BY DEF DmacTick
  <2> QED BY <2>1, <2>2 DEF Registers
<1>3. Ended \in SUBSET Chan /\ staged' = staged
  BY DEF Ended, DmacTick
<1>4. /\ \A ch \in Ended : Armed[ch] /\ Left[ch] = 0 /\ Owed[ch] = <<>>
      /\ Armed' = [ch \in Chan |-> Armed[ch] /\ ch \notin Ended]
      /\ Told' = [ch \in Chan |-> Told[ch] \/ ch \in Ended]
      /\ Left' = Left /\ Owed' = Owed
  BY <1>1, <1>2, <1>3 DEF Armed, Left, Owed, Told
<1>5. Service!Next
  BY <1>3, <1>4 DEF Service!Next, Service!Complete
<1> QED BY <1>5 DEF ServiceStep

\* A store to the channel's registers raises no end flag and withdraws no unit.
LEMMA ProgramServes ==
    ASSUME ServiceInv, NEW ch \in Chan, NEW r, NEW kick, NEW copies,
           WriteDmac(ch, r, kick, copies), r.dtif => dmac[ch].dtif
    PROVE  ServiceStep
<1>1. dmac' = [dmac EXCEPT ![ch] = r] /\ staged' = staged /\ dmac \in [Chan -> Registers]
  BY DEF WriteDmac, ServiceInv, QueueInv, QueueTypeOK
<1>2. /\ Owed' = Owed
      /\ \A d \in Chan \ {ch} : Armed'[d] = Armed[d] /\ Left'[d] = Left[d] /\ Told'[d] = Told[d]
      /\ Told'[ch] => Told[ch]
  BY <1>1 DEF Armed, Left, Owed, Told
<1>3. Service!Next
  BY <1>2 DEF Service!Next, Service!Program
<1> QED BY <1>3 DEF ServiceStep

\* A store to the registers of a channel programs the service.
LEMMA WriteServes == ASSUME ServiceInv, NEW ch \in Chan, DmacWrite(ch) PROVE ServiceStep
<1>1. dmac[ch] \in Registers
  BY DEF ServiceInv, QueueInv, QueueTypeOK
<1>2. ASSUME NEW n, WriteDmcra(ch, n) PROVE ServiceStep
  BY <1>1, <1>2, ProgramServes DEF WriteDmcra, Registers
<1>3. ASSUME NEW b \in BOOLEAN, WriteDmcnt(ch, b) PROVE ServiceStep
  BY <1>1, <1>3, ProgramServes DEF WriteDmcnt, Registers
<1>4. ASSUME NEW b \in BOOLEAN, WriteDmint(ch, b) PROVE ServiceStep
  BY <1>1, <1>4, ProgramServes DEF WriteDmint, Registers
<1>5. ASSUME NEW b \in BOOLEAN, WriteDmsts(ch, b) PROVE ServiceStep
  BY <1>1, <1>5, ProgramServes DEF WriteDmsts, Registers
<1>6. ASSUME WriteDmtmd(ch) PROVE ServiceStep
  BY <1>1, <1>6, ProgramServes DEF WriteDmtmd, Registers
<1>7. ASSUME WriteChcr(ch) PROVE ServiceStep
  BY <1>7, ProgramServes DEF WriteChcr
<1> QED BY <1>2, <1>3, <1>4, <1>5, <1>6, <1>7 DEF DmacWrite

\* A reset is a reset of the service.
LEMMA ResetServes == ASSUME Reset PROVE ServiceStep
<1>1. /\ \A ch \in Chan : dmac'[ch] = Disarmed /\ staged'[ch] = <<>>
  BY DEF Reset
<1>2. /\ Armed' = [ch \in Chan |-> FALSE] /\ Left' = [ch \in Chan |-> 0]
      /\ Owed' = [ch \in Chan |-> <<>>] /\ Told' = [ch \in Chan |-> FALSE]
  <2>1. ASSUME NEW ch \in Chan
        PROVE  ~dmac'[ch].dte /\ dmac'[ch].cra = 0 /\ ~dmac'[ch].dtif /\ dmac'[ch].dte \in BOOLEAN
               /\ dmac'[ch].dtif \in BOOLEAN /\ Units(staged'[ch]) = <<>>
    <3>1. staged'[ch] = <<>>
      BY <1>1
    <3>2. Units(staged'[ch]) = <<>>
      BY <3>1, UnitsEmpty, Zenon
    <3>3. dmac'[ch] = Disarmed
      BY <1>1
    <3>4. dmac'[ch].dte = FALSE /\ dmac'[ch].cra = 0 /\ dmac'[ch].dtif = FALSE
      BY <3>3 DEF Disarmed
    <3> QED BY <3>2, <3>4
  <2>2. Owed' = [ch \in Chan |-> <<>>] /\ Left' = [ch \in Chan |-> 0]
    BY <2>1 DEF Owed, Left
  <2>3. Armed' = [ch \in Chan |-> FALSE] /\ Told' = [ch \in Chan |-> FALSE]
    BY <2>1 DEF Armed, Told
  <2> QED BY <2>2, <2>3
<1>3. Service!Next
  BY <1>2 DEF Service!Next, Service!Reset
<1> QED BY <1>3 DEF ServiceStep

\* Every step is a step of the service or none of its.
LEMMA StepServes ==
    ASSUME RoutingAssumption, Taken = {}, ServiceInv, [Next]_vars
    PROVE  ServiceStep
<1>1. 0..MaxSlice \subseteq Nat
  BY DEF RoutingAssumption
<1>2. ASSUME NEW e, NEW due \in 0..MaxSlice, RaiseEvent(e, due) PROVE ServiceStep
  BY <1>1, <1>2, RequestServes DEF RaiseEvent
<1>3. ASSUME NEW e, NEW due \in 0..MaxSlice, ServiceDtc(e, due) PROVE ServiceStep
  <2>1. CASE UNCHANGED <<dmac, staged>>
    BY <2>1, Stutter
  <2>2. CASE Stage(Notified(e), staged, outstanding, due)
    BY <1>1, <2>2, RequestServes
  <2> QED BY <1>3, <2>1, <2>2 DEF ServiceDtc
<1>4. ASSUME DrainStep PROVE ServiceStep
  <2>1. ASSUME NEW u, DtcDone \/ DrainDone \/ ServiceCopy(u) PROVE ServiceStep
    BY <2>1, Stutter DEF DtcDone, DrainDone, ServiceCopy
  <2> QED BY <1>3, <1>4, <2>1, MoveServes DEF DrainStep
<1>5. ASSUME NEW ch \in Chan, NEW e, NEW i,
             WriteDelsr(ch, e) \/ CheckCompletion(ch) \/ SetCompleted(ch) \/ TakePending(ch, i) PROVE ServiceStep
  BY <1>5, Stutter DEF WriteDelsr, WriteLinks, CheckCompletion, SetCompleted, TakePending
<1>6. ASSUME NEW irq \in Irq, NEW w, NEW s, NEW src,
             WriteIelsr(irq, w) \/ WriteDescriptor(irq, s, src) \/ TakeIrq(irq) PROVE ServiceStep
  BY <1>6, Stutter DEF WriteIelsr, WriteLinks, WriteDescriptor, TakeIrq
<1>7. ASSUME Pass \/ RunDrain \/ DtcHasPending \/ UNCHANGED vars PROVE ServiceStep
  BY <1>7, Stutter DEF Pass, RunDrain, DtcHasPending, vars
<1> QED BY <1>2, <1>4, <1>5, <1>6, <1>7, TickServes, WriteServes, ResetServes DEF Next

\* The queue, the counters and the drain implement the service: every accepted
\* unit moves once and in order, and a channel reports its end only when all of
\* its units have moved.  A component that takes a unit away breaks it (Taken),
\* and so may a channel that is relinked from one timer to another (OneTimer).
THEOREM ServiceImplemented ==
    ASSUME RoutingAssumption, Taken = {}, OneTimer PROVE Spec => IsService
<1>1. Init => ServiceInv
  <2> SUFFICES ASSUME Init PROVE ServiceInv
    OBVIOUS
  <2>1. QueueInv
    BY QueueInit
  <2>2. DOMAIN <<>> = {}
    OBVIOUS
  <2>3. OrderInv
    BY <2>2 DEF Init, OrderInv, Sorted, UpTo
  <2> QED BY <2>1, <2>3 DEF ServiceInv
<1>2. ServiceInv /\ [Next]_vars => ServiceInv'
  BY QueueStep, OrderStep DEF ServiceInv
<1>3. Init => Service!Init
  BY UnitsEmpty DEF Init, Service!Init, Armed, Left, Owed, Told, Disarmed
<1>4. ServiceInv /\ [Next]_vars => [Service!Next]_(Service!vars)
  BY StepServes DEF ServiceStep
<1> QED BY <1>1, <1>2, <1>3, <1>4, PTL DEF Spec, IsService, Service!Spec
-----------------------------------------------------------------------------
(* The areas.  The DTC stays where firmware sent it.                         *)

\* A remainder is what is left below the divisor, whatever multiple is taken off.
LEMMA Remainder ==
    ASSUME NEW m \in Nat \ {0}, NEW k \in Nat, NEW q \in Int
    PROVE  (k + q * m) % m <= k /\ (k < m => (k + q * m) % m = k)
<1> DEFINE d == k \div m
<1> DEFINE r == k % m
<1>1. d \in Int /\ r \in 0..(m - 1) /\ k = m * d + r
  OBVIOUS
<1>2. d >= 0
  OBVIOUS
<1> HIDE DEF d, r
<1>3. r <= k /\ (k < m => r = k)
  <2>1. m * d >= 0 /\ (d >= 1 => m * d >= m) /\ (d = 0 => m * d = 0)
    BY <1>1, <1>2
  <2> QED BY <1>1, <1>2, <2>1
<1>4. k + q * m = m * (d + q) + r
  BY <1>1
<1>5. (k + q * m) % m = r
  <2> DEFINE x == k + q * m
  <2> DEFINE p == d + q
  <2>1. x \in Int /\ p \in Int /\ x = m * p + r
    BY <1>1, <1>4
  <2> HIDE DEF x, p
  <2>2. x % m = r
    BY <1>1, <2>1
  <2> QED BY <2>2 DEF x
<1> QED
  BY <1>3, <1>5

\* A pointer that advances around the room stays a whole number of rounds from where it was.
LEMMA Advance ==
    ASSUME NEW m \in Nat \ {0}, NEW x \in Int, NEW b \in Int, NEW q \in Int, x = b + q * m
    PROVE  (x + 1) % m \in 0..(m - 1) /\ \E p \in Int : (x + 1) % m = (b + 1) + p * m
<1> DEFINE d == (x + 1) \div m
<1> DEFINE r == (x + 1) % m
<1>1. d \in Int /\ r \in 0..(m - 1) /\ x + 1 = m * d + r
  OBVIOUS
<1> HIDE DEF d, r
<1>2. r = (b + 1) + (q - d) * m
  BY <1>1
<1>3. q - d \in Int
  BY <1>1
<1> QED
  BY <1>1, <1>2, <1>3 DEF r

Setting == [mode : {"normal", "repeat", "block"}, each : BOOLEAN, srcRepeat : BOOLEAN, length : Halfword]
Address == 0..(Room - 1)
RepeatState == [settings : Setting, base : Address, remaining : Halfword, done : BOOLEAN]

\* The offset of the source within its area is the part of the transfer that is done.
Offset(src, start, done) == \E q \in Int : src = (start + done) + q * Room

\* While the DTC holds the settings of the descriptor, count and source agree.
LineHonoured(d, c, start) ==
    /\ d.settings # c.settings => d.src = start
    /\ d.settings = c.settings /\ c.settings.length > 0 /\ c.settings.mode # "block" =>
         /\ c.remaining <= c.settings.length
         /\ c.settings.mode = "normal" => (c.done <=> c.remaining = 0)
         /\ c.settings.mode = "repeat" => c.remaining >= 1
         /\ c.settings.mode = "repeat" /\ c.settings.srcRepeat => c.base = start
         /\ c.settings.mode = "normal" \/ c.settings.srcRepeat =>
              Offset(d.src, start, c.settings.length - c.remaining)

AreaInv ==
    /\ descriptor \in [Irq -> [settings : Setting, src : Address]]
    /\ dtcCh \in [Irq -> RepeatState] /\ area \in [Irq -> Address]
    /\ \A irq \in Irq : LineHonoured(descriptor[irq], dtcCh[irq], area[irq])

\* What the state of a line is made of.
LEMMA LineTyped ==
    ASSUME RoutingAssumption, AreaInv, NEW irq \in Irq
    PROVE  /\ descriptor[irq].settings \in Setting /\ descriptor[irq].src \in Int
           /\ descriptor[irq].settings.length \in Nat
           /\ dtcCh[irq] \in RepeatState /\ dtcCh[irq].settings \in Setting
           /\ dtcCh[irq].settings.length \in Nat /\ dtcCh[irq].remaining \in Nat
           /\ area[irq] \in Address /\ area[irq] \in Int /\ Room \in Nat \ {0}
<1>1. Room \in Nat \ {0} /\ Address \subseteq Int
  BY DEF RoutingAssumption, Address
<1>2. /\ descriptor[irq] \in [settings : Setting, src : Address]
      /\ dtcCh[irq] \in RepeatState /\ area[irq] \in Address
  BY DEF AreaInv
<1>3. Halfword \subseteq Nat
  BY DEF Halfword
<1>4. \A x \in Setting : x.length \in Halfword
  BY DEF Setting
<1>5. /\ descriptor[irq].settings \in Setting /\ descriptor[irq].src \in Address
      /\ dtcCh[irq].settings \in Setting /\ dtcCh[irq].remaining \in Halfword
  BY <1>2 DEF RepeatState
<1> QED
  BY <1>1, <1>2, <1>3, <1>4, <1>5

\* Within its area: what the count says is done is at most the length.
LEMMA AreaHeld == RoutingAssumption /\ AreaInv => AreaHonoured
<1> SUFFICES ASSUME RoutingAssumption, AreaInv PROVE AreaHonoured
  OBVIOUS
<1> SUFFICES ASSUME NEW irq \in Irq, descriptor[irq].settings = dtcCh[irq].settings,
                    descriptor[irq].settings.length > 0
             PROVE  LET d == descriptor[irq]  s == d.settings IN
                    /\ s.mode = "normal" => (d.src - area[irq]) % Room <= s.length
                    /\ s.mode = "repeat" /\ s.srcRepeat => (d.src - area[irq]) % Room < s.length
  BY DEF AreaHonoured
<1> DEFINE d == descriptor[irq]
<1> DEFINE c == dtcCh[irq]
<1> DEFINE s == c.settings
<1>1. /\ d.src \in Int /\ area[irq] \in Int /\ s.length \in Nat /\ c.remaining \in Nat
      /\ Room \in Nat \ {0} /\ s = d.settings /\ s.length > 0
      /\ LineHonoured(d, c, area[irq])
  <2>1. s = d.settings /\ s.length > 0
    OBVIOUS
  <2>2. LineHonoured(d, c, area[irq])
    BY DEF AreaInv
  <2> HIDE DEF s
  <2> QED BY <2>1, <2>2, LineTyped
<1> HIDE DEF d, c
<1>2. ASSUME s.mode # "block", s.mode = "normal" \/ s.srcRepeat
      PROVE  (d.src - area[irq]) % Room <= s.length - c.remaining /\ c.remaining <= s.length
  <2>1. c.remaining <= s.length /\ Offset(d.src, area[irq], s.length - c.remaining)
    BY <1>1, <1>2 DEF LineHonoured
  <2> DEFINE k == s.length - c.remaining
  <2>2. k \in Nat
    BY <1>1, <2>1
  <2>3. PICK q \in Int : d.src = (area[irq] + k) + q * Room
    BY <2>1 DEF Offset
  <2>4. d.src - area[irq] = k + q * Room
    BY <1>1, <2>2, <2>3
  <2>5. (k + q * Room) % Room <= k
    BY <1>1, <2>2, Remainder
  <2> QED BY <2>1, <2>4, <2>5
<1>3. s.mode = "normal" => (d.src - area[irq]) % Room <= s.length
  <2> SUFFICES ASSUME s.mode = "normal" PROVE (d.src - area[irq]) % Room <= s.length
    OBVIOUS
  <2>1. (d.src - area[irq]) % Room \in Int
    BY <1>1
  <2> QED BY <1>1, <1>2, <2>1
<1>4. s.mode = "repeat" /\ s.srcRepeat => (d.src - area[irq]) % Room < s.length
  <2> SUFFICES ASSUME s.mode = "repeat", s.srcRepeat PROVE (d.src - area[irq]) % Room < s.length
    OBVIOUS
  <2>1. (d.src - area[irq]) % Room \in Int /\ c.remaining >= 1
    BY <1>1 DEF LineHonoured
  <2> QED BY <1>1, <1>2, <2>1
<1> QED
  BY <1>1, <1>3, <1>4 DEF d, c

\* Counting a unit leaves the rest of the repeat state alone.
LEMMA Recounted ==
    ASSUME NEW c \in RepeatState, c.remaining >= 1
    PROVE  /\ Recount(c) \in RepeatState
           /\ Recount(c).settings = c.settings /\ Recount(c).base = c.base
           /\ ~Wraps(c) => Recount(c).remaining = c.remaining - 1 /\ Recount(c).done = c.done
           /\ Wraps(c) /\ c.settings.mode = "normal" => Recount(c).remaining = 0 /\ Recount(c).done
           /\ Wraps(c) /\ c.settings.mode # "normal" => Recount(c).remaining = c.settings.length
<1>1. c.remaining \in Nat /\ c.remaining < 65536 /\ 0 \in Halfword /\ c.settings.length \in Halfword
  BY DEF RepeatState, Setting, Halfword
<1>2. CASE ~Wraps(c)
  <2> DEFINE r == (c.remaining - 1) % 65536
  <2>1. r = c.remaining - 1 /\ r \in Halfword
    BY <1>1, <1>2 DEF Wraps, Halfword
  <2>2. Recount(c) = [c EXCEPT !.remaining = r]
    BY <1>2 DEF Recount
  <2> HIDE DEF r
  <2>3. /\ Recount(c).settings = c.settings /\ Recount(c).base = c.base
        /\ Recount(c).remaining = r /\ Recount(c).done = c.done
    BY <2>2 DEF RepeatState
  <2>4. Recount(c) \in RepeatState
    BY <2>1, <2>2 DEF RepeatState
  <2> QED BY <1>2, <2>1, <2>3, <2>4
<1>3. CASE Wraps(c) /\ c.settings.mode = "normal"
  <2>1. Recount(c) = [c EXCEPT !.remaining = 0, !.done = TRUE]
    BY <1>3 DEF Recount
  <2>2. /\ Recount(c).settings = c.settings /\ Recount(c).base = c.base
        /\ Recount(c).remaining = 0 /\ Recount(c).done
    BY <2>1 DEF RepeatState
  <2>3. Recount(c) \in RepeatState
    <3>1. 0 \in Halfword
      BY <1>1
    <3>2. Recount(c) = [settings |-> c.settings, base |-> c.base, remaining |-> 0, done |-> TRUE]
      BY <2>1 DEF RepeatState
    <3> QED BY <3>1, <3>2 DEF RepeatState
  <2> QED BY <1>3, <2>2, <2>3
<1>4. CASE Wraps(c) /\ c.settings.mode # "normal"
  <2>1. Recount(c) = [c EXCEPT !.remaining = c.settings.length]
    BY <1>4 DEF Recount
  <2>2. /\ Recount(c).settings = c.settings /\ Recount(c).base = c.base
        /\ Recount(c).remaining = c.settings.length
    BY <2>1 DEF RepeatState
  <2>3. Recount(c) \in RepeatState
    BY <1>1, <2>1 DEF RepeatState
  <2> QED BY <1>4, <2>2, <2>3
<1> QED
  BY <1>2, <1>3, <1>4

\* A unit of the DTC advances source and count together, or both return.
LEMMA FireHonoured ==
    ASSUME RoutingAssumption, AreaInv, NEW irq \in Irq, ~Inert(irq),
           NEW c, c = Resynced(irq), NEW d2, NEW c2,
           d2 = [descriptor[irq] EXCEPT !.src = NextSource(irq, c)],
           c2 = Recount(c)
    PROVE  /\ d2 \in [settings : Setting, src : Address] /\ c2 \in RepeatState
           /\ LineHonoured(d2, c2, area[irq])
<1> DEFINE d == descriptor[irq]
<1> DEFINE n == d.settings.length
<1>1. /\ d \in [settings : Setting, src : Address] /\ d.settings \in Setting
      /\ d.src \in Int /\ d.src \in Address /\ area[irq] \in Address /\ area[irq] \in Int
      /\ Room \in Nat \ {0} /\ n \in Nat /\ n < 65536 /\ n > 0
      /\ d.settings.mode \in {"normal", "repeat"}
  <2>1. d \in [settings : Setting, src : Address] /\ d.settings \in Setting
    BY LineTyped DEF AreaInv
  <2>2. d.settings.length \in Halfword /\ d.settings.mode \in {"normal", "repeat", "block"}
    BY <2>1 DEF Setting
  <2>3. d.settings.length # 0 /\ d.settings.mode # "block"
    BY DEF Inert
  <2> QED BY <2>1, <2>2, <2>3, LineTyped DEF Halfword
<1>2. LineHonoured(d, dtcCh[irq], area[irq]) /\ dtcCh[irq] \in RepeatState
  BY DEF AreaInv
<1>3. c \in RepeatState /\ c.settings = d.settings
  <2>1. CASE dtcCh[irq].settings = d.settings
    BY <1>2, <2>1 DEF Resynced
  <2>2. CASE dtcCh[irq].settings # d.settings
    <3>1. c = [settings |-> d.settings, base |-> d.src, remaining |-> n, done |-> FALSE]
      BY <2>2 DEF Resynced
    <3>2. n \in Halfword
      BY <1>1 DEF Halfword
    <3> QED BY <1>1, <3>1, <3>2 DEF RepeatState
  <2> QED BY <2>1, <2>2
<1>4. /\ c.remaining \in Nat /\ c.remaining >= 1 /\ c.remaining <= n
      /\ d.settings.mode = "repeat" /\ d.settings.srcRepeat => c.base = area[irq]
      /\ d.settings.mode = "normal" => ~c.done
      /\ d.settings.mode = "normal" \/ d.settings.srcRepeat => Offset(d.src, area[irq], n - c.remaining)
  <2>1. c.remaining \in Nat
    BY <1>3 DEF RepeatState, Halfword
  <2>2. CASE dtcCh[irq].settings = d.settings
    <3>1. c = dtcCh[irq]
      BY <2>2 DEF Resynced
    <3>2. d.settings.mode = "normal" => ~c.done
      BY <3>1 DEF Inert
    <3> HIDE DEF d
    <3> QED BY <1>1, <1>2, <2>1, <2>2, <3>1, <3>2 DEF LineHonoured
  <2>3. CASE dtcCh[irq].settings # d.settings
    <3>1. c = [settings |-> d.settings, base |-> d.src, remaining |-> n, done |-> FALSE]
      BY <2>3 DEF Resynced
    <3>2. d.src = area[irq]
      BY <1>2, <2>3 DEF LineHonoured
    <3>3. Offset(d.src, area[irq], n - n)
      <4>1. d.src = (area[irq] + (n - n)) + 0 * Room
        BY <1>1, <3>2
      <4> QED BY <4>1 DEF Offset
    <3> HIDE DEF d
    <3> QED BY <1>1, <3>1, <3>2, <3>3
  <2> QED BY <2>2, <2>3
<1>5. /\ (d.src + 1) % Room \in Address
      /\ d.settings.mode = "normal" \/ d.settings.srcRepeat =>
           Offset((d.src + 1) % Room, area[irq], n - (c.remaining - 1))
  <2>1. (d.src + 1) % Room \in Address
    BY <1>1 DEF Address
  <2>2. ASSUME d.settings.mode = "normal" \/ d.settings.srcRepeat
        PROVE  Offset((d.src + 1) % Room, area[irq], n - (c.remaining - 1))
    <3> DEFINE b == area[irq] + (n - c.remaining)
    <3>1. PICK q \in Int : d.src = b + q * Room
      BY <1>4, <2>2 DEF Offset
    <3>2. b \in Int /\ b + 1 = area[irq] + (n - (c.remaining - 1))
      BY <1>1, <1>4
    <3> HIDE DEF b, d
    <3>3. \E p \in Int : (d.src + 1) % Room = (b + 1) + p * Room
      BY <1>1, <3>1, <3>2, Advance
    <3> QED BY <3>2, <3>3 DEF Offset
  <2> QED BY <2>1, <2>2
<1>6. d2.settings = d.settings /\ d2.src = NextSource(irq, c)
      /\ (NextSource(irq, c) \in Address => d2 \in [settings : Setting, src : Address])
  BY <1>1
<1> HIDE DEF d
<1>7. /\ c2 \in RepeatState /\ c2.settings = d.settings /\ c2.base = c.base
      /\ ~Wraps(c) => c2.remaining = c.remaining - 1 /\ c2.done = c.done
      /\ Wraps(c) /\ d.settings.mode = "normal" => c2.remaining = 0 /\ c2.done
      /\ Wraps(c) /\ d.settings.mode # "normal" => c2.remaining = n
  BY <1>3, <1>4, Recounted DEF d
<1> HIDE DEF n
<1>8. n = d.settings.length
  BY DEF n
<1>9. CASE ~Wraps(c)
  <2>1. c.remaining >= 2 /\ NextSource(irq, c) = (d.src + 1) % Room
    BY <1>4, <1>9 DEF Wraps, NextSource, d
  <2> QED BY <1>1, <1>4, <1>5, <1>6, <1>7, <1>8, <1>9, <2>1 DEF LineHonoured
<1>10. CASE Wraps(c) /\ d.settings.mode = "normal"
  <2>1. c.remaining = 1 /\ NextSource(irq, c) = (d.src + 1) % Room
    BY <1>10 DEF Wraps, NextSource, d
  <2> QED BY <1>1, <1>4, <1>5, <1>6, <1>7, <1>8, <1>10, <2>1 DEF LineHonoured
<1>11. CASE Wraps(c) /\ d.settings.mode = "repeat" /\ d.settings.srcRepeat
  <2>1. NextSource(irq, c) = area[irq]
    BY <1>4, <1>11 DEF NextSource, d
  <2>2. Offset(area[irq], area[irq], n - n)
    <3>1. area[irq] = (area[irq] + (n - n)) + 0 * Room
      BY <1>1
    <3> QED BY <3>1 DEF Offset
  <2> QED BY <1>1, <1>4, <1>6, <1>7, <1>8, <1>11, <2>1, <2>2 DEF LineHonoured
<1>12. CASE Wraps(c) /\ d.settings.mode = "repeat" /\ ~d.settings.srcRepeat
  <2>1. NextSource(irq, c) = (d.src + 1) % Room
    BY <1>12 DEF NextSource, d
  <2> QED BY <1>1, <1>4, <1>5, <1>6, <1>7, <1>8, <1>12, <2>1 DEF LineHonoured
<1> QED
  BY <1>1, <1>9, <1>10, <1>11, <1>12

\* Firmware gives a line other settings whenever it chooses another source.
NoRebase == "rebase" \notin Ops

\* What happens to one line: nothing, a new descriptor, or a unit.
LEMMA AreaKept ==
    ASSUME AreaInv, UNCHANGED <<descriptor, dtcCh, area>>
    PROVE  AreaInv'
<1> QED
  BY DEF AreaInv, LineHonoured, Offset

\* A drain of the DTC fires one line and leaves the others.
LEMMA AreaFired ==
    ASSUME RoutingAssumption, AreaInv, NEW irq, NEW others, NEW e,
           ~Inert(irq), FireUnit(irq, others, e), UNCHANGED area
    PROVE  AreaInv'
<1> DEFINE c == Resynced(irq)
<1> DEFINE d2 == [descriptor[irq] EXCEPT !.src = NextSource(irq, c)]
<1> DEFINE c2 == Recount(c)
<1>1. /\ descriptor' = [descriptor EXCEPT ![irq] = d2]
      /\ dtcCh' = [dtcCh EXCEPT ![irq] = c2]
  BY DEF FireUnit
<1>2. CASE irq \notin Irq
  <2> HIDE DEF d2, c2
  <2>1. descriptor' = descriptor /\ dtcCh' = dtcCh
    BY <1>1, <1>2 DEF AreaInv
  <2> QED BY <2>1, AreaKept
<1>3. CASE irq \in Irq
  <2>1. /\ d2 \in [settings : Setting, src : Address] /\ c2 \in RepeatState
        /\ LineHonoured(d2, c2, area[irq])
    BY <1>3, FireHonoured
  <2> HIDE DEF c, d2, c2
  <2>2. descriptor' \in [Irq -> [settings : Setting, src : Address]] /\ dtcCh' \in [Irq -> RepeatState]
    BY <1>1, <2>1 DEF AreaInv
  <2>3. \A j \in Irq : LineHonoured(descriptor'[j], dtcCh'[j], area[j])
    <3> TAKE j \in Irq
    <3>1. CASE j = irq
      BY <1>1, <1>3, <2>1, <3>1 DEF AreaInv
    <3>2. CASE j # irq
      BY <1>1, <3>2 DEF AreaInv
    <3> QED BY <3>1, <3>2
  <2> QED BY <2>2, <2>3 DEF AreaInv, LineHonoured, Offset
<1> QED
  BY <1>2, <1>3

\* Firmware's descriptor: settings the DTC does not hold, and a source at their start.
LEMMA AreaWritten ==
    ASSUME RoutingAssumption, NoRebase, AreaInv, NEW irq \in Irq, NEW s \in Settings,
           NEW src \in Sources, WriteDescriptor(irq, s, src)
    PROVE  AreaInv'
<1> DEFINE d2 == [settings |-> s, src |-> src]
<1>1. /\ s # dtcCh[irq].settings /\ dtcCh' = dtcCh
      /\ descriptor' = [descriptor EXCEPT ![irq] = d2] /\ area' = [area EXCEPT ![irq] = src]
  BY DEF WriteDescriptor, NoRebase
<1>2. s \in Setting /\ src \in Address
  BY DEF RoutingAssumption, Setting, Address
<1>3. d2 \in [settings : Setting, src : Address] /\ LineHonoured(d2, dtcCh[irq], src)
  BY <1>1, <1>2 DEF LineHonoured
<1> HIDE DEF d2
<1>4. /\ descriptor' \in [Irq -> [settings : Setting, src : Address]]
      /\ dtcCh' \in [Irq -> RepeatState] /\ area' \in [Irq -> Address]
  BY <1>1, <1>2, <1>3 DEF AreaInv
<1>5. \A j \in Irq : LineHonoured(descriptor'[j], dtcCh'[j], area'[j])
  <2> TAKE j \in Irq
  <2>1. CASE j = irq
    BY <1>1, <1>3, <2>1 DEF AreaInv
  <2>2. CASE j # irq
    BY <1>1, <2>2 DEF AreaInv
  <2> QED BY <2>1, <2>2
<1> QED
  BY <1>4, <1>5 DEF AreaInv, LineHonoured, Offset

\* Without a descriptor there is no transfer, so nothing is claimed of it.
LEMMA AreaBlank ==
    ASSUME RoutingAssumption, NEW D, NEW C, NEW A,
           D = [irq \in Irq |-> NoDescriptor], C = [irq \in Irq |-> NoRepeatState],
           A = [irq \in Irq |-> 0]
    PROVE  /\ D \in [Irq -> [settings : Setting, src : Address]]
           /\ C \in [Irq -> RepeatState] /\ A \in [Irq -> Address]
           /\ \A irq \in Irq : LineHonoured(D[irq], C[irq], A[irq])
<1>1. 0 \in Halfword /\ 0 \in Address
  BY DEF RoutingAssumption, Halfword, Address
<1>2. NoRepeatState.settings \in Setting
  BY <1>1 DEF NoRepeatState, Setting
<1>3. NoRepeatState \in RepeatState /\ NoDescriptor \in [settings : Setting, src : Address]
  BY <1>1, <1>2 DEF NoRepeatState, NoDescriptor, RepeatState
<1>4. LineHonoured(NoDescriptor, NoRepeatState, 0)
  BY DEF LineHonoured, NoDescriptor, NoRepeatState
<1> QED
  BY <1>1, <1>3, <1>4

\* The state of the DTC and the descriptors change in three steps only.
LEMMA AreaStep ==
    ASSUME RoutingAssumption, NoRebase
    PROVE  AreaInv /\ [Next]_vars => AreaInv'
<1> SUFFICES ASSUME AreaInv, [Next]_vars PROVE AreaInv'
  OBVIOUS
<1> DEFINE Same == UNCHANGED <<descriptor, dtcCh, area>>
<1>1. Same => AreaInv'
  BY AreaKept
<1>2. CASE \E e \in DtcEvents \cup {0}, due \in 0..MaxSlice : MayBeDue(e, due) /\ ServiceDtc(e, due)
  <2>1. PICK e, due : ServiceDtc(e, due)
    BY <1>2
  <2> DEFINE irq == dtcPending[Len(dtcPending)]
  <2> DEFINE others == SubSeq(dtcPending, 1, Len(dtcPending) - 1)
  <2>2. \/ Same
        \/ ~Inert(irq) /\ FireUnit(irq, others, e) /\ UNCHANGED area
    BY <2>1 DEF ServiceDtc
  <2> QED BY <1>1, <2>2, AreaFired
<1>3. CASE \E irq \in Irq : \E s \in Settings, src \in Sources : WriteDescriptor(irq, s, src)
  BY <1>3, AreaWritten
<1>4. CASE Reset
  BY <1>4, AreaBlank DEF Reset, AreaInv
<1>5. CASE \/ \E e \in Timer \cup Plain, due \in 0..MaxSlice : MayBeDue(e, due) /\ RaiseEvent(e, due)
           \/ DmacTick \/ Pass \/ RunDrain \/ DtcDone \/ DrainDone \/ DtcHasPending
           \/ UNCHANGED vars
  <2>1. Same
    BY <1>5 DEF RaiseEvent, DmacTick, Pass, RunDrain, DtcDone, DrainDone, DtcHasPending, engine, vars
  <2> QED BY <1>1, <2>1
<1>6. CASE \E u \in Due : \/ ServiceCopy(u)
                          \/ \E e \in UnitEvents \cup {0}, due \in 0..MaxSlice :
                               MayBeDue(e, due) /\ ServiceUnit(u, e, due)
  <2>1. Same
    BY <1>6 DEF ServiceCopy, ServiceUnit, engine
  <2> QED BY <1>1, <2>1
<1>7. CASE \E ch \in Chan :
             \/ DmacWrite(ch)
             \/ \E e \in Delsr : WriteDelsr(ch, e)
             \/ CheckCompletion(ch) \/ SetCompleted(ch)
             \/ \E i \in 1..MaxUnits : TakePending(ch, i)
  <2>1. Same
    BY <1>7 DEF DmacWrite, WriteDmcra, WriteDmcnt, WriteDmint, WriteDmsts, WriteDmtmd, WriteChcr,
        WriteDmac, WriteDelsr, WriteLinks, CheckCompletion, SetCompleted, TakePending, engine
  <2> QED BY <1>1, <2>1
<1>8. CASE \E irq \in Irq : (\E w \in Ielsr : WriteIelsr(irq, w)) \/ TakeIrq(irq)
  <2>1. Same
    BY <1>8 DEF WriteIelsr, WriteLinks, TakeIrq, engine
  <2> QED BY <1>1, <2>1
<1> QED
  BY <1>2, <1>3, <1>4, <1>5, <1>6, <1>7, <1>8 DEF Next, DrainStep

\* Every read of the DTC lies in the area firmware chose last, for all lines,
\* settings and sources, as long as a new source comes with new settings (dtc_fire).
THEOREM AreasKept ==
    ASSUME RoutingAssumption, NoRebase
    PROVE  Spec => []AreaHonoured
<1>1. Init => AreaInv
  BY AreaBlank DEF Init, AreaInv
<1>2. AreaInv /\ [Next]_vars => AreaInv'
  BY AreaStep
<1>3. AreaInv => AreaHonoured
  BY AreaHeld
<1> QED
  BY <1>1, <1>2, <1>3, PTL DEF Spec
=============================================================================
