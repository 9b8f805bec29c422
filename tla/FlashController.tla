--------------------------- MODULE FlashController --------------------------
(***************************************************************************)
(* The dataflash and its command interface (peripherals/ra_flash.rs), driven *)
(* as the FSP's R_FLASH_LP drives it: enter P/E mode, then for every byte or  *)
(* block set the address, issue a command, wait for FRDY, clear OPST, wait   *)
(* for FRDY to fall, and leave P/E mode.  A cell is the set of its bits that *)
(* are 1.  Addresses are counted from the start of the window; Outside is    *)
(* any other.                                                                *)
(***************************************************************************)
EXTENDS Integers, Sequences, TLAPS

CONSTANTS
    Size,         \* DATAFLASH_SIZE
    BlockSize,    \* DATAFLASH_BLOCK
    Bits,         \* the bits of a cell
    FlashData,    \* what is programmed
    MaxBytes,     \* bound: bytes of one write
    FlashRude     \* what the driver does against the FSP's sequence

FlashAssumption == Size \in Nat \ {0} /\ BlockSize \in Nat \ {0} /\ MaxBytes \in Nat

VARIABLES
    cells,     \* the dataflash
    faci,      \* FSAR, FWBL0, the count, the sequencer and BCERR0
    job,       \* the driver: what it has to do and where it is
    wanted     \* history: what the cells should hold

flashVars == <<cells, faci, job, wanted>>
Cell == 0..(Size - 1)
Outside == -1
None == -1

\* Reset erases the window, as the JavaScript driver's storage does not outlive it.
FlashInit ==
    /\ cells = [c \in Cell |-> Bits]
    /\ faci = [fsar |-> 0, data |-> Bits, count |-> 0, base |-> None, seq |-> 0, busy |-> FALSE, bcerr |-> FALSE]
    /\ job = [kind |-> "none", at |-> "idle", cell |-> 0, left |-> 0]
    /\ wanted = cells

-----------------------------------------------------------------------------
(* The sequencer.                                                            *)

\* Mutant: the address of every byte is counted from the last one.
TargetTwice(base, seq) == base + seq + seq

\* program_byte: counted from where the programming run began, not from FSAR.
Target(base, seq) == base + seq

ProgramByte ==
    LET base == IF faci.base = None THEN faci.fsar ELSE faci.base
        cell == Target(base, faci.seq)
    IN  IF faci.fsar = Outside THEN UNCHANGED cells /\ faci' = [faci EXCEPT !.busy = TRUE]
        ELSE /\ cells' = IF cell \in Cell THEN [cells EXCEPT ![cell] = @ \cap faci.data] ELSE cells
             /\ faci' = [faci EXCEPT !.busy = TRUE, !.base = base, !.seq = @ + 1]

Block(c) == {d \in Cell : d \div BlockSize = c \div BlockSize}

EraseBlock ==
    /\ cells' = IF faci.fsar = Outside THEN cells
                ELSE [c \in Cell |-> IF c \in Block(faci.fsar) THEN Bits ELSE cells[c]]
    /\ faci' = [faci EXCEPT !.busy = TRUE]

CheckRange == faci.fsar..(faci.fsar + faci.count)

\* blank_check: FSAR and the count less one.
BlankCheck ==
    LET blank == faci.fsar # Outside /\ \A c \in CheckRange : c \in Cell /\ cells[c] = Bits IN
    /\ faci' = [faci EXCEPT !.busy = TRUE, !.bcerr = ~blank]
    /\ UNCHANGED cells

-----------------------------------------------------------------------------
(* The driver.                                                               *)

Busy(at) == job.at = at

\* FPMCR = 0x10: enter P/E mode for a job, which begins a programming run.
EnterPe(kind, cell, n) ==
    /\ Busy("idle")
    /\ faci' = [faci EXCEPT !.base = None, !.seq = 0]
    /\ job' = [kind |-> kind, at |-> "setup", cell |-> cell, left |-> n]
    /\ UNCHANGED <<cells, wanted>>

\* The address, the data or the count, with plain stores.
Setup(data) ==
    /\ Busy("setup")
    /\ faci' = [faci EXCEPT !.fsar = IF job.cell \in Cell THEN job.cell ELSE Outside,
                            !.data = data, !.count = IF job.kind = "blank" THEN job.left - 1 ELSE @]
    /\ job' = [job EXCEPT !.at = "issue"]
    /\ UNCHANGED <<cells, wanted>>

\* FCR with OPST: the command acts at once.
Issue ==
    /\ Busy("issue")
    /\ \/ job.kind = "write" /\ ProgramByte
       \/ job.kind = "erase" /\ EraseBlock
       \/ job.kind = "blank" /\ BlankCheck
    /\ wanted' = IF job.cell \notin Cell \/ job.kind = "blank" THEN wanted
                 ELSE IF job.kind = "write" THEN [wanted EXCEPT ![job.cell] = @ \cap faci.data]
                 ELSE [c \in Cell |-> IF c \in Block(job.cell) THEN Bits ELSE wanted[c]]
    /\ job' = [job EXCEPT !.at = "wait"]

\* FRDY is set: clear OPST.
ClearOpst ==
    /\ Busy("wait") /\ faci.busy
    /\ faci' = [faci EXCEPT !.busy = FALSE]
    /\ job' = [job EXCEPT !.at = "fall"]
    /\ UNCHANGED <<cells, wanted>>

\* FRDY has fallen: the next byte or block, or out of P/E mode.
Proceed ==
    /\ Busy("fall") /\ ~faci.busy
    /\ job' = IF job.kind = "blank" \/ job.left = 1 THEN [job EXCEPT !.at = "exit"]
              ELSE [job EXCEPT !.at = "setup", !.left = @ - 1,
                               !.cell = @ + (IF job.kind = "erase" THEN BlockSize ELSE 1)]
    /\ UNCHANGED <<cells, faci, wanted>>

\* FENTRYR = 0xAA00, which reads back 0; the driver forgets the job.
ExitPe ==
    /\ Busy("exit")
    /\ job' = [job EXCEPT !.at = "idle"]
    /\ UNCHANGED <<cells, faci, wanted>>

\* A job that goes on elsewhere without leaving P/E mode.
Continue(cell) ==
    /\ "continue" \in FlashRude /\ Busy("exit")
    /\ job' = [job EXCEPT !.at = "setup", !.cell = cell, !.left = 1]
    /\ UNCHANGED <<cells, faci, wanted>>

\* A store to the window, outside P/E mode as firmware does it, clears bits.
StoreDirect(cell, data) ==
    /\ Busy("idle")
    /\ cells' = [cells EXCEPT ![cell] = @ \cap data]
    /\ wanted' = [wanted EXCEPT ![cell] = @ \cap data]
    /\ UNCHANGED <<faci, job>>

FlashNext ==
    \/ \E kind \in {"write", "erase", "blank"}, cell \in 0..Size, n \in 1..MaxBytes : EnterPe(kind, cell, n)
    \/ \E data \in FlashData : Setup(data)
    \/ Issue \/ ClearOpst \/ Proceed \/ ExitPe
    \/ \E cell \in Cell : Continue(cell)
    \/ \E cell \in Cell, data \in FlashData : StoreDirect(cell, data)

FlashSpec == FlashInit /\ [][FlashNext]_flashVars

-----------------------------------------------------------------------------
(* Properties.                                                               *)

\* What the driver asked for is what the cells hold: every byte lands at its own
\* address, an erase takes its block and no more, and only an erase sets a bit.
WritesLand == cells = wanted

\* The verdict of a blank check is that of the range it was asked about, all of it.
VerdictHolds ==
    job.kind = "blank" /\ job.at = "wait" =>
        (faci.bcerr <=> \E c \in job.cell..(job.cell + job.left - 1) : c \notin Cell \/ wanted[c] # Bits)

\* Both of them.
BytesLand == WritesLand /\ VerdictHolds

-----------------------------------------------------------------------------
(* Theorems, for any dataflash, any data and any jobs in the FSP's sequence. *)

JobKind == {"none", "write", "erase", "blank"}
JobStep == {"idle", "setup", "issue", "wait", "fall", "exit"}
Shape ==
    /\ cells \in [Cell -> SUBSET Bits]
    /\ faci \in [fsar : Cell \cup {Outside}, data : FlashData \cup {Bits}, count : Int,
                 base : Cell \cup {None}, seq : Nat, busy : BOOLEAN, bcerr : BOOLEAN]
    /\ job \in [kind : JobKind, at : JobStep, cell : Nat, left : Nat]
    /\ job.at # "idle" => job.left >= 1

\* What was set up is what the job is about.
SetUp ==
    job.at = "issue" =>
        /\ faci.fsar = IF job.cell \in Cell THEN job.cell ELSE Outside
        /\ job.kind = "blank" => faci.count = job.left - 1

\* The programming run stands at the job's byte, before it or behind it.
NextAt(cell) == faci.base # None /\ faci.base + faci.seq = cell
RunInStep ==
    job.kind = "write" /\ job.cell \in Cell =>
        /\ job.at \in {"setup", "issue"} => NextAt(job.cell) \/ (faci.base = None /\ faci.seq = 0)
        /\ job.at \in {"wait", "fall"} => NextAt(job.cell + 1)

FlashInv == Shape /\ SetUp /\ RunInStep /\ WritesLand /\ VerdictHolds

\* A command acts on what the job is about.
LEMMA IssueLands ==
    ASSUME FlashAssumption, FlashInv, Issue
    PROVE  FlashInv'
<1>1. /\ Shape /\ WritesLand /\ job.at = "issue" /\ job' = [job EXCEPT !.at = "wait"]
      /\ faci.fsar = IF job.cell \in Cell THEN job.cell ELSE Outside
      /\ Outside \notin Cell /\ None \notin Cell
      /\ job.cell \in Nat /\ job.left \in Nat /\ job.left >= 1 /\ Size \in Nat
  BY DEF FlashInv, Issue, Busy, SetUp, Outside, None, Cell, FlashAssumption, Shape
<1>2. CASE job.kind = "write"
  <2>1. ProgramByte /\ wanted' = IF job.cell \notin Cell THEN wanted ELSE [wanted EXCEPT ![job.cell] = @ \cap faci.data]
    BY <1>2 DEF Issue
  <2>2. CASE job.cell \notin Cell
    <3>1. cells' = cells /\ faci' = [faci EXCEPT !.busy = TRUE] /\ wanted' = wanted
      BY <1>1, <2>1, <2>2 DEF ProgramByte
    <3>2. Shape'
      BY <1>1, <3>1 DEF Shape, JobStep
    <3>3. WritesLand'
      BY <1>1, <3>1 DEF WritesLand
    <3>4. job'.at = "wait" /\ job'.kind = "write" /\ job'.cell \notin Cell
      BY <1>1, <1>2, <2>2 DEF Shape
    <3> QED BY <3>2, <3>3, <3>4 DEF FlashInv, SetUp, RunInStep, VerdictHolds
  <2>3. CASE job.cell \in Cell
    <3> DEFINE base == IF faci.base = None THEN faci.fsar ELSE faci.base
    <3>1. /\ cells' = (IF base + faci.seq \in Cell THEN [cells EXCEPT ![base + faci.seq] = @ \cap faci.data] ELSE cells)
          /\ faci' = [faci EXCEPT !.busy = TRUE, !.base = base, !.seq = @ + 1]
      BY <1>1, <2>1, <2>3 DEF ProgramByte, Target
    <3>2. NextAt(job.cell) \/ (faci.base = None /\ faci.seq = 0)
      BY <1>1, <1>2, <2>3 DEF FlashInv, RunInStep
    <3>3. base + faci.seq = job.cell /\ base \in Cell /\ base \in Int /\ faci.seq \in Nat
      <4>1. faci.base \in Cell \cup {None} /\ faci.seq \in Nat
        BY <1>1 DEF Shape
      <4>2. CASE faci.base = None
        BY <1>1, <2>3, <3>2, <4>1, <4>2 DEF NextAt, Cell
      <4>3. CASE faci.base # None
        BY <3>2, <4>1, <4>3 DEF NextAt, Cell
      <4> QED BY <4>2, <4>3
    <3> HIDE DEF base
    <3>4. cells' = [cells EXCEPT ![job.cell] = @ \cap faci.data]
      BY <2>3, <3>1, <3>3
    <3>5. WritesLand'
      BY <1>1, <2>1, <2>3, <3>4 DEF WritesLand
    <3>6. cells' \in [Cell -> SUBSET Bits]
      BY <1>1, <2>3, <3>4 DEF Shape
    <3>7. /\ faci' \in [fsar : Cell \cup {Outside}, data : FlashData \cup {Bits}, count : Int,
                        base : Cell \cup {None}, seq : Nat, busy : BOOLEAN, bcerr : BOOLEAN]
          /\ faci'.base = base /\ faci'.seq = faci.seq + 1
      <4> DEFINE q == faci.seq + 1
      <4>1. q \in Nat /\ base \in Cell \cup {None}
        BY <3>3
      <4>2. faci' = [faci EXCEPT !.busy = TRUE, !.base = base, !.seq = q]
        BY <3>1
      <4> HIDE DEF q
      <4>3. /\ faci' \in [fsar : Cell \cup {Outside}, data : FlashData \cup {Bits}, count : Int,
                          base : Cell \cup {None}, seq : Nat, busy : BOOLEAN, bcerr : BOOLEAN]
            /\ faci'.base = base /\ faci'.seq = q
        BY <1>1, <4>1, <4>2 DEF Shape
      <4> QED BY <4>3 DEF q
    <3>8. job' \in [kind : JobKind, at : JobStep, cell : Nat, left : Nat] /\ job'.left = job.left
          /\ job'.at = "wait" /\ job'.kind = "write" /\ job'.cell = job.cell
      BY <1>1, <1>2 DEF Shape, JobStep
    <3>9. RunInStep'
      <4>1. faci'.base # None /\ faci'.base + faci'.seq = job'.cell + 1
        <5>1. base # None
          BY <1>1, <3>3
        <5>2. base + (faci.seq + 1) = job.cell + 1
          BY <3>3
        <5> QED BY <3>7, <3>8, <5>1, <5>2
      <4> QED BY <3>8, <4>1 DEF RunInStep, NextAt
    <3> QED BY <1>1, <3>5, <3>6, <3>7, <3>8, <3>9 DEF FlashInv, Shape, SetUp, VerdictHolds
  <2> QED BY <2>2, <2>3
<1>3. CASE job.kind = "erase"
  <2>1. EraseBlock /\ wanted' = IF job.cell \notin Cell THEN wanted
                                ELSE [c \in Cell |-> IF c \in Block(job.cell) THEN Bits ELSE wanted[c]]
    BY <1>3 DEF Issue
  <2>2. WritesLand'
    BY <1>1, <2>1 DEF EraseBlock, WritesLand
  <2>3. cells' \in [Cell -> SUBSET Bits]
    BY <1>1, <2>1 DEF EraseBlock, Shape
  <2>4. /\ faci' \in [fsar : Cell \cup {Outside}, data : FlashData \cup {Bits}, count : Int,
                      base : Cell \cup {None}, seq : Nat, busy : BOOLEAN, bcerr : BOOLEAN]
        /\ job' \in [kind : JobKind, at : JobStep, cell : Nat, left : Nat] /\ job'.left = job.left
        /\ job'.at = "wait" /\ job'.kind = "erase"
    BY <1>1, <1>3, <2>1 DEF EraseBlock, Shape, JobStep
  <2> QED BY <1>1, <2>2, <2>3, <2>4 DEF FlashInv, Shape, SetUp, RunInStep, VerdictHolds
<1>4. CASE job.kind = "blank"
  <2> DEFINE blank == faci.fsar # Outside /\ \A c \in CheckRange : c \in Cell /\ cells[c] = Bits
  <2>1. faci' = [faci EXCEPT !.busy = TRUE, !.bcerr = ~blank] /\ cells' = cells /\ wanted' = wanted
    BY <1>4 DEF Issue, BlankCheck
  <2>2. /\ faci' \in [fsar : Cell \cup {Outside}, data : FlashData \cup {Bits}, count : Int,
                      base : Cell \cup {None}, seq : Nat, busy : BOOLEAN, bcerr : BOOLEAN]
        /\ faci'.bcerr = ~blank
    <3>1. (~blank) \in BOOLEAN
      OBVIOUS
    <3> HIDE DEF blank
    <3> QED BY <1>1, <2>1, <3>1 DEF Shape
  <2>3. /\ job' \in [kind : JobKind, at : JobStep, cell : Nat, left : Nat]
        /\ job'.left = job.left /\ job'.cell = job.cell /\ job'.at = "wait" /\ job'.kind = "blank"
    BY <1>1, <1>4 DEF Shape, JobStep
  <2>4. WritesLand' /\ cells' \in [Cell -> SUBSET Bits]
    BY <1>1, <2>1 DEF WritesLand, Shape
  <2>5. blank <=> \A c \in job.cell..(job.cell + job.left - 1) : c \in Cell /\ wanted[c] = Bits
    <3>1. CASE job.cell \in Cell
      <4>1. faci.fsar = job.cell /\ faci.count = job.left - 1
        BY <1>1, <1>4, <3>1 DEF FlashInv, SetUp
      <4>2. CheckRange = job.cell..(job.cell + job.left - 1) /\ faci.fsar # Outside
        BY <1>1, <3>1, <4>1 DEF CheckRange
      <4> QED BY <1>1, <4>2 DEF WritesLand
    <3>2. CASE job.cell \notin Cell
      <4>1. ~blank
        BY <1>1, <3>2
      <4>2. job.cell \in job.cell..(job.cell + job.left - 1)
        BY <1>1
      <4> QED BY <3>2, <4>1, <4>2
    <3> QED BY <3>1, <3>2
  <2>6. VerdictHolds'
    <3> HIDE DEF blank
    <3>1. faci'.bcerr <=> ~blank
      BY <2>2
    <3> QED BY <2>1, <2>3, <2>5, <3>1 DEF VerdictHolds
  <2> QED BY <1>1, <2>2, <2>3, <2>4, <2>6 DEF FlashInv, Shape, SetUp, RunInStep
<1> QED
  BY <1>2, <1>3, <1>4 DEF Issue

\* Whatever is programmed and erased in the FSP's sequence, a byte lands at its own
\* address and nowhere else, and a blank check answers for the range it was asked
\* about (program_byte, erase_block, blank_check).
THEOREM EveryByteLands ==
    ASSUME FlashAssumption, "continue" \notin FlashRude
    PROVE  FlashSpec => []BytesLand
<1>1. FlashInit => FlashInv
  <2> SUFFICES ASSUME FlashInit PROVE FlashInv
    OBVIOUS
  <2>1. 0 \in Cell
    BY DEF FlashAssumption, Cell
  <2>2. Shape
    BY <2>1 DEF FlashInit, Shape, JobKind, JobStep
  <2> QED BY <2>2 DEF FlashInit, FlashInv, SetUp, RunInStep, WritesLand, VerdictHolds
<1>2. FlashInv /\ [FlashNext]_flashVars => FlashInv'
  <2> SUFFICES ASSUME FlashInv, [FlashNext]_flashVars PROVE FlashInv'
    OBVIOUS
  <2>0. Shape /\ SetUp /\ RunInStep /\ WritesLand /\ VerdictHolds
    BY DEF FlashInv
  <2>1. ASSUME NEW kind \in {"write", "erase", "blank"}, NEW cell \in 0..Size, NEW n \in 1..MaxBytes,
               EnterPe(kind, cell, n)
        PROVE  FlashInv'
    <3>1. /\ faci' = [faci EXCEPT !.base = None, !.seq = 0] /\ cells' = cells /\ wanted' = wanted
          /\ job' = [kind |-> kind, at |-> "setup", cell |-> cell, left |-> n]
      BY <2>1 DEF EnterPe
    <3>2. Shape' /\ faci'.base = None /\ faci'.seq = 0
      <4>1. cell \in Nat /\ n \in Nat /\ n >= 1
        BY DEF FlashAssumption
      <4> QED BY <2>0, <3>1, <4>1 DEF Shape, JobKind, JobStep
    <3> QED BY <2>0, <3>1, <3>2 DEF FlashInv, SetUp, RunInStep, WritesLand, VerdictHolds
  <2>2. ASSUME NEW data \in FlashData, Setup(data) PROVE FlashInv'
    <3> DEFINE addr == IF job.cell \in Cell THEN job.cell ELSE Outside
    <3> DEFINE count == IF job.kind = "blank" THEN job.left - 1 ELSE faci.count
    <3>1. /\ faci' = [faci EXCEPT !.fsar = addr, !.data = data, !.count = count]
          /\ job' = [job EXCEPT !.at = "issue"] /\ cells' = cells /\ wanted' = wanted /\ job.at = "setup"
      BY <2>2 DEF Setup, Busy
    <3>2. addr \in Cell \cup {Outside} /\ count \in Int
      BY <2>0 DEF Shape
    <3> HIDE DEF addr, count
    <3>3. /\ Shape' /\ faci'.fsar = addr /\ faci'.count = count /\ faci'.base = faci.base /\ faci'.seq = faci.seq
          /\ job'.at = "issue" /\ job'.kind = job.kind /\ job'.cell = job.cell /\ job'.left = job.left
      BY <2>0, <3>1, <3>2 DEF Shape, JobStep
    <3>4. SetUp'
      BY <3>3 DEF SetUp, addr, count
    <3>5. RunInStep'
      BY <2>0, <3>1, <3>3 DEF RunInStep, NextAt
    <3> QED BY <2>0, <3>1, <3>3, <3>4, <3>5 DEF FlashInv, WritesLand, VerdictHolds
  <2>3. CASE Issue
    BY <2>3, IssueLands
  <2>4. CASE ClearOpst
    <3>1. /\ faci' = [faci EXCEPT !.busy = FALSE] /\ job' = [job EXCEPT !.at = "fall"]
          /\ cells' = cells /\ wanted' = wanted /\ job.at = "wait"
      BY <2>4 DEF ClearOpst, Busy
    <3>2. /\ Shape' /\ faci'.base = faci.base /\ faci'.seq = faci.seq
          /\ job'.at = "fall" /\ job'.kind = job.kind /\ job'.cell = job.cell
      BY <2>0, <3>1 DEF Shape, JobStep
    <3> QED BY <2>0, <3>1, <3>2 DEF FlashInv, SetUp, RunInStep, NextAt, WritesLand, VerdictHolds
  <2>5. CASE Proceed
    <3>1. /\ cells' = cells /\ faci' = faci /\ wanted' = wanted /\ job.at = "fall"
          /\ job' = IF job.kind = "blank" \/ job.left = 1 THEN [job EXCEPT !.at = "exit"]
                    ELSE [job EXCEPT !.at = "setup", !.left = @ - 1,
                                     !.cell = @ + (IF job.kind = "erase" THEN BlockSize ELSE 1)]
      BY <2>5 DEF Proceed, Busy
    <3>2. CASE job.kind = "blank" \/ job.left = 1
      BY <2>0, <3>1, <3>2 DEF FlashInv, Shape, JobStep, SetUp, RunInStep, WritesLand, VerdictHolds
    <3>3. CASE ~(job.kind = "blank" \/ job.left = 1)
      <4> DEFINE step == IF job.kind = "erase" THEN BlockSize ELSE 1
      <4>1. step \in Nat /\ (job.kind = "write" => step = 1)
        BY DEF FlashAssumption
      <4> HIDE DEF step
      <4>2. job' = [job EXCEPT !.at = "setup", !.left = @ - 1, !.cell = @ + step]
        BY <3>1, <3>3 DEF step
      <4>3. /\ Shape' /\ job'.at = "setup" /\ job'.kind = job.kind /\ job'.cell = job.cell + step
            /\ job.cell \in Nat
        <5> DEFINE left == job.left - 1
        <5> DEFINE next == job.cell + step
        <5>1. left \in Nat /\ left >= 1 /\ next \in Nat /\ job.cell \in Nat
          BY <2>0, <3>1, <3>3, <4>1 DEF Shape
        <5>2. job' = [job EXCEPT !.at = "setup", !.left = left, !.cell = next]
          BY <4>2
        <5> HIDE DEF left, next
        <5>3. /\ job' \in [kind : JobKind, at : JobStep, cell : Nat, left : Nat]
              /\ job'.at = "setup" /\ job'.kind = job.kind /\ job'.cell = next /\ job'.left = left
          BY <2>0, <5>1, <5>2 DEF Shape, JobStep
        <5>4. job'.cell = job.cell + step
          BY <5>3 DEF next
        <5> QED BY <2>0, <3>1, <5>1, <5>3, <5>4 DEF Shape
      <4>4. RunInStep'
        <5> SUFFICES ASSUME job.kind = "write", job.cell + 1 \in Cell PROVE NextAt(job.cell + 1)
          BY <3>1, <4>1, <4>3 DEF RunInStep, NextAt
        <5>1. job.cell \in Cell
          BY <4>3 DEF Cell, FlashAssumption
        <5> QED BY <2>0, <3>1, <5>1 DEF RunInStep
      <4> QED BY <2>0, <3>1, <4>3, <4>4 DEF FlashInv, SetUp, WritesLand, VerdictHolds
    <3> QED BY <3>2, <3>3
  <2>6. CASE ExitPe
    <3>1. /\ job' = [job EXCEPT !.at = "idle"] /\ UNCHANGED <<cells, faci, wanted>>
      BY <2>6 DEF ExitPe
    <3> QED BY <2>0, <3>1 DEF FlashInv, Shape, JobStep, SetUp, RunInStep, WritesLand, VerdictHolds
  <2>7. ASSUME NEW cell \in Cell, NEW data \in FlashData, StoreDirect(cell, data) PROVE FlashInv'
    <3>1. /\ cells' = [cells EXCEPT ![cell] = @ \cap data] /\ wanted' = [wanted EXCEPT ![cell] = @ \cap data]
          /\ faci' = faci /\ job' = job /\ job.at = "idle"
      BY <2>7 DEF StoreDirect, Busy
    <3>2. cells' \in [Cell -> SUBSET Bits]
      BY <2>0, <3>1 DEF Shape
    <3> QED BY <2>0, <3>1, <3>2 DEF FlashInv, Shape, SetUp, RunInStep, NextAt, WritesLand, VerdictHolds
  <2>8. CASE UNCHANGED flashVars
    BY <2>0, <2>8 DEF flashVars, FlashInv, Shape, SetUp, RunInStep, NextAt, WritesLand, VerdictHolds
  <2> QED
    BY <2>1, <2>2, <2>3, <2>4, <2>5, <2>6, <2>7, <2>8 DEF FlashNext, Continue
<1>3. FlashInv => BytesLand
  BY DEF FlashInv, BytesLand
<1> QED
  BY <1>1, <1>2, <1>3, PTL DEF FlashSpec
=============================================================================
