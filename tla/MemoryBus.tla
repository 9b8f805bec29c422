----------------------------- MODULE MemoryBus -----------------------------
(***************************************************************************)
(* One access of the CPU: from its address and size through the alignment    *)
(* rule and the MPU to RAM or to a register model (cpu/mem.rs, the accesses   *)
(* of peripherals/mod.rs, peripherals/mpu.rs).                               *)
(*                                                                         *)
(* The cells are the bytes of one RAM word on each side of a boundary of MPU *)
(* regions, at 0, with nothing mapped above, and the four bytes of two       *)
(* registers: a "sized" one is told which bytes are stored (write_sized), a  *)
(* "merged" one only receives a word (write).                                *)
(***************************************************************************)
EXTENDS Integers, Sequences

CONSTANTS
    Kinds,      \* which of "ram", "sized" and "merged" are there
    BusByte,    \* the values of a byte
    Programs,   \* what firmware programs the MPU with
    Accesses    \* <<offset, size>> of the accesses firmware makes

VARIABLES
    bytes,      \* the bytes of each kind
    mpu,        \* CTRL's bits, and by number the regions: [ram, registers, ap, device]
    context,    \* whether the CPU is privileged, and whether it is in HardFault or NMI
    trap,       \* CCR.UNALIGN_TRP
    pending     \* the deferred fault channels that hold a fault

busVars == <<bytes, mpu, context, trap, pending>>

Cells(k) == IF k = "ram" THEN -2..1 ELSE 0..3
Off == [on |-> FALSE, bypass |-> FALSE, background |-> FALSE, region |-> <<>>]

Init ==
    /\ bytes = [k \in Kinds |-> [c \in Cells(k) |-> 1]]
    /\ mpu = Off
    /\ context = [priv |-> TRUE, hfnmi |-> FALSE]
    /\ trap = FALSE /\ pending = {}

-----------------------------------------------------------------------------
(* Permission.                                                               *)

Covers(r, k, c) == IF k = "ram" THEN c \in r.ram ELSE r.registers

Matching(k, c) == {s \in DOMAIN mpu.region : Covers(mpu.region[s], k, c)}

\* highest_match
Highest(S) == CHOOSE s \in S : \A q \in S : q <= s

\* ap_allows
ApAllows(ap, write, priv) ==
    \/ ap = 1 /\ priv
    \/ ap = 2 /\ (~write \/ priv)
    \/ ap = 3
    \/ ap = 5 /\ ~write /\ priv
    \/ ap = 6 /\ ~write

\* byte_allowed
ByteAllowed(k, c, write, priv) ==
    LET S == Matching(k, c) IN
    IF S = {} THEN priv /\ mpu.background
    ELSE ApAllows(mpu.region[Highest(S)].ap, write, priv)

\* mpu_check of one byte
Allowed(k, c, write, priv) ==
    ~mpu.on \/ (context.hfnmi /\ ~mpu.bypass) \/ ByteAllowed(k, c, write, priv)

\* check_range
Denied(k, S, write, priv) == \E c \in S : ~Allowed(k, c, write, priv)

\* is_device
IsDevice(k, c) == mpu.on /\ Matching(k, c) # {} /\ mpu.region[Highest(Matching(k, c))].device

\* unaligned_deny, of normal memory that is mapped.
Misaligned(k, off, n) ==
    k = "ram" /\ off \in Cells(k) /\ off % n # 0 /\ (trap \/ IsDevice(k, off))

-----------------------------------------------------------------------------
(* Stores and loads.                                                         *)

Addressed(off, n) == off..(off + n - 1)

\* The bytes after a store that is let through.  The bus merges what it read
\* below the addressed bytes and nothing above them.
Stored(k, off, n, v) ==
    [c \in Cells(k) |->
        IF c \in Addressed(off, n) THEN v[c - off]
        ELSE IF k = "merged" /\ c > off THEN 0
        ELSE bytes[k][c]]

\* A register access is checked whole, a RAM access byte by byte.
StoreRegister(k, off, n, v, priv) ==
    IF Denied(k, Addressed(off, n), TRUE, priv)
    THEN pending' = pending \cup {"mpu"} /\ UNCHANGED bytes
    ELSE bytes' = [bytes EXCEPT ![k] = Stored(k, off, n, v)] /\ UNCHANGED pending

\* Mutant: the first byte answers for the access.
LandsByFirst(off, n, priv) ==
    IF Denied("ram", {off}, TRUE, priv) THEN {} ELSE Addressed(off, n) \cap Cells("ram")

Lands(off, n, priv) == {c \in Addressed(off, n) \cap Cells("ram") : ~Denied("ram", {c}, TRUE, priv)}

StoreRam(off, n, v, priv) ==
    IF Misaligned("ram", off, n)
    THEN pending' = pending \cup {"align"} /\ UNCHANGED bytes
    ELSE LET lands == Lands(off, n, priv) IN
         /\ bytes' = [bytes EXCEPT !["ram"] = [c \in Cells("ram") |-> IF c \in lands THEN v[c - off] ELSE @[c]]]
         /\ pending' = {f \in {"mpu", "bus"} :
               IF f = "mpu" THEN Addressed(off, n) \cap Cells("ram") # lands
               ELSE ~(Addressed(off, n) \subseteq Cells("ram"))}

\* A store; `priv' is FALSE too for STRT.
Store(k, off, n, v, priv) ==
    /\ pending = {}
    /\ IF k = "ram" THEN StoreRam(off, n, v, priv) ELSE StoreRegister(k, off, n, v, priv)
    /\ UNCHANGED <<mpu, context, trap>>

\* A bit of the alias region, which lies in no region here: the byte is read and
\* stored, with what was read above it.
StoreBit(k, c, v) ==
    /\ k # "ram" /\ pending = {}
    /\ ~mpu.on \/ (context.hfnmi /\ ~mpu.bypass) \/ (context.priv /\ mpu.background)
    /\ bytes' = [bytes EXCEPT ![k][c] = v]
    /\ UNCHANGED <<mpu, context, trap, pending>>

\* Before the next instruction run raises what is pending and enters a handler.
Raise ==
    /\ pending # {}
    /\ \E f \in pending : pending' = pending \ {f}
    /\ \E h \in BOOLEAN : context' = [priv |-> TRUE, hfnmi |-> h]
    /\ UNCHANGED <<bytes, mpu, trap>>

\* Privileged firmware.
WriteMpu(m) ==
    /\ pending = {} /\ context.priv /\ mpu' = m
    /\ UNCHANGED <<bytes, context, trap, pending>>

WriteCcr(on) ==
    /\ pending = {} /\ context.priv /\ trap' = on
    /\ UNCHANGED <<bytes, mpu, context, pending>>

\* A return, or a write of CONTROL.
SetContext(priv) ==
    /\ pending = {} /\ context' = [priv |-> priv, hfnmi |-> FALSE]
    /\ UNCHANGED <<bytes, mpu, trap, pending>>

Values(n) == {[i \in 0..(n - 1) |-> v] : v \in BusByte}
Privilege == IF context.priv THEN BOOLEAN ELSE {FALSE}

Next ==
    \/ \E k \in Kinds, a \in Accesses, priv \in Privilege : \E v \in Values(a[2]) : Store(k, a[1], a[2], v, priv)
    \/ \E k \in Kinds, v \in BusByte : \E c \in Cells(k) : StoreBit(k, c, v)
    \/ Raise
    \/ \E m \in Programs : WriteMpu(m)
    \/ \E on \in BOOLEAN : WriteCcr(on)
    \/ \E priv \in BOOLEAN : SetContext(priv)

Spec == Init /\ [][Next]_busVars

-----------------------------------------------------------------------------
(* Properties.                                                               *)

TypeOK ==
    /\ bytes \in [Kinds -> UNION {[Cells(k) -> BusByte] : k \in Kinds}]
    /\ pending \subseteq {"mpu", "align", "bus"}

\* A store changes the bytes it addresses and none beside them.
LanesKept ==
    [][busVars' # busVars => \A k \in DOMAIN bytes \cap Kinds, a \in Accesses, priv \in Privilege : \A v \in Values(a[2]) :
          Store(k, a[1], a[2], v, priv) =>
              \A c \in Cells(k) \ Addressed(a[1], a[2]) : bytes'[k][c] = bytes[k][c]]_busVars

\* A byte the MPU denies to the code that runs is changed by no store of it, of
\* whatever size and offset, and the attempt is not passed over in silence.
DeniedKept ==
    [][busVars' # busVars => \A k \in DOMAIN bytes \cap Kinds, a \in Accesses, priv \in Privilege : \A v \in Values(a[2]) :
          Store(k, a[1], a[2], v, priv) =>
              \A c \in Cells(k) \cap Addressed(a[1], a[2]) :
                  ~Allowed(k, c, TRUE, priv) => bytes'[k][c] = bytes[k][c] /\ pending' # {}]_busVars

StoresKept == LanesKept /\ DeniedKept

\* A refused access is dropped (mem.rs:374, mem.rs:394): it changes nothing.
RefusedDropped ==
    [][busVars' # busVars => \A k \in DOMAIN bytes \cap Kinds, a \in Accesses, priv \in Privilege : \A v \in Values(a[2]) :
          Store(k, a[1], a[2], v, priv) /\ pending' # {} => bytes' = bytes]_busVars
=============================================================================
