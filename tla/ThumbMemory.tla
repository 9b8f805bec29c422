----------------------------- MODULE ThumbMemory -----------------------------
(***************************************************************************)
(* Loads and stores of the instruction interpreter (cpu/thumb.rs): one        *)
(* register with its addressing modes, two, a list of them, and the exclusive *)
(* forms.  Addresses and words wrap at Byte^4; RAM, flash and what is mapped   *)
(* to nothing are sets of addresses.  A behaviour is one instruction.         *)
(***************************************************************************)
EXTENDS Integers, FiniteSets, SequencesExt

CONSTANTS
    Byte,             \* the values of a byte: 0..Byte-1
    Ram, Flash,       \* addresses; any other is refused
    Reg, SP, PC,      \* registers, PC not among Reg
    Here,             \* the address of the instruction
    Files,            \* what the registers may hold
    Instr             \* the instructions tried

VARIABLES
    cells,            \* the bytes of RAM and flash
    file,             \* the registers
    target,           \* where the instruction branches, or NoBranch
    refused,          \* whether a fault is pending
    done              \* the instruction that was executed

memoryVars == <<cells, file, target, refused, done>>

Size == Byte ^ 4
NoBranch == -1
Idle == [k |-> "none"]

Init ==
    /\ cells \in {[a \in Ram \cup Flash |-> ((a \div s) + a) % Byte] : s \in {1, 3}}
    /\ file \in Files
    /\ target = NoBranch /\ refused = FALSE /\ done = Idle

-----------------------------------------------------------------------------
(* Memory, a byte at a time.                                                 *)

Mapped(a) == a % Size \in Ram \cup Flash
ByteAt(a) == IF Mapped(a) THEN cells[a % Size] ELSE 0
Digit(v, i) == (v \div Byte ^ i) % Byte

Load(a, n) ==
    LET part(i) == IF i < n THEN ByteAt(a + i) * Byte ^ i ELSE 0
    IN  part(0) + part(1) + part(2) + part(3)

\* Stores to flash are dropped without a fault.
Stored(c, a, n, v) ==
    [x \in DOMAIN c |->
        IF x \in Ram /\ (x - a) % Size < n THEN Digit(v, (x - a) % Size) ELSE c[x]]

Faults(a, n) == \E i \in 0..(n - 1) : ~Mapped(a + i)

\* rr
Rr(n) == IF n = PC THEN ((Here + 4) \div 4) * 4 ELSE file[n]

\* sx, by the bytes of a value
Sx(v, n) == IF 2 * v >= Byte ^ n THEN (v - Byte ^ n) % Size ELSE v

-----------------------------------------------------------------------------
(* Instructions.                                                             *)

\* The end of an instruction that writes registers, or bytes.
Loads(f, t) == file' = f /\ target' = t /\ cells' = cells
Stores(c, f) == cells' = c /\ file' = f /\ target' = NoBranch
Refuse(b) == refused' = (refused \/ b)

\* One register: a positive offset, a shifted register, or the forms with P, U and W.
One(i) ==
    LET off  == IF i.form = "reg" THEN file[i.m] * 2 ^ i.sh ELSE i.imm
        moved == (Rr(i.n) + (IF i.u THEN off ELSE -off)) % Size
        addr == IF i.p THEN moved ELSE Rr(i.n)
        back(f) == IF i.w \/ ~i.p THEN [f EXCEPT ![i.n] = moved] ELSE f
        v == IF i.signed THEN Sx(Load(addr, i.size), i.size) ELSE Load(addr, i.size)
    IN  IF i.load /\ i.form = "imm" /\ i.t = PC
        THEN Loads(file, NoBranch) /\ Refuse(FALSE)          \* taken for PLD, whatever its size
        ELSE /\ IF ~i.load THEN Stores(Stored(cells, addr, i.size, Rr(i.t)), back(file))
                ELSE IF i.t = PC THEN Loads(back(file), v)
                ELSE Loads(back([file EXCEPT ![i.t] = v]), NoBranch)
             /\ Refuse(Faults(addr, i.size))

\* A literal is read as a word and cut to its size.
Literal(i) ==
    LET addr == (Rr(PC) + i.imm) % Size
        v == Load(addr, 4) % Byte ^ i.size
    IN  /\ Loads([file EXCEPT ![i.t] = IF i.signed THEN Sx(v, i.size) ELSE v], NoBranch)
        /\ Refuse(Faults(addr, 4))

\* Two registers.
Two(i) ==
    LET moved == (Rr(i.n) + (IF i.u THEN i.imm ELSE -i.imm)) % Size
        addr == IF i.p THEN moved ELSE Rr(i.n)
        back(f) == IF i.w THEN [f EXCEPT ![i.n] = moved] ELSE f
    IN  /\ IF i.load
           THEN Loads(back([file EXCEPT ![i.t] = Load(addr, 4), ![i.t2] = Load(addr + 4, 4)]), NoBranch)
           ELSE Stores(Stored(Stored(cells, addr, 4, Rr(i.t)), addr + 4, 4, Rr(i.t2)), back(file))
        /\ Refuse(Faults(addr, 8))

Ascending(list) == SetToSortSeq(list, LAMBDA a, b : a < b)

\* The loop over a list: the registers, the bytes, and the address it comes to.
\* Mutant: the loop goes from the highest register to the lowest.
WalkDown(list, load, start, f0) ==
    FoldLeft(LAMBDA s, r :
                 IF load THEN [s EXCEPT !.f = [s.f EXCEPT ![r] = Load(s.a, 4)], !.a = @ + 4]
                 ELSE [s EXCEPT !.c = Stored(s.c, s.a, 4, s.f[r]), !.a = @ + 4],
             [f |-> f0, c |-> cells, a |-> start], Reverse(Ascending(list)))

Walk(list, load, start, f0) ==
    FoldLeft(LAMBDA s, r :
                 IF load THEN [s EXCEPT !.f = [s.f EXCEPT ![r] = Load(s.a, 4)], !.a = @ + 4]
                 ELSE [s EXCEPT !.c = Stored(s.c, s.a, 4, s.f[r]), !.a = @ + 4],
             [f |-> f0, c |-> cells, a |-> start], Ascending(list))

\* PUSH moves SP first; POP moves it after the loads and before the read of PC.
Push(i) ==
    LET start == (file[SP] - 4 * Cardinality(i.list)) % Size
        s == Walk(i.list, FALSE, start, [file EXCEPT ![SP] = start])
    IN  Stores(s.c, s.f) /\ Refuse(Faults(start, 4 * Cardinality(i.list)))

Pop(i) ==
    LET s == Walk(i.list \ {PC}, TRUE, file[SP], file)
        toPc == PC \in i.list
    IN  /\ Loads([s.f EXCEPT ![SP] = (s.a + (IF toPc THEN 4 ELSE 0)) % Size],
                 IF toPc THEN Load(s.a, 4) ELSE NoBranch)
        /\ Refuse(Faults(file[SP], 4 * Cardinality(i.list)))

\* The 16-bit forms write back, unless the base is loaded.
Narrow(i) ==
    LET s == Walk(i.list, i.load, file[i.n], file)
        back == IF i.load /\ i.n \in i.list THEN s.f ELSE [s.f EXCEPT ![i.n] = s.a % Size]
    IN  /\ IF i.load THEN Loads(back, NoBranch) ELSE Stores(s.c, back)
        /\ Refuse(Faults(file[i.n], 4 * Cardinality(i.list)))

\* The 32-bit forms; those that go down write their base back first.
Long(i) ==
    LET size == 4 * Cardinality(i.list)
        start == (IF i.ia THEN file[i.n] ELSE file[i.n] - size) % Size
        s == Walk(i.list \ {PC}, i.load, start,
                  IF i.w /\ ~i.ia THEN [file EXCEPT ![i.n] = start] ELSE file)
        back == IF i.w /\ i.ia /\ ~(i.load /\ i.n \in i.list)
                THEN [s.f EXCEPT ![i.n] = (start + size) % Size] ELSE s.f
    IN  /\ IF i.load THEN Loads(back, IF PC \in i.list THEN Load(s.a, 4) ELSE NoBranch)
           ELSE Stores(s.c, back)
        /\ Refuse(Faults(start, size))

\* A store-exclusive always succeeds.
Exclusive(i) ==
    LET addr == (Rr(i.n) + i.imm) % Size IN
    /\ IF i.load THEN Loads([file EXCEPT ![i.t] = Load(addr, i.size)], NoBranch)
       ELSE Stores(Stored(cells, addr, i.size, Rr(i.t)), [file EXCEPT ![i.d] = 0])
    /\ Refuse(Faults(addr, i.size))

Execute(i) ==
    /\ done = Idle /\ done' = i
    /\ CASE i.k = "one" -> One(i)
         [] i.k = "literal" -> Literal(i)
         [] i.k = "two" -> Two(i)
         [] i.k = "push" -> Push(i)
         [] i.k = "pop" -> Pop(i)
         [] i.k = "narrow" -> Narrow(i)
         [] i.k = "long" -> Long(i)
         [] i.k = "exclusive" -> Exclusive(i)

Next == \E i \in Instr : Execute(i)

Spec == Init /\ [][Next]_memoryVars

-----------------------------------------------------------------------------
(* What the architecture says of the instruction, from the registers it       *)
(* finds: its block of memory, what lies where in it, and its base after.      *)

Single == {"one", "literal", "exclusive"}
Offset(i) ==
    CASE i.k = "one" /\ i.form = "reg" -> file[i.m] * 2 ^ i.sh
      [] OTHER -> i.imm

IsBlock(i) == i.k \in {"push", "pop", "narrow", "long"}
IsLoad(i) == CASE i.k = "push" -> FALSE [] i.k \in {"pop", "literal"} -> TRUE [] OTHER -> i.load
Base(i) == CASE i.k \in {"push", "pop"} -> SP [] i.k = "literal" -> PC [] OTHER -> i.n
Downwards(i) == i.k = "push" \/ (i.k = "long" /\ ~i.ia)
Back(i) ==
    CASE i.k = "one" -> i.w \/ ~i.p [] i.k \in {"two", "long"} -> i.w
      [] i.k \in {"push", "pop", "narrow"} -> TRUE [] OTHER -> FALSE

\* The registers of the instruction, from the lowest address upwards, and the bytes of each.
Row(i) ==
    CASE IsBlock(i) -> Ascending(i.list)
      [] i.k = "two" -> <<i.t, i.t2>>
      [] OTHER -> <<i.t>>
Unit(i) == IF i.k \in Single THEN i.size ELSE 4
Length(i) == Unit(i) * Len(Row(i))

Indexed(i) ==
    CASE IsBlock(i) -> Rr(Base(i)) + (IF Downwards(i) THEN -Length(i) ELSE Length(i))
      [] i.k \in {"one", "two"} /\ ~i.u -> Rr(Base(i)) - Offset(i)
      [] OTHER -> Rr(Base(i)) + Offset(i)

\* The lowest address.
Start(i) ==
    CASE IsBlock(i) -> IF Downwards(i) THEN Indexed(i) ELSE Rr(Base(i))
      [] i.k \in {"one", "two"} -> IF i.p THEN Indexed(i) ELSE Rr(Base(i))
      [] OTHER -> Indexed(i)

Place(i, j) == Start(i) + Unit(i) * (j - 1)
WordAt(a, n) == CHOOSE v \in 0..(Byte ^ n - 1) : \A x \in 0..(n - 1) : Digit(v, x) = cells[(a + x) % Size]
Extended(i, v) == IF i.k \in {"one", "literal"} /\ i.signed THEN Sx(v, i.size) ELSE v

Touched(i) == {a % Size : a \in Start(i)..(Start(i) + Length(i) - 1)}
Loaded(i) == IF IsLoad(i) THEN Range(Row(i)) ELSE {}

MemoryAfter(i, a) ==
    IF a \notin Touched(i) \/ IsLoad(i) \/ a \in Flash THEN cells[a]
    ELSE LET j == CHOOSE x \in DOMAIN Row(i) : (a - Place(i, x)) % Size < Unit(i)
         IN  Digit(Rr(Row(i)[j]), (a - Place(i, j)) % Size)

RegisterAfter(i, r) ==
    IF r \in Loaded(i)
    THEN Extended(i, WordAt(Place(i, CHOOSE x \in DOMAIN Row(i) : Row(i)[x] = r), Unit(i)))
    ELSE IF Back(i) /\ r = Base(i) THEN Indexed(i) % Size
    ELSE IF i.k = "exclusive" /\ ~i.load /\ r = i.d THEN 0
    ELSE file[r]

\* Left open: a base that is stored or loaded and written back, a load of PC from a
\* positive constant, and a literal at the end of what is mapped.
Open(i) ==
    \/ Back(i) /\ Base(i) \in Range(Row(i)) /\ ~(i.k = "narrow" /\ i.load)
    \/ i.k = "one" /\ i.form = "imm" /\ i.t = PC
    \/ i.k = "literal" /\ Faults(Start(i), 4)

-----------------------------------------------------------------------------
(* Properties.                                                               *)

\* An instruction that is let through moves the words between its registers and its
\* block as the architecture says, in every addressing mode, and nothing else.
Exact(i) ==
    /\ \A a \in DOMAIN cells : cells'[a] = MemoryAfter(i, a)
    /\ \A r \in Reg : file'[r] = RegisterAfter(i, r)
    /\ target' = IF PC \in Loaded(i) THEN RegisterAfter(i, PC) ELSE NoBranch

\* One that is refused is noticed and reaches no further than its block, its
\* registers and its base.
Contained(i) ==
    /\ refused'
    /\ \A a \in DOMAIN cells : cells'[a] # cells[a] => a \in Touched(i) \ Flash /\ ~IsLoad(i)
    /\ \A r \in Reg : file'[r] # file[r] =>
          r \in Loaded(i) \/ r = Base(i) \/ (i.k = "exclusive" /\ ~i.load /\ r = i.d)

MovesExact ==
    [][done' # Idle =>
          Open(done') \/ IF \A a \in Touched(done') : Mapped(a) THEN ~refused' /\ Exact(done')
                         ELSE Contained(done')]_memoryVars
=============================================================================
