------------------------------ MODULE StmFlash ------------------------------
(***************************************************************************)
(* Serial flash in the STM32 snapshot: the W25Q on a SPI bus (spi_flash.rs), *)
(* byte by byte as the SPI controller exchanges them, and the controller     *)
(* QUADSPI with the flash the page registers (qspi.rs).  A byte of content   *)
(* is one bit here, a word is two bytes, and an address has its last byte.   *)
(* Left out: the registers of QUADSPI that are only kept, and deep           *)
(* power-down, which does nothing.                                           *)
(***************************************************************************)
EXTENDS Integers, Sequences, SequencesExt

CONSTANTS
    Flashes,    \* which of "spi" and "quad" firmware uses
    Ops,        \* the commands it sends to the W25Q
    Space,      \* the size of either flash
    Sector, Page,   \* 4 KB (and the larger blocks), 256
    Fifo,       \* QSPI_FIFO_WORDS, 8
    Thresholds, \* FTHRES of CR
    Transfers,  \* the bytes a QUADSPI transfer has, DLR + 1
    MaxSent,    \* bound: bytes of one transaction
    FlashRude   \* what a careless program does: "cross", "quad1", "opdummy", "devid",
                \* "unfinished", "tail"

VARIABLES
    chip,       \* the W25Q
    sent,       \* history: the bytes of this transaction
    ideal,      \* history: content and write enable of a flash that obeys its data sheet
    misread,    \* history: a byte came back that the flash does not hold there
    quad,       \* QUADSPI, with its flash
    due,        \* history: what the transfer that runs has yet to deliver, or where to put it
    intended    \* history: the flash of QUADSPI as the program meant it

flashVars == <<chip, sent, ideal, misread, quad, due, intended>>

Least(a, b) == IF a < b THEN a ELSE b
Filled == [a \in 0..(Space - 1) |-> a % 2]

Init ==
    /\ chip = [cells |-> Filled, cmd |-> "none", args |-> <<>>, wel |-> FALSE, status |-> FALSE,
               program |-> <<>>, erase |-> <<>>, reply |-> <<>>, from |-> -1, dummy |-> 0, selected |-> FALSE]
    /\ sent = <<>> /\ misread = FALSE
    /\ ideal = [cells |-> Filled, wel |-> FALSE]
    /\ quad = [cells |-> Filled, on |-> FALSE, thr |-> 0, fifo |-> <<>>, mode |-> "none", addr |-> 0, left |-> 0,
               busy |-> FALSE, tc |-> FALSE, match |-> FALSE]
    /\ due = <<>> /\ intended = Filled

-----------------------------------------------------------------------------
(* The W25Q.                                                                 *)

\* The opcodes: firmware's dummy bytes are none of them.
Opcode == [wren |-> 6, wrdi |-> 4, rdid |-> 159, devid |-> 144, rdsr |-> 5, wrsr |-> 1, pp |-> 2, qpp |-> 50,
           read |-> 3, fast |-> 11, se |-> 32, ce |-> 199]

\* arg_count: the quad program counts its first byte of data.
ArgCount(op) ==
    CASE op \in {"wren", "wrdi", "rdid", "rdsr", "ce"} -> 0
      [] op = "wrsr" -> 1
      [] op \in {"read", "se", "pp"} -> 3
      [] op \in {"fast", "devid", "qpp"} -> 4

Programs == {"pp", "qpp"}
Address(args) == args[3] % Space

Ids == <<239, 64, 24>>

\* apply_command.
Applied(c, op, args) ==
    CASE op = "wren" -> [c EXCEPT !.wel = TRUE, !.status = TRUE]
      [] op = "wrdi" -> [c EXCEPT !.wel = FALSE, !.status = FALSE]
      [] op = "wrsr" -> [c EXCEPT !.wel = (args[1] \div 2) % 2 = 1, !.status = (args[1] \div 2) % 2 = 1]
      [] op = "ce" -> IF c.wel THEN [c EXCEPT !.erase = <<0, Space>>] ELSE c
      [] op = "se" -> IF c.wel THEN [c EXCEPT !.erase = <<Address(args) - (Address(args) % Sector), Sector>>] ELSE c
      [] op \in Programs ->
            IF c.wel /\ Len(args) >= 4
            THEN [c EXCEPT !.program = <<Address(args), SubSeq(args, 4, Least(Len(args), 3 + Page))>>] ELSE c
      [] op = "rdid" -> [c EXCEPT !.reply = Ids, !.from = -1]
      [] op = "devid" -> [c EXCEPT !.reply = <<170, 187>>, !.from = -1]
      [] op = "rdsr" -> [c EXCEPT !.reply = <<IF c.status THEN 2 ELSE 0>>, !.from = -1]
      [] op \in {"read", "fast"} -> [c EXCEPT !.from = Address(args)]

OpOf(v) == {op \in Ops : Opcode[op] = v}

\* start_command: the first answer comes after the command and its arguments.
Started(c, op) ==
    LET d == [c EXCEPT !.dummy = 1 + ArgCount(op), !.cmd = op, !.args = <<>>] IN
    IF ArgCount(op) = 0 THEN [Applied(d, op, <<>>) EXCEPT !.cmd = "none"] ELSE d

\* write: a program takes all that follows its address.
Taken(c, v) ==
    LET args == Append(c.args, v)
        n == ArgCount(c.cmd)
    IN  IF c.cmd = "none"
        THEN IF OpOf(v) = {} THEN c ELSE Started(c, CHOOSE op \in OpOf(v) : TRUE)
        ELSE IF c.cmd \in Programs
        THEN LET kept == SubSeq(args, 1, Least(Len(args), n + Page)) IN
             IF Len(c.args) < n THEN [c EXCEPT !.args = args] ELSE Applied([c EXCEPT !.args = kept], c.cmd, kept)
        ELSE IF Len(args) >= n THEN [Applied(c, c.cmd, args) EXCEPT !.cmd = "none", !.args = <<>>]
        ELSE [c EXCEPT !.args = args]

\* read.
Answer(c) ==
    IF c.dummy > 0 THEN 0
    ELSE IF c.from >= 0 THEN c.cells[c.from]
    ELSE IF c.reply # <<>> THEN Head(c.reply) ELSE 0

Answered(c) ==
    IF c.dummy > 0 THEN [c EXCEPT !.dummy = @ - 1]
    ELSE IF c.from >= 0 THEN [c EXCEPT !.from = (@ + 1) % Space]
    ELSE IF c.reply # <<>> THEN [c EXCEPT !.reply = Tail(@)] ELSE c

\* Mutant: the bytes are stored, and not ANDed.
StoredOver(old, b) == b
Stored(old, b) == old * b

\* commit_pending, when CS rises.
Committed(c) ==
    LET prog == [a \in DOMAIN c.cells |->
                    IF c.program = <<>> THEN c.cells[a]
                    ELSE LET i == ((a - c.program[1]) % Space) + 1 IN
                         IF i <= Len(c.program[2]) THEN Stored(c.cells[a], c.program[2][i]) ELSE c.cells[a]]
        gone == IF c.erase = <<>> THEN {} ELSE {(c.erase[1] + i) % Space : i \in 0..(c.erase[2] - 1)}
        did == c.program # <<>> \/ c.erase # <<>>
    IN  [c EXCEPT !.cells = [a \in DOMAIN prog |-> IF a \in gone THEN 1 ELSE prog[a]],
                  !.program = <<>>, !.erase = <<>>, !.wel = @ /\ ~did, !.status = @ /\ ~did]

\* What the data sheet says a transaction does.
Obeyed(s) ==
    LET op == IF s = <<>> THEN {} ELSE OpOf(s[1])
        is(o) == op = {o}
        a == IF Len(s) >= 4 THEN s[4] ELSE 0
        data == SubSeq(s, 5, Len(s))
    IN  IF is("wren") THEN [ideal EXCEPT !.wel = TRUE]
        ELSE IF is("wrdi") THEN [ideal EXCEPT !.wel = FALSE]
        ELSE IF is("wrsr") /\ Len(s) >= 2 THEN [ideal EXCEPT !.wel = FALSE]
        ELSE IF ~ideal.wel THEN ideal
        ELSE IF is("ce") THEN [cells |-> [b \in DOMAIN ideal.cells |-> 1], wel |-> FALSE]
        ELSE IF is("se") /\ Len(s) >= 4
        THEN [cells |-> [b \in DOMAIN ideal.cells |-> IF b \div Sector = a \div Sector THEN 1 ELSE ideal.cells[b]], wel |-> FALSE]
        ELSE IF (is("pp") \/ is("qpp")) /\ Len(s) >= 5
        THEN [cells |-> [b \in DOMAIN ideal.cells |->
                            IF b - a \in 0..(Len(data) - 1) THEN ideal.cells[b] * data[b - a + 1] ELSE ideal.cells[b]],
              wel |-> FALSE]
        ELSE ideal

\* What the data sheet says the k-th byte of a transaction brings, or -1 for anything.
Expected(s) ==
    LET op == IF s = <<>> THEN {} ELSE OpOf(s[1])
        k == Len(s)
    IN  IF op = {"read"} /\ k >= 5 THEN ideal.cells[(s[4] + k - 5) % Space]
        ELSE IF op = {"fast"} /\ k >= 6 THEN ideal.cells[(s[4] + k - 6) % Space]
        ELSE IF op = {"rdid"} /\ k \in 2..4 THEN Ids[k - 1]
        ELSE IF op = {"devid"} /\ k \in 5..6 THEN <<170, 187>>[k - 4]
        ELSE IF op = {"rdsr"} /\ k = 2 THEN IF ideal.wel THEN 2 ELSE 0
        ELSE -1

\* The bytes a careful program sends: a command, two bytes of address that are 0, the
\* third, and data that is not a command; a page is not crossed.
Careful(v) ==
    LET op == IF sent = <<>> THEN {} ELSE OpOf(sent[1])
        at == Len(sent) + 1
    IN  IF at = 1 THEN v \in {Opcode[o] : o \in Ops} /\ (OpOf(v) = {"devid"} => "devid" \in FlashRude)
        ELSE /\ at \in {2, 3} => v = 0
             /\ at = 4 => v < (IF op \cap {"rdid", "rdsr"} # {} THEN 1 ELSE Space)
             /\ at > 4 /\ op \cap Programs # {} =>
                    v \in {0, 1} /\ ((sent[4] % Page) + at - 4 <= Page \/ "cross" \in FlashRude)
             /\ at > 4 /\ op \cap Programs = {} => v = 0 \/ "opdummy" \in FlashRude
             /\ op \cap {"wren", "wrdi", "ce"} = {}
             /\ op \cap {"se"} # {} => at <= 4
             /\ op \cap {"wrsr"} # {} => at <= 2

\* A byte the SPI controller exchanges.
Exchange(v) ==
    /\ "spi" \in Flashes /\ chip.selected /\ Len(sent) < MaxSent /\ Careful(v)
    /\ LET c == Taken(chip, v)
           s == Append(sent, v)
       IN  /\ chip' = Answered(c)
           /\ sent' = s
           /\ misread' = (misread \/ (Expected(s) # -1 /\ Answer(c) # Expected(s)))
    /\ UNCHANGED <<ideal, quad, due, intended>>

\* cs_changed.
Select ==
    /\ "spi" \in Flashes /\ ~chip.selected
    /\ chip' = [chip EXCEPT !.selected = TRUE] /\ sent' = <<>>
    /\ UNCHANGED <<ideal, misread, quad, due, intended>>

Deselect ==
    /\ chip.selected
    /\ sent # <<>> /\ OpOf(sent[1]) = {"qpp"} => Len(sent) # 5 \/ "quad1" \in FlashRude
    /\ chip' = [Committed(chip) EXCEPT !.selected = FALSE, !.cmd = "none", !.args = <<>>, !.reply = <<>>, !.from = -1]
    /\ ideal' = Obeyed(sent)
    /\ UNCHANGED <<sent, misread, quad, due, intended>>

-----------------------------------------------------------------------------
(* QUADSPI.                                                                  *)

Word(a) == <<IF a < Space THEN quad.cells[a] ELSE 1, IF a + 1 < Space THEN quad.cells[a + 1] ELSE IF a < Space THEN 0 ELSE 1>>
Threshold(q) == IF q.thr = 0 THEN 1 ELSE q.thr
Minus2(n) == IF n < 2 THEN 0 ELSE n - 2

\* complete.
Completed(q) == [q EXCEPT !.tc = TRUE, !.busy = FALSE, !.mode = "none", !.left = 0, !.fifo = <<>>]

\* refill_fifo, up to the threshold.
Refilled(q) ==
    LET words == (q.left + 1) \div 2
        n == IF Len(q.fifo) >= Threshold(q) THEN 0 ELSE Least(Threshold(q) - Len(q.fifo), words)
    IN  [q EXCEPT !.fifo = @ \o [i \in 1..n |-> Word(q.addr + 2 * (i - 1))], !.addr = @ + 2 * n,
                  !.left = IF n = words THEN 0 ELSE @ - 2 * n]

\* Mutant: the words are written, and the address stays.
FlushedInPlace(q) ==
    [q EXCEPT !.fifo = <<>>,
              !.cells = [a \in DOMAIN @ |->
                            LET i == a - q.addr IN
                            IF i \in 0..(2 * Len(q.fifo) - 1) THEN q.fifo[(i \div 2) + 1][(i % 2) + 1] ELSE @[a]]]

\* flush_fifo, with write_flash_word: beyond the end nothing is written.
Flushed(q) ==
    [q EXCEPT !.fifo = <<>>, !.addr = @ + 2 * Len(q.fifo),
              !.cells = [a \in DOMAIN @ |->
                            LET i == a - q.addr IN
                            IF i \in 0..(2 * Len(q.fifo) - 1) THEN q.fifo[(i \div 2) + 1][(i % 2) + 1] ELSE @[a]]]

WriteCr(on, thr) ==
    /\ "quad" \in Flashes
    /\ quad' = [quad EXCEPT !.on = on, !.thr = thr]
    /\ UNCHANGED <<chip, sent, ideal, misread, due, intended>>

\* CR, ABORT: the words that wait in the FIFO are given up.
Abort ==
    /\ "quad" \in Flashes
    /\ quad' = [quad EXCEPT !.busy = FALSE, !.tc = FALSE, !.match = FALSE, !.fifo = <<>>, !.mode = "none", !.left = 0]
    /\ due' = <<>> /\ intended' = quad.cells
    /\ UNCHANGED <<chip, sent, ideal, misread>>

ClearFlags ==
    /\ quad.tc \/ quad.match
    /\ quad' = [quad EXCEPT !.tc = FALSE, !.match = FALSE]
    /\ UNCHANGED <<chip, sent, ideal, misread, due, intended>>

\* start_xfer, with CCR; what is left in the FIFO of a transfer that was not finished
\* stays there.
StartTransfer(kind, a, n) ==
    LET q == [quad EXCEPT !.busy = TRUE, !.tc = FALSE]
        t == [q EXCEPT !.mode = kind, !.addr = a, !.left = n]
    IN  /\ quad.on
        /\ quad.mode # "none" => "unfinished" \in FlashRude
        /\ kind = "write" /\ n % 2 = 1 => "tail" \in FlashRude
        /\ quad' = CASE kind = "read" -> Refilled(t)
                     [] kind = "write" -> t
                     [] kind = "poll" -> Completed([q EXCEPT !.match = @ \/ Word(a) = <<1, 1>>])
                     [] kind = "command" -> Completed(q)
        /\ due' = CASE kind = "read" -> [i \in 1..((n + 1) \div 2) |-> a + 2 * (i - 1)]
                    [] kind = "write" -> [i \in 1..n |-> a + i - 1]
                    [] OTHER -> <<>>
        /\ UNCHANGED <<chip, sent, ideal, misread, intended>>

\* read_dr.
ReadDr ==
    /\ quad.mode = "read"
    /\ LET q == IF quad.fifo = <<>> THEN Refilled(quad) ELSE quad
           p == [q EXCEPT !.fifo = IF @ = <<>> THEN @ ELSE Tail(@)]
           got == IF q.fifo = <<>> THEN <<0, 0>> ELSE Head(q.fifo)
       IN  /\ quad' = IF p.fifo = <<>> /\ p.left = 0 THEN Completed(p) ELSE p
           /\ misread' = (misread \/ due = <<>> \/ got # Word(Head(due)))
           /\ due' = IF due = <<>> THEN due ELSE Tail(due)
    /\ UNCHANGED <<chip, sent, ideal, intended>>

\* write_dr: the FIFO goes to the flash when it is full and at the end.
WriteDr(w) ==
    /\ quad.mode = "write"
    /\ LET q == [quad EXCEPT !.fifo = Append(@, w), !.left = Minus2(@)]
           f == IF Len(q.fifo) >= Fifo \/ q.left = 0 THEN Flushed(q) ELSE q
       IN  quad' = IF f.left = 0 THEN Completed(f) ELSE f
    /\ intended' = [a \in DOMAIN intended |->
                        IF due # <<>> /\ a = due[1] THEN w[1]
                        ELSE IF Len(due) > 1 /\ a = due[2] THEN w[2] ELSE intended[a]]
    /\ due' = IF Len(due) > 1 THEN Tail(Tail(due)) ELSE <<>>
    /\ UNCHANGED <<chip, sent, ideal, misread>>

Next ==
    \/ Select \/ Deselect \/ \E v \in {0, 1, 2, 3} \cup {Opcode[o] : o \in Ops} : Exchange(v)
    \/ \E on \in BOOLEAN, thr \in Thresholds : WriteCr(on, thr)
    \/ Abort \/ ClearFlags \/ ReadDr \/ \E w \in {<<0, 1>>, <<1, 1>>} : WriteDr(w)
    \/ \E kind \in {"read", "write", "poll", "command"}, a \in 0..(Space - 1), n \in Transfers : StartTransfer(kind, a, n)

Spec == Init /\ [][Next]_flashVars

-----------------------------------------------------------------------------
(* Properties.                                                               *)

\* Between transactions the W25Q holds, and lets be written, what its data sheet says,
\* and what it answered was there.
ChipObeys ==
    /\ ~misread
    /\ chip.status = chip.wel
    /\ ~chip.selected => chip.cells = ideal.cells /\ chip.wel = ideal.wel

\* QUADSPI has written what the program meant, but for what the FIFO holds, and says
\* that it is done when the last word is through.
QuadLands ==
    /\ quad.mode # "write" => quad.cells = intended
    /\ quad.tc => due = <<>> /\ quad.fifo = <<>>
    /\ quad.mode = "write" => Flushed(quad).cells = intended /\ Len(quad.fifo) < Fifo

FlashesAgree == ChipObeys /\ QuadLands

\* A program that waits for the threshold flag before it writes gets to write.
WriteProceeds == quad.mode = "write" => Len(quad.fifo) >= Threshold(quad)
=============================================================================
