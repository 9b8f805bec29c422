------------------------------- MODULE SpiBus -------------------------------
(***************************************************************************)
(* The RSPI channels and the virtual SD card (peripherals/ra_spi.rs) with    *)
(* the bus that joins them (system.rs): a byte the master writes to SPDR is  *)
(* answered at once by the card, if one is armed there, else by the other    *)
(* channel as a slave, else by the loopback jig, else by the pull-up.        *)
(* A driver on channel Host runs the SD protocol, one byte at a time.  Bytes *)
(* are numbers.  A command frame is its first byte, one byte that stands for *)
(* the four of the argument, and the CRC.  The two interrupts are left to    *)
(* EventRouting.                                                             *)
(***************************************************************************)
EXTENDS Integers, Sequences, FiniteSets, SequenceTheorems, TLAPS

CONSTANTS
    Channel,
    Host,        \* the channel whose master drives the card
    Block,       \* 0..SD_BLOCKS - 1
    Argument,    \* the block numbers the driver asks for
    BlockSize,   \* 512
    CrcSize,     \* 2
    Command,     \* the commands the driver uses
    DataByte,
    SpiRude      \* what the driver or the page does against the protocol

VARIABLES
    spi,     \* the registers of each channel
    armed,   \* SD_ARMED: the channels the card answers
    loop,    \* the channels with the loopback jig
    card,    \* SD_CARD: one engine, whoever clocks it
    host,    \* the driver: where it is in its transaction
    mirror,  \* history: the blocks as the driver has written them
    ended    \* history: how the last transaction ended

spiVars == <<spi, armed, loop, card, host, mirror, ended>>

Idle == 255
Token == 254
Accepted == 5
FrameSize == 3
None == -1
Off == [spe |-> FALSE, mstr |-> FALSE, rdr |-> 0, sprf |-> FALSE, ovrf |-> FALSE, staged |-> None]
Blank(b) == [i \in 1..BlockSize |-> b % 2]
NoCommand == [phase |-> "idle", n |-> 0, arg |-> 0, pos |-> 0, got |-> <<>>, sent |-> FALSE,
              data |-> <<>>, app |-> FALSE, inits |-> 0]

Init ==
    /\ spi = [c \in Channel |-> Off] /\ armed = {} /\ loop = {}
    /\ card = [frame |-> <<>>, out |-> <<>>, disk |-> [b \in Block |-> Blank(b)], app |-> FALSE,
               inits |-> 0, writing |-> FALSE, wblock |-> 0, skip |-> FALSE, wbuf |-> <<>>, busy |-> 0]
    /\ host = NoCommand
    /\ mirror = [b \in Block |-> Blank(b)]
    /\ ended = "none"

-----------------------------------------------------------------------------
(* The SD engine: exchange takes a card and a byte to a card and a byte.     *)

\* acmd41_n, counted to the second, which makes the card ready.
Ready(inits) == inits >= 2
R1(cd) == IF Ready(cd.inits) THEN 0 ELSE 1

BlockReply(cd, b) == <<0, Idle, Token>> \o cd.disk[b] \o [i \in 1..CrcSize |-> Idle]

\* run_cmd: what command n with argument arg answers.
Answer(cd, n, arg) ==
    CASE n = 0 -> <<1>>
      [] n = 8 -> <<1, 0, 0, 1, 170>>
      [] n = 58 -> <<R1(cd), 192, 255, 128, 0>>
      [] n = 55 -> <<R1(cd)>>
      [] n = 41 /\ cd.app -> <<IF Ready(cd.inits + 1) THEN 0 ELSE 1>>
      [] n = 17 -> IF arg \in Block THEN BlockReply(cd, arg) ELSE <<64>>
      [] n = 24 -> IF arg \in Block THEN <<0>> ELSE <<64>>
      [] OTHER -> <<4>>

Buffer(cd, writes) == IF writes THEN <<>> ELSE cd.wbuf

RunCmd(cd) ==
    LET n == cd.frame[1] - 64
        arg == cd.frame[2]
        writes == n = 24 /\ arg \in Block
    IN  [cd EXCEPT
          !.frame = <<>>, !.app = n = 55,
          !.inits = IF n = 0 THEN 0 ELSE IF n = 41 /\ cd.app /\ @ < 2 THEN @ + 1 ELSE @,
          !.writing = writes, !.wblock = IF writes THEN arg ELSE @,
          !.skip = @ \/ writes, !.wbuf = Buffer(cd, writes),
          !.out = @ \o Answer(cd, n, arg)]

\* Mutant: the CRC bytes are not counted.
WriteLengthNoCrc == BlockSize

WriteLength == BlockSize + CrcSize

\* The write phase: skip to the token, collect, and store the block.
Collect(cd, mosi) ==
    LET more == [cd EXCEPT !.wbuf = Append(@, mosi)]
    IN  IF cd.skip THEN [cd EXCEPT !.skip = mosi # Token]
        ELSE IF Len(more.wbuf) < WriteLength THEN more
        ELSE [more EXCEPT !.disk[cd.wblock] = SubSeq(more.wbuf, 1, BlockSize),
                          !.writing = FALSE, !.out = Append(@, Accepted), !.busy = 3]

\* The frame: a byte 01xxxxxx starts one.
Framed(cd, mosi) ==
    IF cd.frame = <<>> /\ mosi \notin 64..127 THEN cd ELSE [cd EXCEPT !.frame = Append(@, mosi)]

\* The next byte out: what is queued, busy while a write waits, or idle.
Emit(cd) ==
    IF cd.out # <<>> THEN <<[cd EXCEPT !.out = Tail(@)], Head(cd.out)>>
    ELSE IF cd.writing /\ cd.busy > 0 THEN <<[cd EXCEPT !.busy = @ - 1], 0>>
    ELSE <<cd, Idle>>

\* Mutant: the answer starts within the byte that ends the frame or the block.
ExchangeEager(cd, mosi) ==
    IF cd.writing THEN Emit(Collect(cd, mosi))
    ELSE LET f == Framed(cd, mosi)
         IN  Emit(IF Len(f.frame) = FrameSize THEN RunCmd(f) ELSE f)

\* exchange: the byte that completes a frame or a block is answered by idle.
Exchange(cd, mosi) ==
    IF cd.writing
    THEN LET next == Collect(cd, mosi) IN IF next.writing THEN Emit(next) ELSE <<next, Idle>>
    ELSE LET f == Framed(cd, mosi)
         IN  IF Len(f.frame) = FrameSize THEN <<RunCmd(f), Idle>> ELSE Emit(f)

-----------------------------------------------------------------------------
(* The channels.                                                             *)

IsSlave(u) == u.spe /\ ~u.mstr
Slaves(c) == {d \in Channel \ {c} : IsSlave(spi[d])}

\* A byte is sampled into RDR; an unread one stays and OVRF is set.
Sampled(u, byte) ==
    IF u.sprf THEN [u EXCEPT !.ovrf = TRUE] ELSE [u EXCEPT !.rdr = byte, !.sprf = TRUE]

Clocked(u, mosi) == [Sampled(u, mosi) EXCEPT !.staged = None]
ShiftsOut(u) == IF u.staged = None THEN Idle ELSE u.staged

Loops(c, mosi) == IF c \in loop THEN mosi ELSE Idle

\* The byte that answers the master of c.
Miso(c, mosi) ==
    IF c \in armed THEN Exchange(card, mosi)[2]
    ELSE IF Slaves(c) # {} THEN ShiftsOut(spi[CHOOSE s \in Slaves(c) : TRUE])
    ELSE Loops(c, mosi)

\* SPDR of a master: one byte out, one byte in.
Shift(c, mosi) ==
    /\ spi[c].mstr
    /\ card' = IF c \in armed THEN Exchange(card, mosi)[1] ELSE card
    /\ spi' = [d \in Channel |->
                 IF d = c THEN Sampled(spi[c], Miso(c, mosi))
                 ELSE IF c \notin armed /\ d \in Slaves(c) THEN Clocked(spi[d], mosi)
                 ELSE spi[d]]
    /\ UNCHANGED <<armed, loop>>

\* SPDR of a slave: staged until the master clocks it.
Stage(c, byte) ==
    /\ ~spi[c].mstr
    /\ spi' = [spi EXCEPT ![c].staged = byte]
    /\ UNCHANGED <<armed, loop, card, host, mirror, ended>>

Drained(u) == [u EXCEPT !.sprf = FALSE, !.ovrf = FALSE]

ReadSpdr(c) ==
    /\ c # Host \/ ~host.sent
    /\ spi[c].sprf
    /\ spi' = [spi EXCEPT ![c] = Drained(@)]
    /\ UNCHANGED <<armed, loop, card, host, mirror, ended>>

WriteSpcr(c, spe, mstr) ==
    /\ c = Host => host = NoCommand
    /\ spi' = [spi EXCEPT ![c].spe = spe, ![c].mstr = mstr]
    /\ UNCHANGED <<armed, loop, card, host, mirror, ended>>

\* Firmware that uses the bus for anything but the card.
Transfer(c, mosi) ==
    /\ c \notin armed
    /\ c = Host => host.phase = "idle" /\ ~host.sent
    /\ Shift(c, mosi)
    /\ UNCHANGED <<host, mirror, ended>>

\* The page arms and disarms the card and the jig between transactions.
SetSdCard(c, on) ==
    /\ host.phase = "idle" \/ "unplug" \in SpiRude
    /\ armed' = IF on THEN armed \cup {c} ELSE armed \ {c}
    /\ UNCHANGED <<spi, loop, card, host, mirror, ended>>

SetLoopback(c, on) ==
    /\ loop' = IF on THEN loop \cup {c} ELSE loop \ {c}
    /\ UNCHANGED <<spi, armed, card, host, mirror, ended>>

\* component_exchange: an attached part clocks a slave, or only looks.
ComponentExchange(c, mosi) ==
    /\ spi' = [spi EXCEPT ![c] = IF @.mstr THEN @ ELSE Clocked(@, mosi)]
    /\ UNCHANGED <<armed, loop, card, host, mirror, ended>>

\* peek_miso: what the part of a master channel is told.
Peeked(c, mosi) ==
    IF c \notin armed THEN Idle
    ELSE Loops(c, mosi)

-----------------------------------------------------------------------------
(* The driver: a frame, the answer, then what the command calls for.         *)

\* The R1 the driver expects, from the transactions it has ended itself.
ExpectedR1 ==
    LET inits == IF host.n = 41 /\ host.app THEN host.inits + 1 ELSE host.inits
        ready == IF Ready(inits) THEN 0 ELSE 1
    IN  CASE host.n \in {0, 8} -> 1
          [] host.n \in {55, 58} -> ready
          [] host.n = 41 /\ host.app -> ready
          [] host.n \in {17, 24} -> IF host.arg \in Block THEN 0 ELSE 64
          [] OTHER -> 4

\* A driver that abandons gives up a transaction and begins the next.
Begin(n, arg, data) ==
    /\ host.phase = "idle" \/ (host.phase \in {"r1", "token", "data"} /\ "abandon" \in SpiRude)
    /\ ~host.sent /\ Host \in armed
    /\ spi[Host].spe /\ spi[Host].mstr /\ ~spi[Host].sprf
    /\ n \in Command /\ (n \notin {17, 24} => arg = 0)
    /\ n # 24 => data = Blank(0)
    /\ host' = [host EXCEPT !.phase = "frame", !.n = n, !.arg = arg, !.data = data,
                            !.pos = 0, !.got = <<>>]
    /\ UNCHANGED <<spi, armed, loop, card, mirror, ended>>

\* What the driver sends next.
Sends ==
    CASE host.phase = "frame" -> <<64 + host.n, host.arg, 1>>[host.pos + 1]
      [] host.phase = "start" -> Token
      [] host.phase = "data" /\ host.n = 24 /\ host.pos < BlockSize -> host.data[host.pos + 1]
      [] OTHER -> Idle

Send ==
    /\ host.phase # "idle" /\ ~host.sent
    /\ Shift(Host, Sends)
    /\ host' = [host EXCEPT !.sent = TRUE]
    /\ UNCHANGED <<mirror, ended>>

\* The bytes of a command's own tail: the four of R7 and of the OCR, a block and its CRC.
TailSize == IF host.n \in {8, 58} THEN 4 ELSE BlockSize + CrcSize

\* The driver's next state after the byte it reads back.
Advanced(byte) ==
    LET next == [host EXCEPT !.sent = FALSE]
        then(phase) == [next EXCEPT !.phase = phase, !.pos = 0]
        counted(last, phase) == IF host.pos + 1 = last THEN then(phase) ELSE [next EXCEPT !.pos = @ + 1]
    IN  CASE host.phase = "frame" -> counted(FrameSize, "r1")
          [] host.phase \in {"r1", "accept"} /\ byte = Idle -> next
          [] host.phase = "r1" /\ host.n = 24 /\ byte = 0 -> then("start")
          [] host.phase = "r1" /\ host.n = 17 /\ byte = 0 -> then("token")
          [] host.phase = "r1" /\ host.n \in {8, 58} /\ byte # Idle -> then("data")
          [] host.phase = "start" -> then("data")
          [] host.phase = "token" -> IF byte = Token THEN then("data") ELSE next
          [] host.phase = "data" /\ host.n = 24 -> counted(TailSize, "accept")
          [] host.phase = "data" /\ host.n # 24 -> [counted(TailSize, "idle") EXCEPT !.got = Append(@, byte)]
          [] OTHER -> then("idle")

\* How a transaction that ends with this byte ended.
Verdict(byte) ==
    IF host.phase = "r1" /\ byte # ExpectedR1 THEN "answer"
    ELSE IF host.n = 17 /\ host.phase = "data"
            /\ SubSeq(Append(host.got, byte), 1, BlockSize) # mirror[host.arg] THEN "data"
    ELSE IF host.phase = "accept" /\ byte # Accepted THEN "refused"
    ELSE "good"

Take ==
    /\ host.sent /\ spi[Host].sprf
    /\ LET byte == spi[Host].rdr
           next == Advanced(byte)
           done == next.phase = "idle"
           answered == host.phase = "r1" /\ byte # Idle
       IN  /\ spi' = [spi EXCEPT ![Host] = Drained(@)]
           /\ host' = IF done THEN [NoCommand EXCEPT
                                      !.app = host.n = 55,
                                      !.inits = IF host.n = 0 THEN 0
                                                ELSE IF host.n = 41 /\ host.app /\ host.inits < 2
                                                THEN host.inits + 1 ELSE host.inits]
                      ELSE next
           /\ mirror' = IF host.phase = "accept" /\ byte = Accepted
                        THEN [mirror EXCEPT ![host.arg] = host.data] ELSE mirror
           /\ ended' = IF done \/ answered THEN Verdict(byte) ELSE ended
    /\ UNCHANGED <<armed, loop, card>>

Next ==
    \/ \E n \in Command, arg \in Argument, data \in [1..BlockSize -> DataByte] : Begin(n, arg, data)
    \/ Send
    \/ Take
    \/ \E c \in Channel :
        \/ \E spe, mstr \in BOOLEAN : WriteSpcr(c, spe, mstr)
        \/ ReadSpdr(c)
        \/ \E b \in DataByte : Transfer(c, b) \/ Stage(c, b) \/ ComponentExchange(c, b)
        \/ \E on \in BOOLEAN : SetSdCard(c, on) \/ SetLoopback(c, on)

Spec == Init /\ [][Next]_spiVars

\* Firmware in a polling loop keeps running.
FairSpec == Spec /\ WF_spiVars(Send) /\ WF_spiVars(Take)

-----------------------------------------------------------------------------
(* Properties.                                                               *)

TypeOK ==
    /\ armed \subseteq Channel /\ loop \subseteq Channel
    /\ Len(card.frame) < FrameSize /\ Len(card.wbuf) <= BlockSize + CrcSize /\ card.wblock \in Block
    /\ card.disk \in [Block -> [1..BlockSize -> DataByte \cup {0, 1}]]
    /\ host.phase \in {"idle", "frame", "r1", "start", "token", "data", "accept"}

\* Whatever ran before, every transaction of the driver ends well: the first byte
\* that is not idle is the R1 of its own command, a block read is the block last
\* written, and a block written is accepted.
EndsWell == ended \in {"none", "good"}

\* The card holds what the driver has written; a block changes only within the
\* transaction that writes it, and then to what that transaction carries.
DiskAgree ==
    \A b \in Block :
        \/ card.disk[b] = mirror[b]
        \/ host.phase \in {"data", "accept"} /\ host.n = 24 /\ host.arg = b /\ card.disk[b] = host.data

CardFaithful == EndsWell /\ DiskAgree

\* A driver that keeps polling gets through every transaction: the card counts
\* the bytes of a frame and of a block as the driver does.
TransactionsEnd == host.phase # "idle" ~> host.phase = "idle"

\* What an attached part is told of a master channel without a card is what the
\* bus would answer the master.
PeekAgrees == \A c \in Channel \ armed, b \in DataByte : spi[c].mstr => Peeked(c, b) = Miso(c, b)

\* A card that has accepted a block holds the line low before it is idle again.
BusyBeforeIdle == [][host.phase = "accept" /\ host'.phase = "idle" => Miso(Host, Idle)' = 0]_spiVars

-----------------------------------------------------------------------------
(* Theorems, for any channels, blocks and data, and a driver and a page that  *)
(* keep to the protocol.                                                      *)

SpiAssumption ==
    /\ Host \in Channel /\ Block \subseteq Nat /\ Argument \subseteq Nat
    /\ BlockSize \in Nat \ {0} /\ CrcSize \in Nat
    /\ Command \subseteq 0..63 /\ DataByte \subseteq Int

Polite == SpiRude = {}

Phase == {"idle", "frame", "r1", "start", "token", "data", "accept"}
Content == [1..BlockSize -> Int]

SpiUnit == [spe : BOOLEAN, mstr : BOOLEAN, rdr : Int, sprf : BOOLEAN, ovrf : BOOLEAN, staged : Int]
CardState ==
    [frame : Seq(Int), out : Seq(Int), disk : [Block -> Content], app : BOOLEAN, inits : Nat,
     writing : BOOLEAN, wblock : Int, skip : BOOLEAN, wbuf : Seq(Int), busy : Int]
HostState ==
    [phase : Phase, n : Int, arg : Int, pos : Nat, got : Seq(Int), sent : BOOLEAN,
     data : Seq(Int), app : BOOLEAN, inits : Nat]

SpiTypes ==
    /\ spi \in [Channel -> SpiUnit] /\ card \in CardState /\ host \in HostState
    /\ mirror \in [Block -> Content]

-----------------------------------------------------------------------------
(* The transaction that runs: what the card has been told and has to say.    *)

Writes == host.n = 24 /\ host.arg \in Block
Reads  == host.n = 17 /\ host.arg \in Block

\* The bytes of the phase that the card has seen.
Bytes == IF host.sent THEN host.pos + 1 ELSE host.pos

FrameBytes == <<64 + host.n, host.arg, 1>>

\* The bytes of the answer: a block is preceded by R1, a gap and the token.
ReplySize == IF Reads THEN 3 + BlockSize + CrcSize ELSE IF host.n \in {8, 58} THEN 5 ELSE 1
Reply ==
    [i \in Nat |->
      IF i = 1 THEN ExpectedR1
      ELSE IF i = 2 THEN Idle ELSE IF i = 3 THEN Token
      ELSE IF i <= 3 + BlockSize THEN mirror[host.arg][i - 3] ELSE Idle]

\* How much of it is out; the tails of R7 and OCR may be anything.
Given == ReplySize - Len(card.out)
Queued ==
    /\ Given >= 0
    /\ \A i \in 1..Len(card.out) : Given + i = 1 \/ Reads => card.out[i] = Reply[Given + i]
Read == Given = 1 \/ Reads => spi[Host].rdr = Reply[Given]

InitsAfter ==
    IF host.n = 0 THEN 0
    ELSE IF host.n = 41 /\ host.app /\ host.inits < 2 THEN host.inits + 1 ELSE host.inits

\* The card before and after it has run the command.
Waits == /\ card.out = <<>> /\ ~card.writing
         /\ card.app = host.app /\ card.inits = host.inits
Ran   == /\ card.frame = <<>> /\ (card.app <=> host.n = 55) /\ card.inits = InitsAfter
         /\ Queued

\* A write the card is to collect.
Opened == /\ card.writing <=> Writes
          /\ Writes => card.skip /\ card.wbuf = <<>> /\ card.wblock = host.arg

WriteBytes == [i \in Nat |-> IF i <= BlockSize THEN host.data[i] ELSE Idle]
Collecting ==
    /\ card.writing /\ ~card.skip /\ card.wblock = host.arg
    /\ Len(card.wbuf) = Bytes /\ \A i \in 1..Bytes : card.wbuf[i] = WriteBytes[i]
Collected == ~card.writing /\ card.disk[host.arg] = host.data

AtIdle == ~host.sent /\ card.frame = <<>> /\ Waits
AtFrame ==
    /\ host.pos <= 2
    /\ Bytes < 3 => /\ Waits /\ Len(card.frame) = Bytes
                    /\ \A i \in 1..Bytes : card.frame[i] = FrameBytes[i]
    /\ Bytes = 3 => Ran /\ Given = 0 /\ Opened
AtR1 == host.pos = 0 /\ Ran /\ Given = Bytes /\ Opened /\ (host.sent => Read)
AtStart ==
    /\ host.pos = 0 /\ Writes /\ Ran /\ Given = 1
    /\ card.writing /\ card.wbuf = <<>> /\ card.wblock = host.arg /\ (~host.sent => card.skip) /\ (host.sent => ~card.skip)
AtToken ==
    /\ host.pos = 0 /\ Reads /\ Ran /\ ~card.writing
    /\ Given \in (IF host.sent THEN {2, 3} ELSE {1, 2})
    /\ host.sent => Read
AtRead ==
    /\ Reads \/ host.n \in {8, 58}
    /\ host.pos < TailSize /\ Ran /\ ~card.writing
    /\ Given = Bytes + (IF Reads THEN 3 ELSE 1)
    /\ host.sent => Read
    /\ Reads => Len(host.got) = host.pos /\ \A i \in 1..host.pos : host.got[i] = Reply[3 + i]
AtWrite ==
    /\ Writes /\ host.pos < WriteLength /\ card.frame = <<>> /\ card.app = FALSE /\ card.inits = InitsAfter
    /\ Bytes < WriteLength => card.out = <<>> /\ Collecting
    /\ Bytes = WriteLength => card.out = <<Accepted>> /\ Collected
AtAccept ==
    /\ host.pos = 0 /\ Writes /\ card.frame = <<>> /\ card.app = FALSE /\ card.inits = InitsAfter /\ Collected
    /\ ~host.sent => card.out = <<Accepted>>
    /\ host.sent => card.out = <<>> /\ spi[Host].rdr = Accepted

\* The bus is the driver's while a transaction runs, and its last byte is unread.
Owned == Host \in armed /\ spi[Host].mstr /\ (spi[Host].sprf <=> host.sent)

\* The block that has been stored and not yet been acknowledged.
Stored == Writes /\ (host.phase = "accept" \/ (host.phase = "data" /\ Bytes = WriteLength))

DiskInv == \A b \in Block : card.disk[b] = mirror[b] \/ (Stored /\ b = host.arg)

HostInv ==
    /\ host.phase # "idle" => Owned
    /\ Writes => host.data \in Content
    /\ host.phase \in {"frame", "r1", "token"} => host.got = <<>>
    /\ host.n \in 0..63

PhaseInv ==
    /\ host.phase = "idle" => AtIdle
    /\ host.phase = "frame" => AtFrame
    /\ host.phase = "r1" => AtR1
    /\ host.phase = "start" => AtStart
    /\ host.phase = "token" => AtToken
    /\ host.phase = "data" /\ host.n # 24 => AtRead
    /\ host.phase = "data" /\ host.n = 24 => AtWrite
    /\ host.phase = "accept" => AtAccept

SpiInv == SpiTypes /\ HostInv /\ PhaseInv /\ DiskInv /\ EndsWell

-----------------------------------------------------------------------------
(* Sequences of bytes.                                                       *)

\* Taking the next byte of a queue.
LEMMA Popped ==
    ASSUME NEW s \in Seq(Int), s # <<>>
    PROVE  /\ Tail(s) \in Seq(Int) /\ Head(s) = s[1] /\ Head(s) \in Int
           /\ Len(s) \in Nat \ {0} /\ Len(Tail(s)) = Len(s) - 1
           /\ \A i \in 1..(Len(s) - 1) : Tail(s)[i] = s[i + 1]
<1>1. Len(s) \in Nat \ {0}
  OBVIOUS
<1> QED BY <1>1

\* One byte more.
LEMMA Appended ==
    ASSUME NEW s \in Seq(Int), NEW x \in Int
    PROVE  /\ Append(s, x) \in Seq(Int) /\ Len(s) \in Nat /\ Len(Append(s, x)) = Len(s) + 1
           /\ \A i \in 1..Len(s) : Append(s, x)[i] = s[i]
           /\ Append(s, x)[Len(s) + 1] = x
OBVIOUS

\* A block is a sequence of its size, ...
LEMMA ContentIsSeq ==
    ASSUME SpiAssumption, NEW f \in Content
    PROVE  f \in Seq(Int) /\ Len(f) = BlockSize
<1>1. BlockSize \in Nat \ {0}
  BY DEF SpiAssumption
<1>2. f \in Seq(Int)
  BY <1>1, SeqDef DEF Content
<1>3. Len(f) \in Nat /\ DOMAIN f = 1..Len(f) /\ DOMAIN f = 1..BlockSize
  BY <1>2, LenProperties DEF Content
<1> DEFINE n == Len(f)
<1>4. n \in Nat /\ 1..n = 1..BlockSize
  BY <1>3
<1> HIDE DEF n
<1>5. n >= BlockSize
  BY <1>1, <1>4
<1>6. n <= BlockSize
  BY <1>1, <1>4
<1> QED BY <1>1, <1>2, <1>4, <1>5, <1>6 DEF n

\* ... and the first bytes of a sequence are a block.
LEMMA ContentOf ==
    ASSUME SpiAssumption, NEW s \in Seq(Int), Len(s) >= BlockSize, NEW f \in Content,
           \A i \in 1..BlockSize : f[i] = s[i]
    PROVE  SubSeq(s, 1, BlockSize) = f
<1>1. BlockSize \in Nat \ {0} /\ Len(s) \in Nat
  BY DEF SpiAssumption
<1>2. SubSeq(s, 1, BlockSize) = [i \in 1..BlockSize |-> s[i]]
  BY <1>1
<1>3. f = [i \in 1..BlockSize |-> f[i]]
  BY DEF Content
<1> QED BY <1>2, <1>3

-----------------------------------------------------------------------------
(* What the card does with a byte.                                           *)

\* The next byte out of the queue, and nothing else that matters.
LEMMA Emitted ==
    ASSUME NEW cd \in CardState
    PROVE  LET e == Emit(cd)[1] IN
           /\ e \in CardState /\ Emit(cd)[2] \in Int
           /\ e.frame = cd.frame /\ e.disk = cd.disk /\ e.app = cd.app /\ e.inits = cd.inits
           /\ e.writing = cd.writing /\ e.wblock = cd.wblock /\ e.skip = cd.skip /\ e.wbuf = cd.wbuf
           /\ cd.out # <<>> => e.out = Tail(cd.out) /\ Emit(cd)[2] = Head(cd.out)
           /\ cd.out = <<>> => e.out = <<>>
<1>1. CASE cd.out # <<>>
  <2> DEFINE x == Tail(cd.out)  e == [cd EXCEPT !.out = x]
  <2>1. Emit(cd) = <<e, Head(cd.out)>>
    BY <1>1 DEF Emit
  <2>2. x \in Seq(Int) /\ Head(cd.out) \in Int
    BY <1>1, Popped DEF CardState
  <2> HIDE DEF x
  <2>3. e \in CardState
    BY <2>2 DEF CardState
  <2>4. e.out = x /\ e.frame = cd.frame /\ e.disk = cd.disk /\ e.app = cd.app /\ e.inits = cd.inits
        /\ e.writing = cd.writing /\ e.wblock = cd.wblock /\ e.skip = cd.skip /\ e.wbuf = cd.wbuf
    BY DEF CardState
  <2> HIDE DEF e
  <2>5. Emit(cd)[1] = e /\ Emit(cd)[2] = Head(cd.out)
    BY <2>1
  <2> QED BY <1>1, <2>2, <2>3, <2>4, <2>5 DEF x
<1>2. CASE cd.out = <<>> /\ cd.writing /\ cd.busy > 0
  <2> DEFINE x == cd.busy - 1  e == [cd EXCEPT !.busy = x]
  <2>1. Emit(cd) = <<e, 0>>
    BY <1>2 DEF Emit
  <2>2. x \in Int
    BY DEF CardState
  <2> HIDE DEF x
  <2>3. e \in CardState
    BY <2>2 DEF CardState
  <2>4. e.out = cd.out /\ e.frame = cd.frame /\ e.disk = cd.disk /\ e.app = cd.app /\ e.inits = cd.inits
        /\ e.writing = cd.writing /\ e.wblock = cd.wblock /\ e.skip = cd.skip /\ e.wbuf = cd.wbuf
    BY DEF CardState
  <2> HIDE DEF e
  <2>5. Emit(cd)[1] = e /\ Emit(cd)[2] \in Int
    BY <2>1
  <2> QED BY <1>2, <2>3, <2>4, <2>5
<1>3. CASE cd.out = <<>> /\ ~(cd.writing /\ cd.busy > 0)
  <2>1. Emit(cd) = <<cd, Idle>>
    BY <1>3 DEF Emit
  <2> QED BY <1>3, <2>1 DEF Idle
<1> QED BY <1>1, <1>2, <1>3

\* A byte of a frame that is not its last.
LEMMA FrameGrows ==
    ASSUME NEW cd \in CardState, NEW mosi \in Int, ~cd.writing, cd.out = <<>>, Len(cd.frame) < 2,
           cd.frame = <<>> => mosi \in 64..127
    PROVE  Exchange(cd, mosi) = <<[cd EXCEPT !.frame = Append(cd.frame, mosi)], Idle>>
<1> DEFINE f == [cd EXCEPT !.frame = Append(cd.frame, mosi)]
<1>1. Framed(cd, mosi) = f
  BY DEF Framed
<1>2. f.frame = Append(cd.frame, mosi) /\ f.out = <<>> /\ ~f.writing
  BY DEF CardState
<1>3. Len(f.frame) # FrameSize
  BY <1>2, Appended DEF FrameSize, CardState
<1> HIDE DEF f
<1>4. Emit(f) = <<f, Idle>>
  BY <1>2 DEF Emit
<1> QED BY <1>1, <1>3, <1>4 DEF Exchange, f

\* The byte that ends a frame is answered by idle, the command runs.
LEMMA FrameEnds ==
    ASSUME NEW cd \in CardState, NEW mosi \in Int, ~cd.writing, Len(cd.frame) = 2
    PROVE  Exchange(cd, mosi) = <<RunCmd([cd EXCEPT !.frame = Append(cd.frame, mosi)]), Idle>>
<1> DEFINE f == [cd EXCEPT !.frame = Append(cd.frame, mosi)]
<1>1. cd.frame # <<>>
  OBVIOUS
<1>2. Framed(cd, mosi) = f
  BY <1>1 DEF Framed
<1>3. f.frame = Append(cd.frame, mosi)
  BY DEF CardState
<1>4. Len(f.frame) = FrameSize
  <2>1. cd.frame \in Seq(Int)
    BY DEF CardState
  <2>2. Len(Append(cd.frame, mosi)) = Len(cd.frame) + 1
    BY <2>1, Appended
  <2> QED BY <1>3, <2>2 DEF FrameSize
<1> HIDE DEF f
<1>5. Exchange(cd, mosi) = <<RunCmd(f), Idle>>
  BY <1>2, <1>4 DEF Exchange
<1> QED BY <1>5 DEF f

\* Between frames the card hears nothing in an idle byte, also when it waits for a token.
LEMMA IdleEmits ==
    ASSUME NEW cd \in CardState, (cd.frame = <<>> /\ ~cd.writing) \/ (cd.writing /\ cd.skip)
    PROVE  Exchange(cd, Idle) = Emit(cd)
<1>1. CASE ~cd.writing /\ cd.frame = <<>>
  <2>1. Framed(cd, Idle) = cd
    BY <1>1 DEF Framed, Idle
  <2>2. Len(cd.frame) # FrameSize
    BY <1>1 DEF FrameSize
  <2> QED BY <1>1, <2>1, <2>2 DEF Exchange
<1>2. CASE cd.writing /\ cd.skip
  <2> DEFINE x == Idle # Token
  <2>0. x = TRUE
    BY DEF Idle, Token
  <2>1. Collect(cd, Idle) = [cd EXCEPT !.skip = x]
    BY <1>2 DEF Collect
  <2> HIDE DEF x
  <2>2. [cd EXCEPT !.skip = x] = cd
    BY <1>2, <2>0 DEF CardState
  <2> QED BY <1>2, <2>1, <2>2 DEF Exchange
<1> QED BY <1>1, <1>2

\* The token ends the wait of a write.
LEMMA TokenHeard ==
    ASSUME NEW cd \in CardState, cd.writing, cd.skip
    PROVE  Exchange(cd, Token) = Emit([cd EXCEPT !.skip = FALSE])
<1> DEFINE x == Token # Token
           f == [cd EXCEPT !.skip = x]
<1>1. Collect(cd, Token) = f
  BY DEF Collect
<1>2. x = FALSE
  OBVIOUS
<1> HIDE DEF x
<1>3. f.writing
  BY DEF CardState
<1> HIDE DEF f
<1>4. Exchange(cd, Token) = Emit(f)
  BY <1>1, <1>3 DEF Exchange
<1> QED BY <1>2, <1>4 DEF f

\* A byte of a block that is not its last is kept.
LEMMA ByteKept ==
    ASSUME SpiAssumption, NEW cd \in CardState, NEW mosi \in Int,
           cd.writing, ~cd.skip, Len(cd.wbuf) + 1 < WriteLength
    PROVE  Exchange(cd, mosi) = Emit([cd EXCEPT !.wbuf = Append(cd.wbuf, mosi)])
<1> DEFINE x == Append(cd.wbuf, mosi)
           f == [cd EXCEPT !.wbuf = x]
<1>1. cd.wbuf \in Seq(Int)
  BY DEF CardState
<1>2. Len(x) = Len(cd.wbuf) + 1
  BY <1>1, Appended
<1>3. f.wbuf = x /\ f.writing
  BY DEF CardState
<1>4. Collect(cd, mosi) = f
  BY <1>2, <1>3 DEF Collect
<1> HIDE DEF f
<1>5. Exchange(cd, mosi) = Emit(f)
  BY <1>3, <1>4 DEF Exchange
<1> QED BY <1>5 DEF f

\* The last one stores the block, and is answered by idle.
LEMMA BlockKept ==
    ASSUME SpiAssumption, NEW cd \in CardState, NEW mosi \in Int,
           cd.writing, ~cd.skip, Len(cd.wbuf) + 1 = WriteLength, cd.out = <<>>, cd.wblock \in Block,
           NEW content \in Content, SubSeq(Append(cd.wbuf, mosi), 1, BlockSize) = content
    PROVE  LET e == Exchange(cd, mosi)[1] IN
           /\ e \in CardState /\ Exchange(cd, mosi)[2] = Idle
           /\ e.frame = cd.frame /\ e.app = cd.app /\ e.inits = cd.inits
           /\ ~e.writing /\ e.out = <<Accepted>>
           /\ e.disk = [cd.disk EXCEPT ![cd.wblock] = content]
<1> DEFINE x == Append(cd.wbuf, mosi)
           more == [cd EXCEPT !.wbuf = x]
           y == [cd.disk EXCEPT ![cd.wblock] = content]
           z == <<Accepted>>
           kept == [more EXCEPT !.disk = y, !.writing = FALSE, !.out = z, !.busy = 3]
<1>1. cd.wbuf \in Seq(Int)
  BY DEF CardState
<1>2. Len(x) = Len(cd.wbuf) + 1 /\ x \in Seq(Int)
  BY <1>1, Appended
<1>3. more.wbuf = x /\ more.out = <<>> /\ more.disk = cd.disk /\ more \in CardState
      /\ more.frame = cd.frame /\ more.app = cd.app /\ more.inits = cd.inits
  BY <1>2 DEF CardState
<1>4. y \in [Block -> Content]
  BY DEF CardState
<1>5. z \in Seq(Int) /\ z = Append(<<>>, Accepted)
  BY DEF Accepted
<1>6. Collect(cd, mosi) = kept
  <2>1. ~(Len(more.wbuf) < WriteLength)
    <3>1. WriteLength \in Int /\ Len(cd.wbuf) \in Int
      BY <1>1 DEF WriteLength, SpiAssumption
    <3> QED BY <1>2, <1>3, <3>1
  <2>2. Collect(cd, mosi) = [more EXCEPT !.disk[cd.wblock] = SubSeq(more.wbuf, 1, BlockSize),
                                         !.writing = FALSE, !.out = Append(@, Accepted), !.busy = 3]
    BY <2>1 DEF Collect
  <2> QED BY <1>3, <1>5, <2>2 DEF CardState
<1>7. kept \in CardState /\ kept.disk = y /\ ~kept.writing /\ kept.out = z
      /\ kept.frame = cd.frame /\ kept.app = cd.app /\ kept.inits = cd.inits
  <2> HIDE DEF more, y, z
  <2> DEFINE k == [more EXCEPT !.disk = y]
             l == [k EXCEPT !.out = z]
             m == [l EXCEPT !.writing = FALSE]
  <2>1. k \in CardState /\ k.disk = y
        /\ k.frame = cd.frame /\ k.app = cd.app /\ k.inits = cd.inits
    BY <1>3, <1>4 DEF CardState
  <2>2. l \in CardState /\ l.disk = y /\ l.out = z
        /\ l.frame = cd.frame /\ l.app = cd.app /\ l.inits = cd.inits
    <3> HIDE DEF k
    <3> QED BY <1>5, <2>1 DEF CardState
  <2>3. m \in CardState /\ m.disk = y /\ m.out = z /\ ~m.writing
        /\ m.frame = cd.frame /\ m.app = cd.app /\ m.inits = cd.inits
    <3> HIDE DEF l
    <3> QED BY <2>2 DEF CardState
  <2> DEFINE t == 3
  <2>4. kept = [m EXCEPT !.busy = t]
    BY <1>3 DEF CardState
  <2>5. t \in Int
    OBVIOUS
  <2> HIDE DEF m, kept, t
  <2>6. kept \in CardState
    BY <2>3, <2>4, <2>5 DEF CardState
  <2>7. kept.disk = y /\ kept.out = z /\ kept.writing = m.writing
        /\ kept.frame = cd.frame /\ kept.app = cd.app /\ kept.inits = cd.inits
    BY <2>3, <2>4 DEF CardState
  <2> QED BY <2>3, <2>6, <2>7
<1> HIDE DEF kept
<1>8. Exchange(cd, mosi) = <<kept, Idle>>
  BY <1>6, <1>7 DEF Exchange
<1> QED BY <1>7, <1>8

-----------------------------------------------------------------------------
(* What the driver expects of the card, from the state it shares with it.    *)

\* Nothing the driver goes by changes, and neither does what it waits for.
Same == /\ host'.n = host.n /\ host'.arg = host.arg /\ host'.app = host.app
        /\ host'.inits = host.inits /\ mirror' = mirror

\* What the driver goes by is then the same.
LEMMA SameReply ==
    ASSUME Same
    PROVE  /\ Writes' = Writes /\ Reads' = Reads /\ ReplySize' = ReplySize /\ Reply' = Reply
           /\ InitsAfter' = InitsAfter /\ FrameBytes' = FrameBytes
<1>1. ExpectedR1' = ExpectedR1
  BY DEF Same, ExpectedR1
<1> QED BY <1>1 DEF Same, Writes, Reads, ReplySize, Reply, InitsAfter, FrameBytes

\* The numbers of a transaction.
LEMMA Numbers ==
    ASSUME SpiAssumption, SpiTypes
    PROVE  /\ ReplySize \in Nat \ {0} /\ ReplySize >= 1
           /\ Reads => ReplySize = 3 + BlockSize + CrcSize
           /\ host.n \in {8, 58} => ReplySize = 5
           /\ ~Reads /\ host.n \notin {8, 58} => ReplySize = 1
           /\ ExpectedR1 \in {0, 1, 4, 64}
           /\ InitsAfter \in Nat
           /\ Len(card.out) \in Nat /\ Given \in Int
           /\ WriteLength = BlockSize + CrcSize /\ WriteLength \in Nat \ {0}
           /\ BlockSize \in Nat \ {0} /\ CrcSize \in Nat /\ host.pos \in Nat /\ Bytes \in Nat
           /\ host.n \in Int
<1>1. BlockSize \in Nat \ {0} /\ CrcSize \in Nat
  BY DEF SpiAssumption
<1>2. card \in CardState /\ host \in HostState
  BY DEF SpiTypes
<1>3. host.n \in Int /\ host.pos \in Nat /\ host.inits \in Nat
  BY <1>2 DEF HostState
<1>4. ~(Reads /\ host.n \in {8, 58})
  BY <1>3 DEF Reads
<1>5. ReplySize \in Nat \ {0} /\ ReplySize >= 1
      /\ (Reads => ReplySize = 3 + BlockSize + CrcSize)
      /\ (host.n \in {8, 58} => ReplySize = 5)
      /\ (~Reads /\ host.n \notin {8, 58} => ReplySize = 1)
  BY <1>1, <1>4 DEF ReplySize
<1>6. ExpectedR1 \in {0, 1, 4, 64}
  BY DEF ExpectedR1
<1>7. InitsAfter \in Nat
  BY <1>3 DEF InitsAfter
<1>8. Len(card.out) \in Nat
  BY <1>2 DEF CardState
<1>9. Given \in Int
  BY <1>5, <1>8 DEF Given
<1>10. WriteLength = BlockSize + CrcSize /\ WriteLength \in Nat \ {0}
  BY <1>1 DEF WriteLength
<1>11. Bytes \in Nat
  BY <1>3 DEF Bytes
<1> QED BY <1>1, <1>3, <1>5, <1>6, <1>7, <1>8, <1>9, <1>10, <1>11

\* Two queues in a row.
LEMMA Joined ==
    ASSUME NEW s \in Seq(Int), NEW t \in Seq(Int)
    PROVE  /\ s \o t \in Seq(Int) /\ Len(s) \in Nat /\ Len(t) \in Nat /\ Len(s \o t) = Len(s) + Len(t)
           /\ \A i \in 1..Len(s) : (s \o t)[i] = s[i]
           /\ \A i \in 1..Len(t) : (s \o t)[Len(s) + i] = t[i]
OBVIOUS

\* A block on the wire: R1, a gap, the token, the block and its CRC.
LEMMA BlockOnWire ==
    ASSUME SpiAssumption, NEW cd \in CardState, NEW b \in Block
    PROVE  LET a == BlockReply(cd, b) IN
           /\ a \in Seq(Int) /\ Len(a) = 3 + BlockSize + CrcSize
           /\ a[1] = 0 /\ a[2] = Idle /\ a[3] = Token
           /\ \A i \in 1..BlockSize : a[3 + i] = cd.disk[b][i]
           /\ \A i \in (BlockSize + 4)..Len(a) : a[i] = Idle
<1> DEFINE h == <<0, Idle, Token>>
           f == cd.disk[b]
           g == [i \in 1..CrcSize |-> Idle]
           k == h \o f
<1>1. BlockSize \in Nat \ {0} /\ CrcSize \in Nat
  BY DEF SpiAssumption
<1>2. h \in Seq(Int) /\ Len(h) = 3 /\ h[1] = 0 /\ h[2] = Idle /\ h[3] = Token
  BY DEF Idle, Token
<1>3. f \in Seq(Int) /\ Len(f) = BlockSize
  <2>1. f \in Content
    BY DEF CardState
  <2> QED BY <2>1, ContentIsSeq
<1>4. g \in Seq(Int) /\ Len(g) = CrcSize /\ \A i \in 1..CrcSize : g[i] = Idle
  <2>1. g \in [1..CrcSize -> Int]
    BY DEF Idle
  <2>2. g \in Seq(Int)
    BY <1>1, <2>1, SeqDef
  <2>3. Len(g) = CrcSize
    BY <1>1
  <2> QED BY <2>2, <2>3
<1>5. BlockReply(cd, b) = k \o g
  BY DEF BlockReply
<1> HIDE DEF h, f, g
<1>6. k \in Seq(Int) /\ Len(k) = 3 + BlockSize /\ k[1] = 0 /\ k[2] = Idle /\ k[3] = Token
      /\ \A i \in 1..BlockSize : k[3 + i] = f[i]
  <2>1. k \in Seq(Int) /\ Len(k) = 3 + BlockSize
        /\ (\A i \in 1..3 : k[i] = h[i]) /\ \A i \in 1..BlockSize : k[3 + i] = f[i]
    <3>1. k \in Seq(Int) /\ Len(k) = Len(h) + Len(f)
          /\ (\A i \in 1..Len(h) : k[i] = h[i]) /\ \A i \in 1..Len(f) : k[Len(h) + i] = f[i]
      BY <1>2, <1>3, Joined
    <3> HIDE DEF k
    <3> QED BY <1>2, <1>3, <3>1
  <2> HIDE DEF k
  <2> QED BY <1>2, <2>1
<1> HIDE DEF k
<1>7. /\ k \o g \in Seq(Int) /\ Len(k \o g) = 3 + BlockSize + CrcSize
      /\ \A i \in 1..(3 + BlockSize) : (k \o g)[i] = k[i]
      /\ \A i \in (BlockSize + 4)..(3 + BlockSize + CrcSize) : (k \o g)[i] = Idle
  <2> DEFINE a == k \o g
  <2>1. a \in Seq(Int) /\ Len(a) = 3 + BlockSize + CrcSize
        /\ (\A i \in 1..(3 + BlockSize) : a[i] = k[i])
        /\ \A i \in 1..CrcSize : a[3 + BlockSize + i] = g[i]
    <3>1. a \in Seq(Int) /\ Len(a) = Len(k) + Len(g)
          /\ (\A i \in 1..Len(k) : a[i] = k[i]) /\ \A i \in 1..Len(g) : a[Len(k) + i] = g[i]
      BY <1>4, <1>6, Joined
    <3> HIDE DEF a
    <3> QED BY <1>4, <1>6, <3>1
  <2> HIDE DEF a
  <2>2. \A i \in (BlockSize + 4)..(3 + BlockSize + CrcSize) : a[i] = Idle
    <3> TAKE i \in (BlockSize + 4)..(3 + BlockSize + CrcSize)
    <3> DEFINE j == i - 3 - BlockSize
    <3>1. j \in 1..CrcSize /\ 3 + BlockSize + j = i
      BY <1>1
    <3> QED BY <1>4, <2>1, <3>1
  <2> QED BY <2>1, <2>2 DEF a
<1>8. \A i \in 1..BlockSize : (k \o g)[3 + i] = f[i]
  BY <1>1, <1>6, <1>7
<1>9. (k \o g)[1] = 0 /\ (k \o g)[2] = Idle /\ (k \o g)[3] = Token
  BY <1>1, <1>6, <1>7
<1> QED BY <1>5, <1>7, <1>8, <1>9 DEF f

\* What a card that agrees with the driver answers is what the driver expects.
LEMMA Answers ==
    ASSUME SpiAssumption, SpiTypes, NEW cd \in CardState,
           cd.app <=> host.app, cd.inits = host.inits, Reads => cd.disk[host.arg] = mirror[host.arg]
    PROVE  LET a == Answer(cd, host.n, host.arg) IN
           /\ a \in Seq(Int) /\ Len(a) = ReplySize /\ a[1] = ExpectedR1
           /\ Reads => \A i \in 1..Len(a) : a[i] = Reply[i]
<1> DEFINE a == Answer(cd, host.n, host.arg)
<1>0. cd.inits \in Nat /\ host.n \in Int
  BY DEF CardState, SpiTypes, HostState
<1>1. CASE Reads
  <2>1. a = BlockReply(cd, host.arg) /\ host.arg \in Block /\ host.n = 17
    BY <1>1 DEF Answer, Reads
  <2>2. ExpectedR1 = 0 /\ ReplySize = 3 + BlockSize + CrcSize
    BY <1>1, <2>1, Numbers DEF ExpectedR1
  <2>3. ASSUME NEW i \in 1..Len(a)
        PROVE  a[i] = Reply[i]
    <3>1. BlockSize \in Nat \ {0} /\ CrcSize \in Nat
      BY DEF SpiAssumption
    <3>2. Len(a) = 3 + BlockSize + CrcSize /\ a[1] = 0 /\ a[2] = Idle /\ a[3] = Token
      BY <2>1, BlockOnWire
    <3>3. i \in Nat
      BY <3>1, <3>2
    <3>4. Reply[i] = IF i = 1 THEN ExpectedR1
                     ELSE IF i = 2 THEN Idle ELSE IF i = 3 THEN Token
                     ELSE IF i <= 3 + BlockSize THEN mirror[host.arg][i - 3] ELSE Idle
      BY <3>3 DEF Reply
    <3>5. CASE i \in {1, 2, 3}
      BY <2>2, <3>2, <3>4, <3>5
    <3>6. CASE i \notin {1, 2, 3} /\ i <= 3 + BlockSize
      <4> DEFINE j == i - 3
      <4>1. j \in 1..BlockSize /\ 3 + j = i
        BY <3>1, <3>3, <3>6
      <4>2. a[3 + j] = cd.disk[host.arg][j]
        BY <2>1, <4>1, BlockOnWire
      <4> QED BY <1>1, <3>4, <3>6, <4>1, <4>2
    <3>7. CASE i \notin {1, 2, 3} /\ ~(i <= 3 + BlockSize)
      <4>1. i \in (BlockSize + 4)..Len(a)
        BY <3>1, <3>2, <3>3, <3>7
      <4>2. a[i] = Idle
        BY <2>1, <4>1, BlockOnWire
      <4> QED BY <3>4, <3>7, <4>2
    <3> QED BY <3>5, <3>6, <3>7
  <2>4. a \in Seq(Int) /\ Len(a) = ReplySize /\ a[1] = ExpectedR1
    BY <2>1, <2>2, BlockOnWire
  <2> QED BY <2>3, <2>4
<1>2. CASE ~Reads /\ host.n = 8
  <2>1. a = <<1, 0, 0, 1, 170>>
    BY <1>2 DEF Answer
  <2>2. ExpectedR1 = 1 /\ ReplySize = 5
    BY <1>2, Numbers DEF ExpectedR1
  <2>4. a \in Seq(Int) /\ Len(a) = 5
    BY <2>1
  <2>5. a[1] = ExpectedR1
    BY <2>1, <2>2
  <2> QED BY <1>2, <2>2, <2>4, <2>5
<1>3. CASE ~Reads /\ host.n = 58
  <2>1. a = <<R1(cd), 192, 255, 128, 0>>
    BY <1>3 DEF Answer
  <2>2. ExpectedR1 = R1(cd) /\ ReplySize = 5
    BY <1>3, Numbers DEF ExpectedR1, R1
  <2>3. R1(cd) \in Int
    BY DEF R1
  <2>4. a \in Seq(Int) /\ Len(a) = 5
    BY <2>1, <2>3
  <2>5. a[1] = ExpectedR1
    BY <2>1, <2>2
  <2> QED BY <1>3, <2>2, <2>4, <2>5
<1>4. CASE ~Reads /\ host.n \notin {8, 58}
  <2>1. ReplySize = 1
    BY <1>4, Numbers
  <2>2. a = <<ExpectedR1>>
    <3>1. CASE host.n \in {0, 55}
      BY <3>1 DEF Answer, ExpectedR1, R1
    <3>2. CASE host.n = 41
      BY <3>2 DEF Answer, ExpectedR1
    <3>3. CASE host.n = 17
      BY <1>4, <3>3 DEF Answer, ExpectedR1, Reads
    <3>4. CASE host.n = 24
      BY <3>4 DEF Answer, ExpectedR1
    <3>5. CASE host.n \notin {0, 8, 55, 58, 41, 17, 24}
      BY <3>5 DEF Answer, ExpectedR1
    <3> QED BY <1>4, <3>1, <3>2, <3>3, <3>4, <3>5
  <2>3. ExpectedR1 \in Int
    BY Numbers
  <2> QED BY <1>4, <2>1, <2>2, <2>3
<1> QED BY <1>1, <1>2, <1>3, <1>4

\* Running the command of the transaction.
LEMMA Runs ==
    ASSUME SpiAssumption, SpiTypes, NEW cd \in CardState,
           cd.frame[1] = 64 + host.n, cd.frame[2] = host.arg, cd.out = <<>>, ~cd.writing,
           cd.app <=> host.app, cd.inits = host.inits, Reads => cd.disk[host.arg] = mirror[host.arg]
    PROVE  LET e == RunCmd(cd) IN
           /\ e \in CardState /\ e.frame = <<>> /\ (e.app <=> host.n = 55) /\ e.inits = InitsAfter
           /\ e.disk = cd.disk /\ (e.writing <=> Writes)
           /\ Writes => e.skip /\ e.wbuf = <<>> /\ e.wblock = host.arg
           /\ Len(e.out) = ReplySize /\ e.out[1] = ExpectedR1
           /\ Reads => \A i \in 1..Len(e.out) : e.out[i] = Reply[i]
<1> DEFINE a == Answer(cd, host.n, host.arg)
           e == RunCmd(cd)
           p == host.n = 55
           s == cd.skip \/ Writes
           k == IF Writes THEN host.arg ELSE cd.wblock
           u == Buffer(cd, Writes)
<1>1. cd.frame[1] - 64 = host.n
  BY Numbers
<1>2. e = [cd EXCEPT !.frame = <<>>, !.app = p, !.inits = InitsAfter, !.writing = Writes, !.wblock = k,
                     !.skip = s, !.wbuf = u, !.out = a]
  <2>1. cd.out \o a = a
    BY Answers
  <2>2. (IF host.n = 0 THEN 0 ELSE IF host.n = 41 /\ cd.app /\ cd.inits < 2 THEN cd.inits + 1 ELSE cd.inits)
        = InitsAfter
    BY DEF InitsAfter
  <2> DEFINE After(n, arg) ==
               [cd EXCEPT !.frame = <<>>, !.app = n = 55,
                 !.inits = IF n = 0 THEN 0 ELSE IF n = 41 /\ cd.app /\ @ < 2 THEN @ + 1 ELSE @,
                 !.writing = n = 24 /\ arg \in Block, !.wblock = IF n = 24 /\ arg \in Block THEN arg ELSE @,
                 !.skip = @ \/ (n = 24 /\ arg \in Block), !.wbuf = Buffer(cd, n = 24 /\ arg \in Block),
                 !.out = @ \o Answer(cd, n, arg)]
  <2>3. e = After(cd.frame[1] - 64, cd.frame[2])
    BY DEF RunCmd
  <2>4. After(cd.frame[1] - 64, cd.frame[2]) = After(host.n, host.arg)
    <3> HIDE DEF After
    <3> QED BY <1>1
  <2>5. After(host.n, host.arg) =
          [cd EXCEPT !.frame = <<>>, !.app = p,
               !.inits = IF host.n = 0 THEN 0 ELSE IF host.n = 41 /\ cd.app /\ @ < 2 THEN @ + 1 ELSE @,
               !.writing = Writes, !.wblock = IF Writes THEN host.arg ELSE @,
               !.skip = @ \/ Writes, !.wbuf = u, !.out = @ \o a]
    BY DEF Writes
  <2> HIDE DEF After
  <2> QED BY <2>1, <2>2, <2>3, <2>4, <2>5 DEF CardState
<1>3. p \in BOOLEAN /\ (p <=> host.n = 55) /\ Writes \in BOOLEAN
  BY DEF Writes
<1>4. s \in BOOLEAN /\ (Writes => s)
  BY <1>3 DEF CardState
<1>5. k \in Int /\ (Writes => k = host.arg)
  <2>1. host.arg \in Int
    BY DEF SpiTypes, HostState
  <2> QED BY <2>1 DEF CardState
<1>6. u \in Seq(Int) /\ (Writes => u = <<>>)
  BY DEF Buffer, CardState
<1>7. a \in Seq(Int) /\ Len(a) = ReplySize /\ a[1] = ExpectedR1
      /\ (Reads => \A i \in 1..Len(a) : a[i] = Reply[i])
  BY Answers
<1>8. InitsAfter \in Nat
  BY Numbers
<1> HIDE DEF a, e, p, s, k, u
<1>9. e \in CardState
  <2> DEFINE h == [cd EXCEPT !.frame = <<>>, !.app = p, !.inits = InitsAfter, !.writing = Writes]
  <2>1. h \in CardState
    BY <1>3, <1>8 DEF CardState
  <2>2. e = [h EXCEPT !.wblock = k, !.skip = s, !.wbuf = u, !.out = a]
    BY <1>2 DEF CardState
  <2> HIDE DEF h
  <2> QED BY <1>4, <1>5, <1>6, <1>7, <2>1, <2>2 DEF CardState
<1>10. e.frame = <<>> /\ e.app = p /\ e.inits = InitsAfter /\ e.writing = Writes /\ e.wblock = k
       /\ e.skip = s /\ e.wbuf = u /\ e.out = a /\ e.disk = cd.disk
  BY <1>2 DEF CardState
<1>11. Writes => e.skip /\ e.wbuf = <<>> /\ e.wblock = host.arg
  BY <1>4, <1>5, <1>6, <1>10
<1>12. e.app <=> host.n = 55
  BY <1>3, <1>10
<1>13. e.writing <=> Writes
  BY <1>3, <1>10
<1> QED BY <1>7, <1>9, <1>10, <1>11, <1>12, <1>13 DEF e

-----------------------------------------------------------------------------
(* The first state, and what is done beside the driver.                      *)

\* It holds in the first state.
LEMMA SpiFirst == ASSUME SpiAssumption, Init PROVE SpiInv
<1>1. \A b \in Block : Blank(b) \in Content
  <2> TAKE b \in Block
  <2>1. b % 2 \in Int
    BY DEF SpiAssumption
  <2> QED BY <2>1 DEF Blank, Content
<1>2. mirror \in [Block -> Content] /\ card.disk \in [Block -> Content] /\ card.disk = mirror
  BY <1>1 DEF Init
<1>3. spi \in [Channel -> SpiUnit]
  <2>1. Off \in SpiUnit
    BY DEF Off, SpiUnit, None
  <2> QED BY <2>1 DEF Init
<1>4. /\ card.frame = <<>> /\ card.out = <<>> /\ card.app = FALSE /\ card.inits = 0 /\ card.writing = FALSE
      /\ card \in CardState
  BY <1>2 DEF Init, CardState
<1>5. host \in HostState /\ host.phase = "idle" /\ host.sent = FALSE /\ host.app = FALSE /\ host.inits = 0 /\ host.n = 0
  BY DEF Init, NoCommand, HostState, Phase
<1>6. SpiTypes
  BY <1>2, <1>3, <1>4, <1>5 DEF SpiTypes
<1>7. HostInv
  BY <1>5 DEF HostInv, Writes
<1>8. PhaseInv
  BY <1>4, <1>5 DEF PhaseInv, AtIdle, Waits
<1>9. DiskInv /\ EndsWell
  BY <1>2 DEF DiskInv, EndsWell, Init
<1> QED BY <1>6, <1>7, <1>8, <1>9 DEF SpiInv

\* While a transaction runs, the invariant goes only by what the driver's channel has received.
LEMMA Beside ==
    ASSUME SpiInv, UNCHANGED <<card, host, mirror, ended>>, spi' \in [Channel -> SpiUnit],
           host.phase # "idle" => /\ Host \in armed' /\ spi'[Host].mstr
                                  /\ spi'[Host].sprf = spi[Host].sprf /\ spi'[Host].rdr = spi[Host].rdr
    PROVE  SpiInv'
<1>1. Same
  BY DEF Same
<1>2. /\ Writes' = Writes /\ Reads' = Reads /\ ReplySize' = ReplySize /\ Reply' = Reply
      /\ InitsAfter' = InitsAfter /\ FrameBytes' = FrameBytes /\ ExpectedR1' = ExpectedR1
  BY <1>1, SameReply DEF ExpectedR1
<1>3. Bytes' = Bytes /\ Given' = Given /\ Queued' = Queued /\ WriteBytes' = WriteBytes /\ Waits' = Waits
  BY <1>2 DEF Bytes, Given, Queued, WriteBytes, Waits
<1>4. Ran' = Ran /\ Opened' = Opened /\ Collecting' = Collecting /\ Collected' = Collected /\ Stored' = Stored
  BY <1>2, <1>3 DEF Ran, Opened, Collecting, Collected, Stored
<1>5. SpiTypes'
  BY DEF SpiInv, SpiTypes
<1>6. HostInv'
  BY <1>2 DEF SpiInv, HostInv, Owned
<1>7. DiskInv' /\ EndsWell'
  BY <1>4 DEF SpiInv, DiskInv, EndsWell
<1>8. PhaseInv'
  <2>1. host.phase # "idle" => Read' = Read
    BY <1>2, <1>3 DEF Read
  <2>2. host.phase # "idle" =>
          /\ AtFrame' = AtFrame /\ AtR1' = AtR1 /\ AtStart' = AtStart /\ AtToken' = AtToken
          /\ AtRead' = AtRead /\ AtWrite' = AtWrite
    BY <1>2, <1>3, <1>4, <2>1 DEF AtFrame, AtR1, AtStart, AtToken, AtRead, AtWrite, TailSize
  <2>3. host.phase # "idle" => AtAccept' = AtAccept
    BY <1>2, <1>4 DEF AtAccept
  <2>4. AtIdle' = AtIdle
    BY <1>3 DEF AtIdle
  <2> QED BY <2>2, <2>3, <2>4 DEF SpiInv, PhaseInv
<1> QED BY <1>5, <1>6, <1>7, <1>8 DEF SpiInv

\* A byte sampled.
LEMMA SampledUnit ==
    ASSUME NEW u \in SpiUnit, NEW byte \in Int
    PROVE  /\ Sampled(u, byte) \in SpiUnit /\ Clocked(u, byte) \in SpiUnit
           /\ Sampled(u, byte).mstr = u.mstr /\ Sampled(u, byte).sprf
           /\ ~u.sprf => Sampled(u, byte).rdr = byte
<1> DEFINE v == Sampled(u, byte)
<1>1. v \in SpiUnit /\ v.mstr = u.mstr /\ v.sprf /\ (~u.sprf => v.rdr = byte)
  <2>1. CASE u.sprf
    BY <2>1 DEF Sampled, SpiUnit
  <2>2. CASE ~u.sprf
    BY <2>2 DEF Sampled, SpiUnit
  <2> QED BY <2>1, <2>2
<1>2. None \in Int
  BY DEF None
<1>3. Clocked(u, byte) = [v EXCEPT !.staged = None]
  BY DEF Clocked
<1> HIDE DEF v
<1>4. Clocked(u, byte) \in SpiUnit
  BY <1>1, <1>2, <1>3 DEF SpiUnit
<1> QED BY <1>1, <1>4 DEF v

\* Nothing done beside the driver, by firmware, the page or a part, disturbs it.
LEMMA BesideDriver ==
    ASSUME SpiAssumption, Polite, SpiInv, NEW c \in Channel,
           \/ \E spe, mstr \in BOOLEAN : WriteSpcr(c, spe, mstr)
           \/ ReadSpdr(c)
           \/ \E b \in DataByte : Transfer(c, b) \/ Stage(c, b) \/ ComponentExchange(c, b)
           \/ \E on \in BOOLEAN : SetSdCard(c, on) \/ SetLoopback(c, on)
    PROVE  SpiInv'
<1>1. /\ spi \in [Channel -> SpiUnit] /\ Host \in Channel /\ spi[Host] \in SpiUnit /\ spi[c] \in SpiUnit
      /\ DataByte \subseteq Int
      /\ host.phase # "idle" => Host \in armed /\ spi[Host].mstr /\ (spi[Host].sprf <=> host.sent)
  BY DEF SpiInv, SpiTypes, HostInv, Owned, SpiAssumption
<1>2. ASSUME NEW spe \in BOOLEAN, NEW mstr \in BOOLEAN, WriteSpcr(c, spe, mstr)
      PROVE  SpiInv'
  <2>1. spi' \in [Channel -> SpiUnit] /\ UNCHANGED <<armed, card, host, mirror, ended>>
    BY <1>1, <1>2 DEF WriteSpcr, SpiUnit
  <2>2. CASE host.phase = "idle"
    BY <2>1, <2>2, Beside
  <2>3. CASE host.phase # "idle"
    <3>1. c # Host
      BY <1>2, <2>3 DEF WriteSpcr, NoCommand
    <3>2. spi'[Host] = spi[Host]
      BY <1>1, <1>2, <3>1 DEF WriteSpcr
    <3> QED BY <1>1, <2>1, <3>2, Beside
  <2> QED BY <2>2, <2>3
<1>3. ASSUME ReadSpdr(c) PROVE SpiInv'
  <2>1. Drained(spi[c]) \in SpiUnit
    BY <1>1 DEF Drained, SpiUnit
  <2>2. spi' = [spi EXCEPT ![c] = Drained(spi[c])] /\ UNCHANGED <<armed, card, host, mirror, ended>>
    BY <1>1, <1>3 DEF ReadSpdr
  <2>3. spi' \in [Channel -> SpiUnit]
    BY <1>1, <2>1, <2>2
  <2>4. host.phase # "idle" => c # Host
    BY <1>1, <1>3 DEF ReadSpdr
  <2>5. c # Host => spi'[Host] = spi[Host]
    BY <1>1, <2>2
  <2> QED BY <1>1, <2>2, <2>3, <2>4, <2>5, Beside
<1>4. ASSUME NEW b \in DataByte, Transfer(c, b) PROVE SpiInv'
  <2>1. /\ spi' = [d \in Channel |->
                     IF d = c THEN Sampled(spi[c], Miso(c, b))
                     ELSE IF c \notin armed /\ d \in Slaves(c) THEN Clocked(spi[d], b) ELSE spi[d]]
        /\ c \notin armed /\ UNCHANGED <<armed, card, host, mirror, ended>>
    BY <1>4 DEF Transfer, Shift
  <2>2. Miso(c, b) \in Int /\ b \in Int
    <3>1. \A d \in Channel : ShiftsOut(spi[d]) \in Int
      BY <1>1 DEF ShiftsOut, Idle, SpiUnit
    <3>2. Loops(c, b) \in Int
      BY <1>1 DEF Loops, Idle
    <3>3. CASE Slaves(c) # {}
      <4>1. \A S : S # {} => (CHOOSE x \in S : TRUE) \in S
        OBVIOUS
      <4>2. (CHOOSE x \in Slaves(c) : TRUE) \in Channel
        BY <3>3, <4>1 DEF Slaves
      <4> QED BY <1>1, <2>1, <3>1, <3>3, <4>2 DEF Miso
    <3>4. CASE Slaves(c) = {}
      BY <1>1, <2>1, <3>2, <3>4 DEF Miso
    <3> QED BY <1>1, <3>3, <3>4
  <2>3. spi' \in [Channel -> SpiUnit]
    <3>1. Sampled(spi[c], Miso(c, b)) \in SpiUnit
      BY <1>1, <2>2, SampledUnit
    <3>2. \A d \in Channel : spi[d] \in SpiUnit /\ Clocked(spi[d], b) \in SpiUnit
      BY <1>1, <2>2, SampledUnit
    <3> QED BY <2>1, <3>1, <3>2
  <2>4. host.phase # "idle" => spi'[Host] = spi[Host]
    <3> SUFFICES ASSUME host.phase # "idle" PROVE spi'[Host] = spi[Host]
      OBVIOUS
    <3>1. Host # c /\ Host \notin Slaves(c)
      BY <1>1, <2>1 DEF Slaves, IsSlave
    <3> QED BY <1>1, <2>1, <3>1
  <2> QED BY <1>1, <2>1, <2>3, <2>4, Beside
<1>5. ASSUME NEW b \in DataByte, Stage(c, b) PROVE SpiInv'
  <2>1. spi' \in [Channel -> SpiUnit] /\ UNCHANGED <<armed, card, host, mirror, ended>>
    BY <1>1, <1>5 DEF Stage, SpiUnit
  <2>2. host.phase # "idle" => spi'[Host] = spi[Host]
    BY <1>1, <1>5 DEF Stage
  <2> QED BY <1>1, <2>1, <2>2, Beside
<1>6. ASSUME NEW b \in DataByte, ComponentExchange(c, b) PROVE SpiInv'
  <2>1. /\ spi' = [spi EXCEPT ![c] = IF spi[c].mstr THEN spi[c] ELSE Clocked(spi[c], b)]
        /\ UNCHANGED <<armed, card, host, mirror, ended>>
    BY <1>1, <1>6 DEF ComponentExchange
  <2>2. Clocked(spi[c], b) \in SpiUnit
    BY <1>1, SampledUnit
  <2>3. spi' \in [Channel -> SpiUnit]
    BY <1>1, <2>1, <2>2
  <2>4. host.phase # "idle" => spi'[Host] = spi[Host]
    BY <1>1, <2>1
  <2> QED BY <1>1, <2>1, <2>3, <2>4, Beside
<1>7. ASSUME NEW on \in BOOLEAN, SetSdCard(c, on) PROVE SpiInv'
  <2>1. host.phase = "idle" /\ UNCHANGED <<spi, card, host, mirror, ended>>
    BY <1>7 DEF SetSdCard, Polite
  <2> QED BY <1>1, <2>1, Beside
<1>8. ASSUME NEW on \in BOOLEAN, SetLoopback(c, on) PROVE SpiInv'
  <2>1. UNCHANGED <<spi, armed, card, host, mirror, ended>>
    BY <1>8 DEF SetLoopback
  <2> QED BY <1>1, <2>1, Beside
<1> QED BY <1>2, <1>3, <1>4, <1>5, <1>6, <1>7, <1>8

-----------------------------------------------------------------------------
(* The driver begins a transaction.                                          *)

\* The card is between frames and waits for one.
LEMMA BeginKeeps ==
    ASSUME SpiAssumption, Polite, SpiInv, NEW n \in Command, NEW arg \in Argument,
           NEW data \in [1..BlockSize -> DataByte], Begin(n, arg, data)
    PROVE  SpiInv'
<1>1. /\ host.phase = "idle" /\ ~host.sent /\ Host \in armed /\ spi[Host].mstr /\ ~spi[Host].sprf
      /\ UNCHANGED <<spi, armed, loop, card, mirror, ended>>
  BY DEF Begin, Polite
<1>2. n \in 0..63 /\ arg \in Nat /\ data \in Content
  BY DEF SpiAssumption, Content
<1>3. /\ host' \in HostState /\ host'.phase = "frame" /\ host'.n = n /\ host'.arg = arg /\ host'.pos = 0
      /\ host'.got = <<>> /\ host'.data = data /\ host'.sent = FALSE
      /\ host'.app = host.app /\ host'.inits = host.inits
  <2> DEFINE f == "frame"  z == 0  q == <<>>
             h == [host EXCEPT !.phase = f, !.n = n, !.arg = arg]
             k == [h EXCEPT !.data = data, !.pos = z]
  <2>1. host \in HostState /\ data \in Seq(Int)
    BY <1>2, ContentIsSeq DEF SpiInv, SpiTypes
  <2>2. f \in Phase /\ n \in Int /\ arg \in Int /\ z \in Nat /\ q \in Seq(Int)
    BY <1>2 DEF Phase
  <2>3. host' = [k EXCEPT !.got = q]
    BY <2>1 DEF Begin, HostState
  <2> HIDE DEF f, z, q
  <2>4. h \in HostState /\ h.phase = f /\ h.n = n /\ h.arg = arg /\ h.sent = host.sent
        /\ h.app = host.app /\ h.inits = host.inits
    BY <2>1, <2>2 DEF HostState
  <2> HIDE DEF h
  <2>5. k \in HostState /\ k.phase = f /\ k.n = n /\ k.arg = arg /\ k.sent = host.sent
        /\ k.app = host.app /\ k.inits = host.inits /\ k.data = data /\ k.pos = z
    BY <2>1, <2>2, <2>4 DEF HostState
  <2> HIDE DEF k
  <2>6. host' \in HostState /\ host'.phase = f /\ host'.n = n /\ host'.arg = arg /\ host'.sent = host.sent
        /\ host'.app = host.app /\ host'.inits = host.inits /\ host'.data = data /\ host'.pos = z
        /\ host'.got = q
    BY <2>2, <2>3, <2>5 DEF HostState
  <2>7. host.sent = FALSE
    BY <1>1, <2>1 DEF HostState
  <2> QED BY <2>6, <2>7 DEF f, z, q
<1>4. SpiTypes' /\ EndsWell'
  BY <1>1, <1>3 DEF SpiInv, SpiTypes, EndsWell
<1>5. HostInv'
  BY <1>1, <1>2, <1>3 DEF HostInv, Owned
<1>6. AtFrame'
  <2>1. Waits /\ card.frame = <<>>
    BY <1>1 DEF SpiInv, PhaseInv, AtIdle
  <2>2. Waits'
    BY <1>1, <1>3, <2>1 DEF Waits
  <2>3. Bytes' = 0
    BY <1>3 DEF Bytes
  <2> QED BY <1>1, <1>3, <2>1, <2>2, <2>3 DEF AtFrame
<1>7. PhaseInv'
  BY <1>3, <1>6 DEF PhaseInv
<1>8. DiskInv'
  BY <1>1 DEF SpiInv, DiskInv, Stored
<1> QED BY <1>4, <1>5, <1>7, <1>8 DEF SpiInv

-----------------------------------------------------------------------------
(* A byte out: the card takes it and gives one back.                         *)

\* What a send does to the driver and to its channel, whatever the card makes of the byte.
LEMMA SendEffect ==
    ASSUME SpiAssumption, SpiInv, Send, Exchange(card, Sends)[2] \in Int
    PROVE  /\ host.phase # "idle" /\ ~host.sent /\ Bytes = host.pos
           /\ card' = Exchange(card, Sends)[1]
           /\ spi' \in [Channel -> SpiUnit] /\ Host \in armed'
           /\ spi'[Host].mstr /\ spi'[Host].sprf /\ spi'[Host].rdr = Exchange(card, Sends)[2]
           /\ host' \in HostState /\ host' = [host EXCEPT !.sent = TRUE] /\ host'.sent
           /\ host'.phase = host.phase /\ host'.pos = host.pos /\ host'.got = host.got
           /\ host'.data = host.data /\ Bytes' = host.pos + 1
           /\ Same /\ UNCHANGED <<mirror, ended>>
<1> DEFINE m == Exchange(card, Sends)[2]
<1>1. host.phase # "idle" /\ ~host.sent /\ Shift(Host, Sends) /\ host' = [host EXCEPT !.sent = TRUE]
      /\ UNCHANGED <<mirror, ended>>
  BY DEF Send
<1>2. /\ spi \in [Channel -> SpiUnit] /\ host \in HostState /\ Host \in Channel
      /\ Host \in armed /\ spi[Host].mstr /\ ~spi[Host].sprf
  BY <1>1 DEF SpiInv, SpiTypes, HostInv, Owned, SpiAssumption
<1>3. Miso(Host, Sends) = m
  BY <1>2 DEF Miso
<1>4. /\ card' = Exchange(card, Sends)[1] /\ armed' = armed
      /\ spi' = [d \in Channel |-> IF d = Host THEN Sampled(spi[Host], m) ELSE spi[d]]
  BY <1>1, <1>2, <1>3 DEF Shift
<1> HIDE DEF m
<1>5. m \in Int
  BY DEF m
<1>6. /\ Sampled(spi[Host], m) \in SpiUnit /\ Sampled(spi[Host], m).mstr /\ Sampled(spi[Host], m).sprf
      /\ Sampled(spi[Host], m).rdr = m
  BY <1>2, <1>5, SampledUnit
<1>7. spi' \in [Channel -> SpiUnit] /\ spi'[Host] = Sampled(spi[Host], m)
  BY <1>2, <1>4, <1>6
<1>8. /\ host' \in HostState /\ host'.sent
      /\ host'.phase = host.phase /\ host'.pos = host.pos /\ host'.got = host.got /\ host'.data = host.data
      /\ host'.n = host.n /\ host'.arg = host.arg /\ host'.app = host.app /\ host'.inits = host.inits
  BY <1>1, <1>2 DEF HostState
<1>9. Bytes = host.pos /\ Bytes' = host.pos + 1
  BY <1>1, <1>8 DEF Bytes
<1> QED BY <1>1, <1>2, <1>4, <1>6, <1>7, <1>8, <1>9 DEF m, Same

\* The next byte of an answer.
LEMMA Hears ==
    ASSUME SpiAssumption, SpiTypes, Same, Queued, card.out # <<>>,
           card'.out = Tail(card.out), spi'[Host].rdr = Head(card.out)
    PROVE  Given' = Given + 1 /\ Queued' /\ Read'
<1> DEFINE s == card.out  t == Tail(card.out)  g == Given
<1>1. /\ Reads' = Reads /\ ReplySize' = ReplySize /\ Reply' = Reply
  BY SameReply
<1>2. s \in Seq(Int)
  BY DEF SpiTypes, CardState
<1>3. /\ Len(s) \in Nat \ {0} /\ Len(t) = Len(s) - 1 /\ Head(s) = s[1]
      /\ \A i \in 1..(Len(s) - 1) : t[i] = s[i + 1]
  BY <1>2, Popped
<1>4. g \in Int /\ ReplySize \in Int
  BY Numbers
<1>5. g >= 0 /\ \A i \in 1..Len(s) : g + i = 1 \/ Reads => s[i] = Reply[g + i]
  BY DEF Queued
<1>6. g = ReplySize - Len(s) /\ Given' = ReplySize - Len(t)
  BY <1>1 DEF Given
<1> HIDE DEF s, t, g
<1>7. Given' = g + 1
  BY <1>3, <1>4, <1>6
<1>8. ASSUME NEW i \in 1..Len(t), g + 1 + i = 1 \/ Reads
      PROVE  t[i] = Reply[g + 1 + i]
  <2>1. i + 1 \in 1..Len(s) /\ i \in 1..(Len(s) - 1) /\ g + (i + 1) = g + 1 + i
    BY <1>3, <1>4
  <2>2. t[i] = s[i + 1]
    BY <1>3, <2>1
  <2> QED BY <1>5, <1>8, <2>1, <2>2
<1>9. Queued'
  <2>1. \A i \in 1..Len(t) : g + 1 + i = 1 \/ Reads => t[i] = Reply[g + 1 + i]
    BY <1>8
  <2> DEFINE h == g + 1
  <2>2. h >= 0
    BY <1>4, <1>5
  <2>3. \A i \in 1..Len(t) : h + i = 1 \/ Reads => t[i] = Reply[h + i]
    BY <2>1
  <2>4. card'.out = t /\ Given' = h
    BY <1>7 DEF t
  <2> HIDE DEF h
  <2> QED BY <1>1, <2>2, <2>3, <2>4 DEF Queued
<1>10. Read'
  <2>1. g + 1 = 1 \/ Reads => s[1] = Reply[g + 1]
    BY <1>3, <1>5
  <2> QED BY <1>1, <1>3, <1>7, <2>1 DEF Read, s
<1> QED BY <1>7, <1>9, <1>10 DEF g

\* What a send has to establish, given what it does to the card.
LEMMA SendAims ==
    ASSUME SpiAssumption, SpiInv, Send, Exchange(card, Sends)[2] \in Int,
           Exchange(card, Sends)[1] \in CardState, PhaseInv', DiskInv'
    PROVE  SpiInv'
<1>1. Writes' = Writes
  BY SendEffect, SameReply
<1>2. /\ spi' \in [Channel -> SpiUnit] /\ host' \in HostState /\ card' \in CardState
      /\ mirror' = mirror /\ ended' = ended
      /\ host'.data = host.data /\ host'.n = host.n /\ host'.phase = host.phase /\ host'.got = host.got
      /\ Host \in armed' /\ spi'[Host].mstr /\ spi'[Host].sprf /\ host'.sent
  BY SendEffect DEF Same
<1>3. SpiTypes' /\ EndsWell'
  BY <1>2 DEF SpiInv, SpiTypes, EndsWell
<1>4. HostInv'
  BY <1>1, <1>2 DEF SpiInv, HostInv, Owned
<1> QED BY <1>3, <1>4 DEF SpiInv

\* Between frames and before a token the card only gives its next byte.
LEMMA SendHears ==
    ASSUME SpiAssumption, SpiInv, Send, Ran, card.writing => card.skip, card.out # <<>>, Sends = Idle
    PROVE  /\ Exchange(card, Sends)[1] \in CardState /\ Exchange(card, Sends)[2] \in Int
           /\ Ran' /\ Given' = Given + 1 /\ Read'
           /\ card'.disk = card.disk /\ card'.writing = card.writing /\ card'.wblock = card.wblock
           /\ card'.skip = card.skip /\ card'.wbuf = card.wbuf
<1>1. card \in CardState /\ SpiTypes
  BY DEF SpiInv, SpiTypes
<1>2. Exchange(card, Sends) = Emit(card)
  BY <1>1, IdleEmits DEF Ran
<1>3. /\ Emit(card)[1] \in CardState /\ Emit(card)[2] = Head(card.out) /\ Emit(card)[1].out = Tail(card.out)
      /\ Emit(card)[2] \in Int
  BY <1>1, Emitted
<1>4. /\ card' = Emit(card)[1] /\ spi'[Host].rdr = Head(card.out) /\ Same
      /\ host'.phase = host.phase
  BY <1>2, <1>3, SendEffect
<1>5. /\ card'.frame = <<>> /\ card'.app = card.app /\ card'.inits = card.inits
      /\ card'.disk = card.disk /\ card'.writing = card.writing /\ card'.wblock = card.wblock
      /\ card'.skip = card.skip /\ card'.wbuf = card.wbuf /\ card'.out = Tail(card.out)
  BY <1>1, <1>4, Emitted DEF Ran
<1>6. Queued' /\ Given' = Given + 1 /\ Read'
  BY <1>1, <1>4, <1>5, Hears DEF Ran
<1>7. Ran'
  BY <1>4, <1>5, <1>6, SameReply DEF Ran, Same
<1> QED BY <1>2, <1>3, <1>5, <1>6, <1>7

\* A byte of the frame that is not its last.
LEMMA SendFrame ==
    ASSUME SpiAssumption, SpiInv, Send, host.phase = "frame", host.pos < 2
    PROVE  SpiInv'
<1> DEFINE x == FrameBytes[host.pos + 1]
           f == Append(card.frame, x)
           e == [card EXCEPT !.frame = f]
<1>1. card \in CardState /\ SpiTypes /\ host \in HostState /\ ~host.sent /\ host.pos \in {0, 1}
      /\ Host \in Channel
  BY DEF Send, SpiInv, SpiTypes, HostState, SpiAssumption
<1>2. Bytes = host.pos
  BY <1>1 DEF Bytes
<1>3. /\ Waits /\ Len(card.frame) = host.pos /\ \A i \in 1..host.pos : card.frame[i] = FrameBytes[i]
      /\ card.frame \in Seq(Int)
  BY <1>1, <1>2 DEF SpiInv, PhaseInv, AtFrame, CardState
<1>4. host.n \in 0..63 /\ host.arg \in Int
  BY <1>1 DEF SpiInv, HostInv, HostState
<1>5. x \in Int /\ (host.pos = 0 => x \in 64..127)
  BY <1>1, <1>4 DEF FrameBytes
<1>6. Sends = x
  BY DEF Sends, FrameBytes
<1>7. Exchange(card, Sends) = <<e, Idle>>
  <2>1. Len(card.frame) < 2 /\ (card.frame = <<>> => host.pos = 0)
    BY <1>1, <1>3
  <2> HIDE DEF x
  <2> QED BY <1>1, <1>3, <1>5, <1>6, <2>1, FrameGrows DEF Waits
<1>8. /\ f \in Seq(Int) /\ Len(f) = host.pos + 1
      /\ \A i \in 1..(host.pos + 1) : f[i] = FrameBytes[i]
  <2>1. /\ f \in Seq(Int) /\ Len(f) = Len(card.frame) + 1 /\ f[Len(card.frame) + 1] = x
        /\ \A i \in 1..Len(card.frame) : f[i] = card.frame[i]
    BY <1>3, <1>5, Appended
  <2> HIDE DEF f, x
  <2>2. \A i \in 1..(host.pos + 1) : i \in 1..host.pos \/ i = host.pos + 1
    BY <1>1
  <2>3. f[host.pos + 1] = x
    BY <1>3, <2>1
  <2>4. \A i \in 1..(host.pos + 1) : f[i] = FrameBytes[i]
    BY <1>3, <2>1, <2>2, <2>3 DEF x
  <2> QED BY <1>3, <2>1, <2>4
<1> HIDE DEF x, f
<1>9. e \in CardState /\ e.frame = f /\ e.out = card.out /\ e.writing = card.writing
      /\ e.app = card.app /\ e.inits = card.inits /\ e.disk = card.disk
  BY <1>1, <1>8 DEF CardState
<1> HIDE DEF e
<1>10. Exchange(card, Sends)[2] \in Int /\ Exchange(card, Sends)[1] = e
  BY <1>7 DEF Idle
<1>11. /\ card' = e /\ Same /\ host'.phase = "frame" /\ host'.pos = host.pos /\ Bytes' = host.pos + 1
  BY <1>10, SendEffect
<1>12. AtFrame'
  <2>1. Waits'
    BY <1>3, <1>9, <1>11 DEF Waits, Same
  <2>2. FrameBytes' = FrameBytes
    BY <1>11, SameReply
  <2>3. Len(card'.frame) = Bytes' /\ \A i \in 1..Bytes' : card'.frame[i] = FrameBytes'[i]
    BY <1>8, <1>9, <1>11, <2>2
  <2> QED BY <1>1, <1>11, <2>1, <2>3 DEF AtFrame
<1>13. PhaseInv'
  BY <1>11, <1>12 DEF PhaseInv
<1>14. DiskInv'
  BY <1>9, <1>11 DEF SpiInv, DiskInv, Stored, Same
<1> QED BY <1>9, <1>10, <1>13, <1>14, SendAims

\* The last byte of the frame: the card runs the command.
LEMMA SendCommand ==
    ASSUME SpiAssumption, SpiInv, Send, host.phase = "frame", ~(host.pos < 2)
    PROVE  SpiInv'
<1> DEFINE f == Append(card.frame, 1)
           cd == [card EXCEPT !.frame = f]
           e == RunCmd(cd)
<1>1. card \in CardState /\ SpiTypes /\ host \in HostState /\ ~host.sent /\ host.pos = 2
  BY DEF Send, SpiInv, SpiTypes, HostState, PhaseInv, AtFrame
<1>2. Bytes = 2
  BY <1>1 DEF Bytes
<1>3. /\ Waits /\ Len(card.frame) = 2 /\ card.frame[1] = 64 + host.n /\ card.frame[2] = host.arg
      /\ card.frame \in Seq(Int)
  BY <1>1, <1>2 DEF SpiInv, PhaseInv, AtFrame, FrameBytes, CardState
<1>4. Sends = 1
  BY <1>1 DEF Sends
<1>5. Exchange(card, Sends) = <<e, Idle>>
  <2>1. 1 \in Int /\ ~card.writing
    BY <1>3 DEF Waits
  <2>2. Exchange(card, 1) = <<RunCmd([card EXCEPT !.frame = Append(card.frame, 1)]), Idle>>
    BY <1>1, <1>3, <2>1, FrameEnds
  <2> QED BY <1>4, <2>2
<1>6. f \in Seq(Int) /\ f[1] = 64 + host.n /\ f[2] = host.arg
  <2>1. f \in Seq(Int) /\ \A i \in 1..Len(card.frame) : f[i] = card.frame[i]
    BY <1>3, Appended
  <2> HIDE DEF f
  <2> QED BY <1>3, <2>1
<1> HIDE DEF f
<1>7. cd \in CardState /\ cd.frame = f /\ cd.out = card.out /\ cd.writing = card.writing
      /\ cd.app = card.app /\ cd.inits = card.inits /\ cd.disk = card.disk
  BY <1>1, <1>6 DEF CardState
<1> HIDE DEF cd
<1>8. card.disk[host.arg] = mirror[host.arg] \/ ~Reads
  BY DEF SpiInv, DiskInv, Stored, Reads
<1>9. /\ e \in CardState /\ e.frame = <<>> /\ (e.app <=> host.n = 55) /\ e.inits = InitsAfter
      /\ e.disk = cd.disk /\ (e.writing <=> Writes)
      /\ Writes => e.skip /\ e.wbuf = <<>> /\ e.wblock = host.arg
      /\ Len(e.out) = ReplySize /\ e.out[1] = ExpectedR1
      /\ Reads => \A i \in 1..Len(e.out) : e.out[i] = Reply[i]
  <2>1. cd.app = host.app /\ cd.inits = host.inits /\ cd.out = <<>> /\ ~cd.writing
    BY <1>3, <1>7 DEF Waits
  <2> QED BY <1>1, <1>6, <1>7, <1>8, <2>1, Runs
<1> HIDE DEF e
<1>10. Exchange(card, Sends)[2] \in Int /\ Exchange(card, Sends)[1] = e
  BY <1>5 DEF Idle
<1>11. /\ card' = e /\ Same /\ host'.phase = "frame" /\ host'.pos = 2 /\ Bytes' = 3
  BY <1>1, <1>10, SendEffect
<1>12. /\ Writes' = Writes /\ Reads' = Reads /\ ReplySize' = ReplySize /\ Reply' = Reply
       /\ InitsAfter' = InitsAfter
  BY <1>11, SameReply
<1>13. Given' = 0
  BY <1>1, <1>9, <1>11, <1>12, Numbers DEF Given
<1>14. Queued'
  <2>1. Reply[1] = ExpectedR1
    BY DEF Reply
  <2>2. \A i \in 1..Len(e.out) : 0 + i = i
    BY <1>1, <1>9, Numbers
  <2>3. \A i \in 1..Len(e.out) : 0 + i = 1 \/ Reads => e.out[i] = Reply[0 + i]
    BY <1>9, <2>1, <2>2
  <2> QED BY <1>11, <1>12, <1>13, <2>3 DEF Queued
<1>15. Ran' /\ Opened'
  BY <1>9, <1>11, <1>12, <1>14 DEF Ran, Opened, Same
<1>16. AtFrame'
  BY <1>11, <1>13, <1>15 DEF AtFrame
<1>17. PhaseInv'
  BY <1>11, <1>16 DEF PhaseInv
<1>18. DiskInv'
  BY <1>7, <1>9, <1>11 DEF SpiInv, DiskInv, Stored, Same
<1> QED BY <1>9, <1>10, <1>17, <1>18, SendAims

\* Polling for R1, for the token and through the bytes of a read.
LEMMA SendPoll ==
    ASSUME SpiAssumption, SpiInv, Send,
           host.phase \in {"r1", "token"} \/ (host.phase = "data" /\ host.n # 24)
    PROVE  SpiInv'
<1>1. SpiTypes /\ ~host.sent /\ Bytes = host.pos
  BY DEF Send, SpiInv, Bytes
<1>2. Sends = Idle
  BY DEF Sends
<1>3. AtR1 \/ AtToken \/ AtRead
  BY DEF SpiInv, PhaseInv
<1>4. Ran /\ (card.writing => card.skip)
  <2>1. CASE AtR1
    BY <2>1 DEF AtR1, Opened
  <2>2. CASE AtToken
    BY <2>2 DEF AtToken
  <2>3. CASE AtRead
    BY <2>3 DEF AtRead
  <2> QED BY <1>3, <2>1, <2>2, <2>3
<1>5. card.out # <<>>
  <2>1. /\ BlockSize \in Nat \ {0} /\ CrcSize \in Nat /\ host.pos \in Nat /\ Len(card.out) \in Nat
        /\ ReplySize \in Nat /\ ReplySize >= 1
        /\ (Reads => ReplySize = 3 + BlockSize + CrcSize)
        /\ (host.n \in {8, 58} => ReplySize = 5)
    BY <1>1, Numbers
  <2>2. Given < ReplySize
    <3>1. CASE AtR1
      BY <1>1, <2>1, <3>1 DEF AtR1
    <3>2. CASE AtToken
      BY <1>1, <2>1, <3>2 DEF AtToken
    <3>3. CASE AtRead
      <4>1. CASE Reads
        <5>1. host.pos < BlockSize + CrcSize /\ Given = host.pos + 3
          BY <1>1, <3>3, <4>1 DEF AtRead, TailSize, Reads
        <5> QED BY <2>1, <4>1, <5>1
      <4>2. CASE ~Reads
        <5>1. host.n \in {8, 58} /\ host.pos < 4 /\ Given = host.pos + 1
          BY <1>1, <3>3, <4>2 DEF AtRead, TailSize
        <5> QED BY <2>1, <5>1
      <4> QED BY <4>1, <4>2
    <3> QED BY <1>3, <3>1, <3>2, <3>3
  <2>3. Len(card.out) # 0
    BY <2>1, <2>2 DEF Given
  <2> QED BY <2>3
<1>6. /\ Exchange(card, Sends)[1] \in CardState /\ Exchange(card, Sends)[2] \in Int
      /\ Ran' /\ Given' = Given + 1 /\ Read'
      /\ card'.disk = card.disk /\ card'.writing = card.writing /\ card'.wblock = card.wblock
      /\ card'.skip = card.skip /\ card'.wbuf = card.wbuf
  BY <1>2, <1>4, <1>5, SendHears
<1>7. /\ host'.phase = host.phase /\ host'.pos = host.pos /\ host'.got = host.got /\ host'.sent
      /\ Bytes' = host.pos + 1 /\ Same
  BY <1>6, SendEffect
<1>8. Writes' = Writes /\ Reads' = Reads /\ Reply' = Reply /\ host'.n = host.n /\ host'.arg = host.arg
  BY <1>7, SameReply DEF Same
<1>9. Given \in Int /\ host.pos \in Int
  BY <1>1, Numbers
<1>10. PhaseInv'
  <2>1. CASE host.phase = "r1"
    <3>1. AtR1
      BY <2>1 DEF SpiInv, PhaseInv
    <3>2. Opened'
      BY <1>6, <1>8, <3>1 DEF AtR1, Opened
    <3>3. AtR1'
      BY <1>1, <1>6, <1>7, <1>9, <3>1, <3>2 DEF AtR1
    <3> QED BY <1>7, <2>1, <3>3 DEF PhaseInv
  <2>2. CASE host.phase = "token"
    <3>1. AtToken
      BY <2>2 DEF SpiInv, PhaseInv
    <3>2. Given' \in {2, 3}
      BY <1>1, <1>6, <3>1 DEF AtToken
    <3>3. AtToken'
      BY <1>6, <1>7, <1>8, <3>1, <3>2 DEF AtToken
    <3> QED BY <1>7, <2>2, <3>3 DEF PhaseInv
  <2>3. CASE host.phase = "data" /\ host.n # 24
    <3>1. AtRead
      BY <2>3 DEF SpiInv, PhaseInv
    <3>2. Given' = Bytes' + (IF Reads THEN 3 ELSE 1)
      BY <1>1, <1>6, <1>7, <1>9, <3>1 DEF AtRead
    <3>3. TailSize' = TailSize
      BY <1>8 DEF TailSize
    <3>4. AtRead'
      BY <1>6, <1>7, <1>8, <3>1, <3>2, <3>3 DEF AtRead
    <3> QED BY <1>7, <1>8, <2>3, <3>4 DEF PhaseInv
  <2> QED BY <2>1, <2>2, <2>3
<1>11. DiskInv'
  <2>1. Stored' = FALSE /\ Stored = FALSE
    BY <1>7, <1>8 DEF Stored, Writes
  <2> QED BY <1>6, <1>7, <2>1 DEF SpiInv, DiskInv, Same
<1> QED BY <1>6, <1>10, <1>11, SendAims

\* The token of a write.
LEMMA SendToken ==
    ASSUME SpiAssumption, SpiInv, Send, host.phase = "start"
    PROVE  SpiInv'
<1> DEFINE cd == [card EXCEPT !.skip = FALSE]
           e == Emit(cd)[1]
<1>1. card \in CardState /\ SpiTypes /\ ~host.sent /\ AtStart
  BY DEF Send, SpiInv, SpiTypes, PhaseInv
<1>2. Sends = Token
  BY DEF Sends
<1>3. Exchange(card, Sends) = Emit(cd)
  BY <1>1, <1>2, TokenHeard DEF AtStart
<1>4. cd \in CardState /\ cd.skip = FALSE /\ cd.frame = card.frame /\ cd.out = card.out
      /\ cd.writing = card.writing /\ cd.wblock = card.wblock /\ cd.wbuf = card.wbuf
      /\ cd.app = card.app /\ cd.inits = card.inits /\ cd.disk = card.disk
  <2> DEFINE x == FALSE
  <2>1. cd = [card EXCEPT !.skip = x] /\ x \in BOOLEAN
    OBVIOUS
  <2> HIDE DEF x, cd
  <2>2. cd \in CardState /\ cd.skip = x /\ cd.frame = card.frame /\ cd.out = card.out
        /\ cd.writing = card.writing /\ cd.wblock = card.wblock /\ cd.wbuf = card.wbuf
        /\ cd.app = card.app /\ cd.inits = card.inits /\ cd.disk = card.disk
    BY <1>1, <2>1 DEF CardState
  <2> QED BY <2>2 DEF x
<1> HIDE DEF cd
<1>5. card.out = <<>>
  <2>1. ReplySize = 1 /\ Len(card.out) \in Nat
    BY <1>1, Numbers DEF AtStart, Writes, Reads
  <2>2. Len(card.out) = 0 /\ card.out \in Seq(Int)
    BY <1>1, <2>1 DEF AtStart, Given, CardState
  <2> QED BY <2>2
<1>6. /\ e \in CardState /\ Emit(cd)[2] \in Int /\ e.frame = card.frame /\ e.out = <<>>
      /\ e.writing = card.writing /\ e.wblock = card.wblock /\ e.wbuf = card.wbuf /\ e.skip = FALSE
      /\ e.app = card.app /\ e.inits = card.inits /\ e.disk = card.disk
  BY <1>4, <1>5, Emitted
<1>7. Exchange(card, Sends)[1] = e /\ Exchange(card, Sends)[2] \in Int
  BY <1>3, <1>6
<1> HIDE DEF e
<1>8. /\ card' = e /\ Same /\ host'.phase = "start" /\ host'.pos = host.pos /\ host'.sent
  BY <1>7, SendEffect
<1>9. /\ Writes' = Writes /\ Reads' = Reads /\ ReplySize' = ReplySize /\ Reply' = Reply
      /\ InitsAfter' = InitsAfter /\ host'.n = host.n /\ host'.arg = host.arg
  BY <1>8, SameReply DEF Same
<1>10. Given' = Given /\ card'.out = card.out
  BY <1>5, <1>6, <1>8, <1>9 DEF Given
<1>11. Ran'
  <2>1. Ran /\ Queued
    BY <1>1 DEF AtStart, Ran
  <2>2. Queued'
    BY <1>9, <1>10, <2>1 DEF Queued
  <2> QED BY <1>6, <1>8, <1>9, <2>1, <2>2 DEF Ran
<1>12. AtStart'
  BY <1>1, <1>6, <1>8, <1>9, <1>10, <1>11 DEF AtStart
<1>13. PhaseInv'
  BY <1>8, <1>12 DEF PhaseInv
<1>14. DiskInv'
  BY <1>6, <1>8, <1>9 DEF SpiInv, DiskInv, Stored, Same
<1> QED BY <1>6, <1>7, <1>13, <1>14, SendAims

\* What the driver sends of a block and its CRC is a byte.
LEMMA WriteByteSent ==
    ASSUME SpiAssumption, SpiInv, Send, host.phase = "data", host.n = 24
    PROVE  Sends = WriteBytes[host.pos + 1] /\ Sends \in Int
<1>1. host \in HostState /\ host.pos \in Nat /\ BlockSize \in Nat \ {0}
  BY DEF SpiInv, SpiTypes, HostState, SpiAssumption
<1>2. host.data \in Content
  BY DEF SpiInv, PhaseInv, AtWrite, HostInv
<1>3. WriteBytes[host.pos + 1] = IF host.pos + 1 <= BlockSize THEN host.data[host.pos + 1] ELSE Idle
  BY <1>1 DEF WriteBytes
<1>4. CASE host.pos < BlockSize
  <2>1. host.pos + 1 <= BlockSize /\ host.pos + 1 \in 1..BlockSize
    BY <1>1, <1>4
  <2>2. Sends = host.data[host.pos + 1]
    BY <1>4 DEF Sends
  <2> QED BY <1>2, <1>3, <2>1, <2>2 DEF Content
<1>5. CASE ~(host.pos < BlockSize)
  <2>1. ~(host.pos + 1 <= BlockSize)
    BY <1>1, <1>5
  <2>2. Sends = Idle
    BY <1>5 DEF Sends
  <2> QED BY <1>3, <2>1, <2>2 DEF Idle
<1> QED BY <1>4, <1>5

\* A byte of a block that the card is not done with.
LEMMA SendByte ==
    ASSUME SpiAssumption, SpiInv, Send, host.phase = "data", host.n = 24, host.pos + 1 < WriteLength
    PROVE  SpiInv'
<1> DEFINE x == Append(card.wbuf, Sends)
           cd == [card EXCEPT !.wbuf = x]
           e == Emit(cd)[1]
<1>1. /\ card \in CardState /\ SpiTypes /\ ~host.sent /\ AtWrite /\ host.pos \in Nat /\ Bytes = host.pos
      /\ WriteLength \in Nat /\ card.wbuf \in Seq(Int)
  BY Numbers DEF Send, SpiInv, SpiTypes, PhaseInv, Bytes, CardState
<1>2. Sends = WriteBytes[host.pos + 1] /\ Sends \in Int
  BY WriteByteSent
<1>3. card.out = <<>> /\ Collecting /\ Len(card.wbuf) = host.pos
      /\ \A i \in 1..host.pos : card.wbuf[i] = WriteBytes[i]
  BY <1>1 DEF AtWrite, Collecting
<1>4. Exchange(card, Sends) = Emit(cd)
  BY <1>1, <1>2, <1>3, ByteKept DEF Collecting
<1>5. x \in Seq(Int) /\ Len(x) = host.pos + 1 /\ \A i \in 1..(host.pos + 1) : x[i] = WriteBytes[i]
  <2>1. /\ x \in Seq(Int) /\ Len(x) = Len(card.wbuf) + 1 /\ x[Len(card.wbuf) + 1] = Sends
        /\ \A i \in 1..Len(card.wbuf) : x[i] = card.wbuf[i]
    BY <1>1, <1>2, Appended
  <2> HIDE DEF x
  <2>2. \A i \in 1..(host.pos + 1) : i \in 1..host.pos \/ i = host.pos + 1
    BY <1>1
  <2>3. x[host.pos + 1] = WriteBytes[host.pos + 1]
    BY <1>2, <1>3, <2>1
  <2>4. \A i \in 1..(host.pos + 1) : x[i] = WriteBytes[i]
    BY <1>3, <2>1, <2>2, <2>3
  <2> QED BY <1>3, <2>1, <2>4
<1> HIDE DEF x
<1>6. cd \in CardState /\ cd.wbuf = x /\ cd.frame = card.frame /\ cd.out = card.out
      /\ cd.writing = card.writing /\ cd.wblock = card.wblock /\ cd.skip = card.skip
      /\ cd.app = card.app /\ cd.inits = card.inits /\ cd.disk = card.disk
  BY <1>1, <1>5 DEF CardState
<1> HIDE DEF cd
<1>7. /\ e \in CardState /\ Emit(cd)[2] \in Int /\ e.frame = card.frame /\ e.out = <<>>
      /\ e.writing = card.writing /\ e.wblock = card.wblock /\ e.wbuf = x /\ e.skip = card.skip
      /\ e.app = card.app /\ e.inits = card.inits /\ e.disk = card.disk
  BY <1>3, <1>6, Emitted
<1>8. Exchange(card, Sends)[1] = e /\ Exchange(card, Sends)[2] \in Int
  BY <1>4, <1>7
<1> HIDE DEF e
<1>9. /\ card' = e /\ Same /\ host'.phase = "data" /\ host'.pos = host.pos /\ host'.sent
      /\ host'.data = host.data /\ Bytes' = host.pos + 1
  BY <1>8, SendEffect
<1>10. /\ Writes' = Writes /\ InitsAfter' = InitsAfter /\ host'.n = 24 /\ host'.arg = host.arg
       /\ WriteBytes' = WriteBytes
  BY <1>9, SameReply DEF Same, WriteBytes
<1>11. Collecting'
  <2>1. Len(card'.wbuf) = Bytes' /\ \A i \in 1..Bytes' : card'.wbuf[i] = WriteBytes'[i]
    BY <1>5, <1>7, <1>9, <1>10
  <2> QED BY <1>3, <1>7, <1>9, <1>10, <2>1 DEF Collecting
<1>12. Bytes' # WriteLength /\ Bytes # WriteLength
  BY <1>1, <1>9
<1>13. AtWrite'
  BY <1>1, <1>7, <1>9, <1>10, <1>11, <1>12 DEF AtWrite
<1>14. PhaseInv'
  BY <1>9, <1>10, <1>13 DEF PhaseInv
<1>15. DiskInv'
  <2>1. Stored = FALSE
    BY <1>12 DEF Stored
  <2> QED BY <1>7, <1>9, <2>1 DEF SpiInv, DiskInv, Same
<1> QED BY <1>7, <1>8, <1>14, <1>15, SendAims

\* The last byte: the card stores the block.
LEMMA SendBlock ==
    ASSUME SpiAssumption, SpiInv, Send, host.phase = "data", host.n = 24, ~(host.pos + 1 < WriteLength)
    PROVE  SpiInv'
<1> DEFINE x == Append(card.wbuf, Sends)
           e == Exchange(card, Sends)[1]
<1>1. /\ card \in CardState /\ SpiTypes /\ ~host.sent /\ AtWrite /\ host.pos \in Nat /\ Bytes = host.pos
      /\ WriteLength \in Nat /\ card.wbuf \in Seq(Int)
      /\ WriteLength = BlockSize + CrcSize /\ BlockSize \in Nat /\ CrcSize \in Nat
  BY Numbers DEF Send, SpiInv, SpiTypes, PhaseInv, Bytes, CardState
<1>2. Sends = WriteBytes[host.pos + 1] /\ Sends \in Int
  BY WriteByteSent
<1>3. /\ host.pos < WriteLength /\ host.pos + 1 = WriteLength
      /\ Writes /\ card.frame = <<>> /\ card.app = FALSE /\ card.inits = InitsAfter
  BY <1>1 DEF AtWrite
<1>4. /\ card.out = <<>> /\ Collecting /\ Len(card.wbuf) = host.pos
      /\ \A i \in 1..host.pos : card.wbuf[i] = WriteBytes[i]
      /\ card.writing /\ ~card.skip /\ card.wblock = host.arg /\ host.arg \in Block
  BY <1>1, <1>3 DEF AtWrite, Collecting, Writes
<1>5. host.data \in Content
  BY <1>3 DEF SpiInv, HostInv
<1>6. SubSeq(x, 1, BlockSize) = host.data
  <2>1. /\ x \in Seq(Int) /\ Len(x) = Len(card.wbuf) + 1 /\ x[Len(card.wbuf) + 1] = Sends
        /\ \A i \in 1..Len(card.wbuf) : x[i] = card.wbuf[i]
    BY <1>1, <1>2, Appended
  <2> HIDE DEF x
  <2>2. Len(x) >= BlockSize
    BY <1>1, <1>3, <1>4, <2>1
  <2>3. ASSUME NEW i \in 1..BlockSize PROVE host.data[i] = x[i]
    <3>1. i \in 1..host.pos \/ i = host.pos + 1
      BY <1>1, <1>3
    <3>2. WriteBytes[i] = host.data[i]
      BY <1>1 DEF WriteBytes
    <3>3. x[i] = WriteBytes[i]
      BY <1>2, <1>4, <2>1, <3>1
    <3> QED BY <3>2, <3>3
  <2> QED BY <1>5, <2>1, <2>2, <2>3, ContentOf
<1>7. /\ e \in CardState /\ Exchange(card, Sends)[2] = Idle
      /\ e.frame = card.frame /\ e.app = card.app /\ e.inits = card.inits
      /\ ~e.writing /\ e.out = <<Accepted>>
      /\ e.disk = [card.disk EXCEPT ![host.arg] = host.data]
  <2>1. Len(card.wbuf) + 1 = WriteLength /\ card.wblock \in Block
    BY <1>3, <1>4
  <2>2. SubSeq(Append(card.wbuf, Sends), 1, BlockSize) = host.data
    BY <1>6
  <2> HIDE DEF x
  <2> DEFINE m == Sends
  <2>3. m \in Int /\ SubSeq(Append(card.wbuf, m), 1, BlockSize) = host.data
    BY <1>2, <2>2
  <2> HIDE DEF m
  <2>4. /\ Exchange(card, m)[1] \in CardState /\ Exchange(card, m)[2] = Idle
        /\ Exchange(card, m)[1].frame = card.frame /\ Exchange(card, m)[1].app = card.app
        /\ Exchange(card, m)[1].inits = card.inits /\ ~Exchange(card, m)[1].writing
        /\ Exchange(card, m)[1].out = <<Accepted>>
        /\ Exchange(card, m)[1].disk = [card.disk EXCEPT ![card.wblock] = host.data]
    <3>1. card \in CardState /\ card.writing /\ ~card.skip /\ card.out = <<>>
      BY <1>1, <1>4
    <3> QED BY <1>5, <2>1, <2>3, <3>1, BlockKept
  <2> QED BY <1>4, <2>4 DEF m
<1>8. Exchange(card, Sends)[2] \in Int
  BY <1>7 DEF Idle
<1>9. /\ card' = e /\ Same /\ host'.phase = "data" /\ host'.pos = host.pos /\ host'.sent
      /\ host'.data = host.data /\ Bytes' = host.pos + 1
  BY <1>8, SendEffect
<1> HIDE DEF x, e
<1>10. /\ Writes' = Writes /\ InitsAfter' = InitsAfter /\ host'.n = 24 /\ host'.arg = host.arg
  BY <1>9, SameReply DEF Same
<1>11. /\ card'.disk[host.arg] = host.data
       /\ \A b \in Block : b # host.arg => card'.disk[b] = card.disk[b]
  BY <1>1, <1>4, <1>7, <1>9 DEF CardState
<1>12. Collected'
  BY <1>7, <1>9, <1>10, <1>11 DEF Collected
<1>13. Bytes' = WriteLength
  BY <1>3, <1>9
<1>14. AtWrite'
  <2>1. ~(Bytes' < WriteLength)
    BY <1>1, <1>13
  <2> QED BY <1>3, <1>7, <1>9, <1>10, <1>12, <2>1 DEF AtWrite
<1>15. PhaseInv'
  BY <1>9, <1>10, <1>14 DEF PhaseInv
<1>16. DiskInv'
  <2>1. Stored'
    BY <1>3, <1>9, <1>10, <1>13 DEF Stored
  <2>2. \A b \in Block : b = host.arg \/ card.disk[b] = mirror[b]
    BY DEF SpiInv, DiskInv
  <2>3. mirror' = mirror
    BY <1>9 DEF Same
  <2> QED BY <1>10, <1>11, <2>1, <2>2, <2>3 DEF DiskInv
<1> QED BY <1>7, <1>8, <1>15, <1>16, SendAims DEF e

\* Polling for the answer to a block.
LEMMA SendAccept ==
    ASSUME SpiAssumption, SpiInv, Send, host.phase = "accept"
    PROVE  SpiInv'
<1> DEFINE e == Emit(card)[1]
<1>1. card \in CardState /\ SpiTypes /\ ~host.sent /\ AtAccept /\ card.out = <<Accepted>> /\ ~card.writing
  BY DEF Send, SpiInv, SpiTypes, PhaseInv, AtAccept, Collected
<1>2. Sends = Idle
  BY DEF Sends
<1>3. Exchange(card, Sends) = Emit(card)
  BY <1>1, <1>2, IdleEmits DEF AtAccept
<1>4. card.out # <<>> /\ Head(card.out) = Accepted /\ Tail(card.out) = <<>>
  BY <1>1
<1>5. /\ e \in CardState /\ Emit(card)[2] = Accepted /\ e.frame = card.frame /\ e.out = <<>>
      /\ e.writing = card.writing /\ e.app = card.app /\ e.inits = card.inits /\ e.disk = card.disk
  BY <1>1, <1>4, Emitted
<1>6. Exchange(card, Sends)[1] = e /\ Exchange(card, Sends)[2] = Accepted /\ Exchange(card, Sends)[2] \in Int
  BY <1>3, <1>5 DEF Accepted
<1> HIDE DEF e
<1>7. /\ card' = e /\ Same /\ host'.phase = "accept" /\ host'.pos = host.pos /\ host'.sent
      /\ host'.data = host.data /\ spi'[Host].rdr = Accepted
  BY <1>6, SendEffect
<1>8. Writes' = Writes /\ InitsAfter' = InitsAfter /\ host'.arg = host.arg
  BY <1>7, SameReply DEF Same
<1>9. Collected'
  BY <1>1, <1>5, <1>7, <1>8 DEF AtAccept, Collected
<1>10. AtAccept'
  BY <1>1, <1>5, <1>7, <1>8, <1>9 DEF AtAccept
<1>11. PhaseInv'
  BY <1>7, <1>10 DEF PhaseInv
<1>12. DiskInv'
  BY <1>5, <1>7, <1>8 DEF SpiInv, DiskInv, Stored, Same
<1> QED BY <1>5, <1>6, <1>11, <1>12, SendAims

\* Every byte out.
LEMMA SendKeeps == ASSUME SpiAssumption, SpiInv, Send PROVE SpiInv'
<1>1. host.phase \in {"frame", "r1", "start", "token", "data", "accept"}
  BY DEF Send, SpiInv, SpiTypes, HostState, Phase
<1> QED BY <1>1, SendFrame, SendCommand, SendPoll, SendToken, SendByte, SendBlock, SendAccept

-----------------------------------------------------------------------------
(* A byte in: the driver goes on.                                            *)

\* The driver in phase p after q of its bytes.
On(p, q) == [host EXCEPT !.sent = FALSE, !.phase = p, !.pos = q]

\* Its fields, ...
LEMMA OnIs ==
    ASSUME host \in HostState, NEW p \in Phase, NEW q \in Nat
    PROVE  /\ On(p, q) \in HostState /\ On(p, q).phase = p /\ On(p, q).pos = q /\ On(p, q).sent = FALSE
           /\ On(p, q).n = host.n /\ On(p, q).arg = host.arg /\ On(p, q).got = host.got
           /\ On(p, q).data = host.data /\ On(p, q).app = host.app /\ On(p, q).inits = host.inits
<1> DEFINE x == FALSE
           h == [host EXCEPT !.sent = x, !.phase = p]
<1>1. On(p, q) = [h EXCEPT !.pos = q] /\ x \in BOOLEAN
  BY DEF On, HostState
<1> HIDE DEF x
<1>2. h \in HostState /\ h.phase = p /\ h.sent = x /\ h.n = host.n /\ h.arg = host.arg /\ h.got = host.got
      /\ h.data = host.data /\ h.app = host.app /\ h.inits = host.inits
  BY <1>1 DEF HostState
<1> HIDE DEF h
<1>3. /\ On(p, q) \in HostState /\ On(p, q).phase = p /\ On(p, q).pos = q /\ On(p, q).sent = x
      /\ On(p, q).n = host.n /\ On(p, q).arg = host.arg /\ On(p, q).got = host.got
      /\ On(p, q).data = host.data /\ On(p, q).app = host.app /\ On(p, q).inits = host.inits
  BY <1>1, <1>2 DEF HostState
<1> QED BY <1>3 DEF x

\* ... and the forms it is reached in.
LEMMA OnForms ==
    ASSUME host \in HostState, NEW p, NEW q
    PROVE  /\ [[host EXCEPT !.sent = FALSE] EXCEPT !.phase = p, !.pos = q] = On(p, q)
           /\ [host EXCEPT !.sent = FALSE] = On(host.phase, host.pos)
           /\ [[host EXCEPT !.sent = FALSE] EXCEPT !.pos = @ + 1] = On(host.phase, host.pos + 1)
BY DEF On, HostState

\* What a take does to everything but the driver.
LEMMA TakeEffect ==
    ASSUME SpiAssumption, SpiInv, Take
    PROVE  /\ host.phase # "idle" /\ host.sent /\ Bytes = host.pos + 1 /\ host.pos \in Nat
           /\ SpiTypes /\ host \in HostState /\ card \in CardState /\ spi[Host].rdr \in Int
           /\ card' = card /\ spi' \in [Channel -> SpiUnit] /\ Host \in armed' /\ spi'[Host].mstr
           /\ spi'[Host].sprf = FALSE
<1>1. /\ spi \in [Channel -> SpiUnit] /\ host \in HostState /\ card \in CardState /\ SpiTypes
      /\ Host \in Channel /\ host.sent /\ card' = card /\ armed' = armed
      /\ spi' = [spi EXCEPT ![Host] = Drained(spi[Host])]
  BY DEF SpiInv, SpiTypes, SpiAssumption, Take
<1>2. host.phase # "idle"
  BY <1>1 DEF SpiInv, PhaseInv, AtIdle
<1>3. Host \in armed /\ spi[Host].mstr /\ spi[Host] \in SpiUnit /\ spi[Host].rdr \in Int
  BY <1>1, <1>2 DEF SpiInv, HostInv, Owned, SpiUnit
<1>4. /\ Drained(spi[Host]) \in SpiUnit /\ Drained(spi[Host]).mstr = spi[Host].mstr
      /\ Drained(spi[Host]).sprf = FALSE
  <2> DEFINE x == FALSE
  <2>1. Drained(spi[Host]) = [spi[Host] EXCEPT !.sprf = x, !.ovrf = x] /\ x \in BOOLEAN
    BY DEF Drained
  <2> HIDE DEF x
  <2>2. /\ Drained(spi[Host]) \in SpiUnit /\ Drained(spi[Host]).mstr = spi[Host].mstr
        /\ Drained(spi[Host]).sprf = x
    BY <1>3, <2>1 DEF SpiUnit
  <2> QED BY <2>2 DEF x
<1>5. spi' \in [Channel -> SpiUnit] /\ spi'[Host] = Drained(spi[Host])
  BY <1>1, <1>4
<1>6. host.pos \in Nat /\ Bytes = host.pos + 1
  BY <1>1 DEF Bytes, HostState
<1> QED BY <1>1, <1>2, <1>3, <1>4, <1>5, <1>6

\* Going on within the transaction.
LEMMA TakeOn ==
    ASSUME SpiAssumption, SpiInv, Take, NEW p \in Phase, NEW q \in Nat, p # "idle",
           Advanced(spi[Host].rdr) = On(p, q), host.phase # "accept"
    PROVE  /\ host' \in HostState /\ host'.phase = p /\ host'.pos = q /\ host'.sent = FALSE
           /\ host'.got = host.got /\ host'.data = host.data /\ Same /\ Bytes' = q
           /\ Given' = Given /\ Queued' = Queued /\ (Ran => Ran') /\ (Opened => Opened')
           /\ Writes' = Writes /\ Reads' = Reads /\ Reply' = Reply /\ InitsAfter' = InitsAfter
           /\ ended' = IF host.phase = "r1" /\ spi[Host].rdr # Idle
                       THEN Verdict(spi[Host].rdr) ELSE ended
<1>1. host \in HostState /\ card' = card
  BY TakeEffect
<1>2. /\ On(p, q) \in HostState /\ On(p, q).phase = p /\ On(p, q).pos = q /\ On(p, q).sent = FALSE
      /\ On(p, q).n = host.n /\ On(p, q).arg = host.arg /\ On(p, q).got = host.got
      /\ On(p, q).data = host.data /\ On(p, q).app = host.app /\ On(p, q).inits = host.inits
  BY <1>1, OnIs
<1>3. host' = On(p, q) /\ mirror' = mirror
      /\ ended' = IF host.phase = "r1" /\ spi[Host].rdr # Idle THEN Verdict(spi[Host].rdr) ELSE ended
  <2> DEFINE next == Advanced(spi[Host].rdr)
  <2>1. next.phase # "idle"
    BY <1>2
  <2>2. host' = next
    BY <2>1 DEF Take
  <2> QED BY <2>1, <2>2 DEF Take
<1>4. Same
  BY <1>2, <1>3 DEF Same
<1>5. /\ Writes' = Writes /\ Reads' = Reads /\ Reply' = Reply /\ InitsAfter' = InitsAfter
      /\ ReplySize' = ReplySize
  BY <1>4, SameReply
<1>6. Given' = Given /\ Queued' = Queued
  BY <1>1, <1>5 DEF Given, Queued
<1>7. (Ran => Ran') /\ (Opened => Opened')
  BY <1>1, <1>4, <1>5, <1>6 DEF Ran, Opened, Same
<1>8. Bytes' = q
  BY <1>2, <1>3 DEF Bytes
<1> QED BY <1>2, <1>3, <1>4, <1>5, <1>6, <1>7, <1>8

\* What a take has to establish that goes on within the transaction.
LEMMA TakeAims ==
    ASSUME SpiAssumption, SpiInv, Take, NEW p \in Phase, NEW q \in Nat, p # "idle",
           Advanced(spi[Host].rdr) = On(p, q), host.phase # "accept",
           p \in {"frame", "r1", "token"} => host.got = <<>>,
           host.phase = "r1" => spi[Host].rdr = ExpectedR1,
           PhaseInv', Stored' = Stored
    PROVE  SpiInv'
<1>1. /\ host' \in HostState /\ host'.phase = p /\ host'.sent = FALSE /\ host'.got = host.got
      /\ host'.data = host.data /\ Same /\ Writes' = Writes
      /\ ended' = IF host.phase = "r1" /\ spi[Host].rdr # Idle THEN Verdict(spi[Host].rdr) ELSE ended
  BY TakeOn
<1>2. /\ card' = card /\ card \in CardState /\ spi' \in [Channel -> SpiUnit] /\ Host \in armed'
      /\ spi'[Host].mstr /\ spi'[Host].sprf = FALSE
  BY TakeEffect
<1>3. host'.n = host.n /\ host'.arg = host.arg /\ mirror' = mirror
  BY <1>1 DEF Same
<1>4. SpiTypes'
  BY <1>1, <1>2, <1>3 DEF SpiInv, SpiTypes
<1>5. HostInv'
  BY <1>1, <1>2, <1>3 DEF SpiInv, HostInv, Owned
<1>6. EndsWell'
  BY <1>1 DEF SpiInv, EndsWell, Verdict
<1>7. DiskInv'
  BY <1>2, <1>3 DEF SpiInv, DiskInv
<1> QED BY <1>4, <1>5, <1>6, <1>7 DEF SpiInv

\* The end of a transaction.
LEMMA TakeEnds ==
    ASSUME SpiAssumption, SpiInv, Take, Advanced(spi[Host].rdr).phase = "idle",
           card.frame = <<>>, card.out = <<>>, ~card.writing, card.app <=> host.n = 55,
           card.inits = InitsAfter, Verdict(spi[Host].rdr) = "good",
           mirror' \in [Block -> Content], \A b \in Block : card.disk[b] = mirror'[b]
    PROVE  SpiInv'
<1> DEFINE a == host.n = 55
<1>1. /\ card' = card /\ card \in CardState /\ spi' \in [Channel -> SpiUnit] /\ SpiTypes
  BY TakeEffect
<1>2. host' = [NoCommand EXCEPT !.app = a, !.inits = InitsAfter] /\ ended' = "good"
  BY DEF Take, InitsAfter
<1>3. a \in BOOLEAN /\ card.app = a /\ InitsAfter \in Nat
  <2>1. card.app \in BOOLEAN
    BY <1>1 DEF CardState
  <2> QED BY <1>1, <2>1, Numbers
<1> HIDE DEF a
<1>4. /\ host' \in HostState /\ host'.phase = "idle" /\ host'.sent = FALSE /\ host'.app = a
      /\ host'.inits = InitsAfter /\ host'.n = 0
  <2> DEFINE k == [NoCommand EXCEPT !.app = a]
             c == InitsAfter
  <2>1. NoCommand \in HostState /\ NoCommand.phase = "idle" /\ NoCommand.sent = FALSE /\ NoCommand.n = 0
    BY DEF NoCommand, HostState, Phase
  <2>2. host' = [k EXCEPT !.inits = c] /\ c \in Nat
    BY <1>2, <1>3, <2>1 DEF HostState
  <2>3. k \in HostState /\ k.phase = "idle" /\ k.sent = FALSE /\ k.app = a /\ k.n = 0
    BY <1>3, <2>1 DEF HostState
  <2> HIDE DEF k, c
  <2>4. /\ host' \in HostState /\ host'.phase = "idle" /\ host'.sent = FALSE /\ host'.app = a
        /\ host'.inits = c /\ host'.n = 0
    BY <2>2, <2>3 DEF HostState
  <2> QED BY <2>4 DEF c
<1>5. SpiTypes' /\ EndsWell'
  BY <1>1, <1>2, <1>4 DEF SpiTypes, EndsWell
<1>6. HostInv'
  BY <1>4 DEF HostInv, Writes
<1>7. PhaseInv'
  <2>1. Waits'
    BY <1>1, <1>3, <1>4 DEF Waits
  <2>2. AtIdle'
    BY <1>1, <1>4, <2>1 DEF AtIdle
  <2> QED BY <1>4, <2>2 DEF PhaseInv
<1>8. DiskInv'
  BY <1>1 DEF DiskInv
<1> QED BY <1>5, <1>6, <1>7, <1>8 DEF SpiInv

-----------------------------------------------------------------------------
\* A byte of the frame: the next, or the wait for R1.
LEMMA TakeFrame == ASSUME SpiAssumption, SpiInv, Take, host.phase = "frame" PROVE SpiInv'
<1>1. /\ host.sent /\ Bytes = host.pos + 1 /\ host.pos \in Nat /\ host \in HostState /\ card' = card
      /\ AtFrame /\ host.got = <<>>
  BY TakeEffect DEF SpiInv, PhaseInv, HostInv
<1>2. Stored = FALSE
  BY DEF Stored
<1>3. CASE host.pos = 2
  <2>1. Advanced(spi[Host].rdr) = On("r1", 0)
    <3>1. "r1" \in Phase /\ 0 \in Nat
      BY DEF Phase
    <3>2. Advanced(spi[Host].rdr) = [[host EXCEPT !.sent = FALSE] EXCEPT !.phase = "r1", !.pos = 0]
      BY <1>3 DEF Advanced, FrameSize
    <3> QED BY <1>1, <3>1, <3>2, OnForms
  <2>2. "r1" \in Phase /\ 0 \in Nat /\ "r1" # "idle"
    BY DEF Phase
  <2>3. /\ host'.phase = "r1" /\ host'.pos = 0 /\ host'.sent = FALSE /\ Bytes' = 0 /\ Given' = Given
        /\ (Ran => Ran') /\ (Opened => Opened')
    BY <2>1, <2>2, TakeOn
  <2>4. AtR1'
    BY <1>1, <1>3, <2>3 DEF AtFrame, AtR1
  <2>5. PhaseInv' /\ Stored' = FALSE
    BY <2>3, <2>4 DEF PhaseInv, Stored
  <2> QED BY <1>1, <1>2, <2>1, <2>2, <2>5, TakeAims
<1>4. CASE host.pos # 2
  <2> DEFINE q == host.pos + 1
  <2>1. q \in Nat /\ q <= 2 /\ q # 3
    BY <1>1, <1>4 DEF AtFrame
  <2>2. Advanced(spi[Host].rdr) = On("frame", q)
    <3>1. Advanced(spi[Host].rdr) = [[host EXCEPT !.sent = FALSE] EXCEPT !.pos = @ + 1]
      BY <2>1 DEF Advanced, FrameSize
    <3>2. "frame" \in Phase
      BY DEF Phase
    <3> QED BY <1>1, <3>1, <3>2, OnForms
  <2>3. "frame" \in Phase /\ "frame" # "idle"
    BY DEF Phase
  <2> HIDE DEF q
  <2>4. /\ host'.phase = "frame" /\ host'.pos = q /\ host'.sent = FALSE /\ Bytes' = q /\ Same
    BY <2>1, <2>2, <2>3, TakeOn
  <2>5. AtFrame'
    <3>1. Bytes = q /\ q < 3
      BY <1>1, <2>1 DEF q
    <3>2. FrameBytes' = FrameBytes
      BY <2>4, SameReply
    <3>3. Waits /\ Len(card.frame) = q /\ \A i \in 1..q : card.frame[i] = FrameBytes[i]
      BY <1>1, <3>1 DEF AtFrame
    <3>4. Waits'
      BY <1>1, <2>4, <3>3 DEF Waits, Same
    <3> QED BY <1>1, <2>1, <2>4, <3>1, <3>2, <3>3, <3>4 DEF AtFrame
  <2>6. PhaseInv' /\ Stored' = FALSE
    BY <2>4, <2>5 DEF PhaseInv, Stored
  <2> QED BY <1>1, <1>2, <2>1, <2>2, <2>3, <2>6, TakeAims
<1> QED BY <1>3, <1>4

\* R1 is the answer to the driver's own command, and decides what follows.
LEMMA TakeR1 == ASSUME SpiAssumption, SpiInv, Take, host.phase = "r1" PROVE SpiInv'
<1> DEFINE byte == spi[Host].rdr
<1>1. /\ host.sent /\ Bytes = host.pos + 1 /\ host.pos \in Nat /\ host \in HostState /\ card' = card
      /\ AtR1 /\ host.got = <<>> /\ SpiTypes /\ host.n \in Int /\ card \in CardState
  BY TakeEffect, Numbers DEF SpiInv, PhaseInv, HostInv
<1>2. host.pos = 0 /\ Given = 1 /\ Ran /\ Opened /\ Read
  BY <1>1 DEF AtR1
<1>3. byte = ExpectedR1
  BY <1>2 DEF Read, Reply
<1>4. byte \in {0, 1, 4, 64} /\ byte # Idle
  BY <1>1, <1>3, Numbers DEF Idle
<1>5. Stored = FALSE
  BY DEF Stored
<1>6. /\ "start" \in Phase /\ "token" \in Phase /\ "data" \in Phase /\ "idle" \in Phase /\ 0 \in Nat
  BY DEF Phase
<1>7. CASE host.n = 24 /\ byte = 0
  <2>1. Writes
    BY <1>3, <1>7 DEF ExpectedR1, Writes
  <2>2. Advanced(byte) = On("start", 0)
    <3>1. Advanced(byte) = [[host EXCEPT !.sent = FALSE] EXCEPT !.phase = "start", !.pos = 0]
      BY <1>4, <1>7 DEF Advanced
    <3>2. host \in HostState /\ "start" \in Phase /\ 0 \in Nat
      BY <1>1, <1>6
    <3> HIDE DEF byte
    <3> QED BY <3>1, <3>2, OnForms
  <2>3. /\ host'.phase = "start" /\ host'.pos = 0 /\ host'.sent = FALSE /\ Given' = Given /\ Same
        /\ Ran' /\ Opened' /\ Writes' = Writes
    BY <1>2, <1>6, <2>2, TakeOn
  <2>4. AtStart'
    BY <1>2, <2>1, <2>3 DEF AtStart, Opened
  <2>5. PhaseInv' /\ Stored' = FALSE
    BY <2>3, <2>4 DEF PhaseInv, Stored
  <2> QED BY <1>3, <1>5, <1>6, <2>2, <2>5, TakeAims
<1>8. CASE host.n = 17 /\ byte = 0
  <2>1. Reads /\ ~Writes
    BY <1>3, <1>8 DEF ExpectedR1, Reads, Writes
  <2>2. Advanced(byte) = On("token", 0)
    <3>1. Advanced(byte) = [[host EXCEPT !.sent = FALSE] EXCEPT !.phase = "token", !.pos = 0]
      BY <1>4, <1>8 DEF Advanced
    <3>2. host \in HostState /\ "token" \in Phase /\ 0 \in Nat
      BY <1>1, <1>6
    <3> HIDE DEF byte
    <3> QED BY <3>1, <3>2, OnForms
  <2>3. /\ host'.phase = "token" /\ host'.pos = 0 /\ host'.sent = FALSE /\ Given' = Given
        /\ Ran' /\ Reads' = Reads
    BY <1>2, <1>6, <2>2, TakeOn
  <2>4. AtToken'
    BY <1>1, <1>2, <2>1, <2>3 DEF AtToken, Opened
  <2>5. PhaseInv' /\ Stored' = FALSE
    BY <2>3, <2>4 DEF PhaseInv, Stored
  <2> QED BY <1>1, <1>3, <1>5, <1>6, <2>2, <2>5, TakeAims
<1>9. CASE host.n \in {8, 58}
  <2>1. ~Reads /\ ~Writes
    BY <1>9 DEF Reads, Writes
  <2>2. Advanced(byte) = On("data", 0)
    <3>1. Advanced(byte) = [[host EXCEPT !.sent = FALSE] EXCEPT !.phase = "data", !.pos = 0]
      BY <1>4, <1>9 DEF Advanced
    <3>2. host \in HostState /\ "data" \in Phase /\ 0 \in Nat
      BY <1>1, <1>6
    <3> HIDE DEF byte
    <3> QED BY <3>1, <3>2, OnForms
  <2>3. /\ host'.phase = "data" /\ host'.pos = 0 /\ host'.sent = FALSE /\ Given' = Given /\ Bytes' = 0
        /\ Ran' /\ Reads' = Reads /\ Same /\ Writes' = Writes
    BY <1>2, <1>6, <2>2, TakeOn
  <2>4. host'.n = host.n
    BY <2>3 DEF Same
  <2>5. AtRead'
    BY <1>1, <1>2, <1>9, <2>1, <2>3, <2>4 DEF AtRead, Opened, TailSize
  <2>6. PhaseInv' /\ Stored' = FALSE
    BY <1>9, <2>1, <2>3, <2>4, <2>5 DEF PhaseInv, Stored
  <2> QED BY <1>3, <1>5, <1>6, <2>2, <2>6, TakeAims
<1>10. CASE host.n \notin {8, 58} /\ ~(host.n \in {17, 24} /\ byte = 0)
  <2>1. ~Reads /\ ~Writes
    BY <1>3, <1>10 DEF ExpectedR1, Reads, Writes
  <2>2. Advanced(byte).phase = "idle"
    <3>1. Advanced(byte) = [[host EXCEPT !.sent = FALSE] EXCEPT !.phase = "idle", !.pos = 0]
      BY <1>4, <1>10 DEF Advanced
    <3>2. host \in HostState /\ "idle" \in Phase /\ 0 \in Nat
      BY <1>1, <1>6
    <3> HIDE DEF byte
    <3>3. Advanced(byte) = On("idle", 0)
      BY <3>1, <3>2, OnForms
    <3>4. On("idle", 0).phase = "idle"
      BY <3>2, OnIs
    <3> QED BY <3>3, <3>4
  <2>3. card.out = <<>>
    <3>1. ReplySize = 1 /\ Len(card.out) \in Nat
      BY <1>1, <1>10, <2>1, Numbers
    <3>2. Len(card.out) = 0 /\ card.out \in Seq(Int)
      BY <1>1, <1>2, <3>1 DEF Given, CardState
    <3> QED BY <3>2
  <2>4. card.frame = <<>> /\ ~card.writing /\ (card.app <=> host.n = 55) /\ card.inits = InitsAfter
    BY <1>2, <2>1 DEF Ran, Opened
  <2>5. Verdict(byte) = "good"
    BY <1>3 DEF Verdict
  <2>6. mirror' = mirror
    BY DEF Take
  <2>7. mirror' \in [Block -> Content] /\ \A b \in Block : card.disk[b] = mirror'[b]
    BY <1>5, <2>6 DEF SpiInv, SpiTypes, DiskInv
  <2> QED BY <2>2, <2>3, <2>4, <2>5, <2>7, TakeEnds
<1> QED BY <1>7, <1>8, <1>9, <1>10

\* The token is out: the block follows.
LEMMA TakeStart == ASSUME SpiAssumption, SpiInv, Take, host.phase = "start" PROVE SpiInv'
<1> DEFINE byte == spi[Host].rdr
<1>1. /\ host.sent /\ host.pos \in Nat /\ host \in HostState /\ card' = card /\ card \in CardState
      /\ AtStart /\ SpiTypes
  BY TakeEffect DEF SpiInv, PhaseInv
<1>2. /\ Writes /\ Ran /\ Given = 1 /\ card.writing /\ card.wbuf = <<>> /\ card.wblock = host.arg /\ ~card.skip
      /\ host.n = 24 /\ ~Reads
  BY <1>1 DEF AtStart, Writes, Reads
<1>3. "data" \in Phase /\ 0 \in Nat /\ "data" # "idle"
  BY DEF Phase
<1>4. Advanced(byte) = On("data", 0)
  <2>1. Advanced(byte) = [[host EXCEPT !.sent = FALSE] EXCEPT !.phase = "data", !.pos = 0]
    BY DEF Advanced
  <2> HIDE DEF byte
  <2>2. host \in HostState /\ "data" \in Phase /\ 0 \in Nat
    BY <1>1, <1>3
  <2> QED BY <2>1, <2>2, OnForms
<1>5. /\ host'.phase = "data" /\ host'.pos = 0 /\ host'.sent = FALSE /\ Bytes' = 0 /\ Same
      /\ Writes' = Writes /\ InitsAfter' = InitsAfter
  BY <1>3, <1>4, TakeOn
<1>6. card.out = <<>>
  <2>1. ReplySize = 1 /\ Len(card.out) \in Nat
    BY <1>1, <1>2, Numbers
  <2>2. Len(card.out) = 0 /\ card.out \in Seq(Int)
    BY <1>1, <1>2, <2>1 DEF Given, CardState
  <2> QED BY <2>2
<1>7. host'.n = 24 /\ host'.arg = host.arg
  BY <1>2, <1>5 DEF Same
<1>8. WriteLength \in Nat \ {0}
  BY <1>1, Numbers
<1>9. Collecting'
  <2>1. Len(card'.wbuf) = 0
    BY <1>1, <1>2
  <2> QED BY <1>1, <1>2, <1>5, <1>7, <2>1 DEF Collecting
<1>10. card.frame = <<>> /\ card.app = FALSE /\ card.inits = InitsAfter
  <2>1. card.app \in BOOLEAN
    BY <1>1 DEF CardState
  <2> QED BY <1>2, <2>1 DEF Ran
<1>11. AtWrite'
  BY <1>1, <1>2, <1>5, <1>6, <1>8, <1>9, <1>10 DEF AtWrite
<1>12. PhaseInv'
  BY <1>5, <1>7, <1>11 DEF PhaseInv
<1>13. Stored' = FALSE /\ Stored = FALSE
  BY <1>5, <1>8 DEF Stored
<1> QED BY <1>3, <1>4, <1>12, <1>13, TakeAims

\* The gap, then the token of a block.
LEMMA TakeToken == ASSUME SpiAssumption, SpiInv, Take, host.phase = "token" PROVE SpiInv'
<1> DEFINE byte == spi[Host].rdr
<1>1. /\ host.sent /\ host.pos \in Nat /\ host \in HostState /\ card' = card
      /\ AtToken /\ host.got = <<>> /\ SpiTypes
  BY TakeEffect DEF SpiInv, PhaseInv, HostInv
<1>2. host.pos = 0 /\ Reads /\ Ran /\ ~card.writing /\ Given \in {2, 3} /\ byte = Reply[Given] /\ host.n = 17
  BY <1>1 DEF AtToken, Read, Reads
<1>3. Stored = FALSE
  BY DEF Stored
<1>4. "data" \in Phase /\ 0 \in Nat /\ "data" # "idle" /\ "token" \in Phase /\ "token" # "idle"
  BY DEF Phase
<1>5. Reply[2] = Idle /\ Reply[3] = Token /\ Idle # Token
  BY DEF Reply, Idle, Token
<1>6. CASE Given = 2
  <2>1. byte # Token
    BY <1>2, <1>5, <1>6
  <2>2. Advanced(byte) = On("token", 0)
    <3>1. Advanced(byte) = [host EXCEPT !.sent = FALSE]
      BY <2>1 DEF Advanced
    <3> HIDE DEF byte
    <3>2. [host EXCEPT !.sent = FALSE] = On(host.phase, host.pos)
      BY <1>1, <1>4, OnForms
    <3> QED BY <1>2, <3>1, <3>2
  <2>3. /\ host'.phase = "token" /\ host'.pos = 0 /\ host'.sent = FALSE /\ Given' = Given
        /\ Ran' /\ Reads' = Reads
    BY <1>2, <1>4, <2>2, TakeOn
  <2>4. AtToken'
    BY <1>1, <1>2, <1>6, <2>3 DEF AtToken
  <2>5. PhaseInv' /\ Stored' = FALSE
    BY <2>3, <2>4 DEF PhaseInv, Stored
  <2> QED BY <1>1, <1>3, <1>4, <2>2, <2>5, TakeAims
<1>7. CASE Given = 3
  <2>1. byte = Token
    BY <1>2, <1>5, <1>7
  <2>2. Advanced(byte) = On("data", 0)
    <3>1. Advanced(byte) = [[host EXCEPT !.sent = FALSE] EXCEPT !.phase = "data", !.pos = 0]
      BY <2>1 DEF Advanced
    <3> HIDE DEF byte
    <3>2. host \in HostState /\ "data" \in Phase /\ 0 \in Nat
      BY <1>1, <1>4
    <3> QED BY <3>1, <3>2, OnForms
  <2>3. /\ host'.phase = "data" /\ host'.pos = 0 /\ host'.sent = FALSE /\ Given' = Given /\ Bytes' = 0
        /\ Ran' /\ Reads' = Reads /\ host'.got = <<>> /\ Same /\ Writes' = Writes
    BY <1>1, <1>2, <1>4, <2>2, TakeOn
  <2>4. host'.n = 17
    BY <1>2, <2>3 DEF Same
  <2>5. AtRead'
    <3>1. 0 < TailSize'
      BY <2>4 DEF TailSize, SpiAssumption
    <3>2. Len(host'.got) = 0
      BY <2>3
    <3> QED BY <1>1, <1>2, <1>7, <2>3, <3>1, <3>2 DEF AtRead
  <2>6. PhaseInv' /\ Stored' = FALSE
    BY <2>3, <2>4, <2>5 DEF PhaseInv, Stored, Writes
  <2> QED BY <1>3, <1>4, <2>2, <2>6, TakeAims
<1> QED BY <1>2, <1>6, <1>7

\* A byte of a block that is written.
LEMMA TakeWrite == ASSUME SpiAssumption, SpiInv, Take, host.phase = "data", host.n = 24 PROVE SpiInv'
<1> DEFINE byte == spi[Host].rdr
<1>1. /\ host.sent /\ Bytes = host.pos + 1 /\ host.pos \in Nat /\ host \in HostState /\ card' = card
      /\ AtWrite /\ SpiTypes /\ WriteLength \in Nat \ {0}
  BY TakeEffect, Numbers DEF SpiInv, PhaseInv
<1>2. TailSize = WriteLength
  BY DEF TailSize, WriteLength
<1>3. /\ Writes /\ host.pos < WriteLength /\ card.frame = <<>> /\ card.app = FALSE /\ card.inits = InitsAfter
      /\ (Bytes < WriteLength => card.out = <<>> /\ Collecting)
      /\ (Bytes = WriteLength => card.out = <<Accepted>> /\ Collected)
  BY <1>1 DEF AtWrite
<1>4. "accept" \in Phase /\ 0 \in Nat /\ "accept" # "idle" /\ "data" \in Phase /\ "data" # "idle"
  BY DEF Phase
<1>5. CASE host.pos + 1 = WriteLength
  <2>1. Advanced(byte) = On("accept", 0)
    <3>1. Advanced(byte) = [[host EXCEPT !.sent = FALSE] EXCEPT !.phase = "accept", !.pos = 0]
      <4>1. host.pos + 1 = TailSize
        BY <1>2, <1>5
      <4> QED BY <4>1 DEF Advanced
    <3> HIDE DEF byte
    <3>2. host \in HostState /\ "accept" \in Phase /\ 0 \in Nat
      BY <1>1, <1>4
    <3> QED BY <3>1, <3>2, OnForms
  <2>2. /\ host'.phase = "accept" /\ host'.pos = 0 /\ host'.sent = FALSE /\ host'.data = host.data
        /\ Same /\ Writes' = Writes /\ InitsAfter' = InitsAfter
    BY <1>4, <2>1, TakeOn
  <2>3. AtAccept'
    <3>1. Collected'
      BY <1>1, <1>3, <1>5, <2>2 DEF Collected, Same
    <3> QED BY <1>1, <1>3, <1>5, <2>2, <3>1 DEF AtAccept
  <2>4. PhaseInv'
    BY <2>2, <2>3 DEF PhaseInv
  <2>5. Stored' = Stored
    BY <1>1, <1>3, <1>5, <2>2 DEF Stored
  <2> QED BY <1>4, <2>1, <2>4, <2>5, TakeAims
<1>6. CASE host.pos + 1 # WriteLength
  <2> DEFINE q == host.pos + 1
  <2>1. q \in Nat /\ q < WriteLength /\ Bytes = q
    BY <1>1, <1>3, <1>6
  <2>2. Advanced(byte) = On("data", q)
    <3>1. Advanced(byte) = [[host EXCEPT !.sent = FALSE] EXCEPT !.pos = @ + 1]
      <4>1. host.pos + 1 # TailSize
        BY <1>2, <1>6
      <4> QED BY <4>1 DEF Advanced
    <3> HIDE DEF byte
    <3>2. host \in HostState /\ "data" \in Phase /\ 0 \in Nat
      BY <1>1, <1>4
    <3> QED BY <3>1, <3>2, OnForms
  <2> HIDE DEF q
  <2>3. /\ host'.phase = "data" /\ host'.pos = q /\ host'.sent = FALSE /\ host'.data = host.data /\ Bytes' = q
        /\ Same /\ Writes' = Writes /\ InitsAfter' = InitsAfter
    BY <1>4, <2>1, <2>2, TakeOn
  <2>4. host'.n = 24 /\ host'.arg = host.arg /\ WriteBytes' = WriteBytes
    BY <2>3 DEF Same, WriteBytes
  <2>5. AtWrite'
    <3>1. Collecting'
      BY <1>1, <1>3, <2>1, <2>3, <2>4 DEF Collecting
    <3>2. q # WriteLength
      BY <1>1, <2>1
    <3> QED BY <1>1, <1>3, <2>1, <2>3, <3>1, <3>2 DEF AtWrite
  <2>6. PhaseInv'
    BY <2>3, <2>4, <2>5 DEF PhaseInv
  <2>7. Stored' = Stored
    BY <2>1, <2>3 DEF Stored
  <2> QED BY <1>4, <2>1, <2>2, <2>6, <2>7, TakeAims
<1> QED BY <1>5, <1>6

\* The block is accepted, and the driver counts it as written.
LEMMA TakeAccept == ASSUME SpiAssumption, SpiInv, Take, host.phase = "accept" PROVE SpiInv'
<1> DEFINE byte == spi[Host].rdr
<1>1. /\ host.sent /\ host.pos \in Nat /\ host \in HostState /\ card' = card /\ card \in CardState
      /\ AtAccept /\ SpiTypes
  BY TakeEffect DEF SpiInv, PhaseInv
<1>2. /\ Writes /\ card.frame = <<>> /\ card.app = FALSE /\ card.inits = InitsAfter
      /\ ~card.writing /\ card.disk[host.arg] = host.data /\ card.out = <<>> /\ byte = Accepted
      /\ host.arg \in Block /\ host.n = 24
  BY <1>1 DEF AtAccept, Collected, Writes
<1>3. byte # Idle
  BY <1>2 DEF Accepted, Idle
<1>4. Advanced(byte).phase = "idle"
  <2>1. "idle" \in Phase /\ 0 \in Nat
    BY DEF Phase
  <2>2. Advanced(byte) = [[host EXCEPT !.sent = FALSE] EXCEPT !.phase = "idle", !.pos = 0]
    BY <1>3 DEF Advanced
  <2> HIDE DEF byte
  <2>3. Advanced(byte) = On("idle", 0)
    BY <1>1, <2>1, <2>2, OnForms
  <2>4. On("idle", 0).phase = "idle"
    BY <1>1, <2>1, OnIs
  <2> QED BY <2>3, <2>4
<1>5. Verdict(byte) = "good"
  BY <1>2 DEF Verdict
<1>6. mirror' = [mirror EXCEPT ![host.arg] = host.data]
  BY <1>2 DEF Take
<1>7. mirror' \in [Block -> Content]
  BY <1>2, <1>6 DEF SpiInv, SpiTypes, HostInv
<1>8. \A b \in Block : card.disk[b] = mirror'[b]
  <2> TAKE b \in Block
  <2>1. CASE b = host.arg
    BY <1>2, <1>6, <2>1 DEF SpiInv, SpiTypes
  <2>2. CASE b # host.arg
    <3>1. mirror'[b] = mirror[b]
      BY <1>6, <2>2 DEF SpiInv, SpiTypes
    <3>2. card.disk[b] = mirror[b]
      BY <2>2 DEF SpiInv, DiskInv
    <3> QED BY <3>1, <3>2
  <2> QED BY <2>1, <2>2
<1>9. card.app <=> host.n = 55
  BY <1>2
<1> QED BY <1>2, <1>4, <1>5, <1>7, <1>8, <1>9, TakeEnds

\* The bytes of an answer after R1, and of a block after its token.
LEMMA TakeRead == ASSUME SpiAssumption, SpiInv, Take, host.phase = "data", host.n # 24 PROVE SpiInv'
<1> DEFINE byte == spi[Host].rdr
           more == Append(host.got, byte)
           q == host.pos + 1
<1>1. /\ host.sent /\ Bytes = q /\ host.pos \in Nat /\ host \in HostState /\ card' = card /\ card \in CardState
      /\ AtRead /\ SpiTypes /\ byte \in Int /\ host.got \in Seq(Int)
      /\ spi' \in [Channel -> SpiUnit] /\ Host \in armed' /\ spi'[Host].mstr /\ spi'[Host].sprf = FALSE
  BY TakeEffect DEF SpiInv, PhaseInv, HostState
<1>2. /\ Reads \/ host.n \in {8, 58}
      /\ host.pos < TailSize /\ Ran /\ ~card.writing /\ Read
      /\ Given = q + (IF Reads THEN 3 ELSE 1)
      /\ (Reads => Len(host.got) = host.pos /\ \A i \in 1..host.pos : host.got[i] = Reply[3 + i])
  BY <1>1 DEF AtRead
<1>3. q \in Nat /\ q = host.pos + 1 /\ TailSize \in Nat /\ (Reads => TailSize = BlockSize + CrcSize)
      /\ (~Reads => TailSize = 4) /\ BlockSize \in Nat /\ CrcSize \in Nat
  BY <1>1, <1>2 DEF TailSize, Reads, SpiAssumption
<1>4. /\ more \in Seq(Int) /\ Len(host.got) \in Nat /\ Len(more) = Len(host.got) + 1
      /\ \A i \in 1..Len(host.got) : more[i] = host.got[i]
      /\ more[Len(host.got) + 1] = byte
  BY <1>1, Appended
<1>5. Advanced(byte) = [(IF q = TailSize THEN On("idle", 0) ELSE On("data", q)) EXCEPT !.got = Append(@, byte)]
  <2>1. /\ "idle" \in Phase /\ "data" \in Phase /\ 0 \in Nat /\ host \in HostState
    BY <1>1 DEF Phase
  <2>2. [[host EXCEPT !.sent = FALSE] EXCEPT !.phase = "idle", !.pos = 0] = On("idle", 0)
    BY <2>1, OnForms
  <2>3. [[host EXCEPT !.sent = FALSE] EXCEPT !.pos = @ + 1] = On("data", q)
    BY <2>1, OnForms
  <2> HIDE DEF byte
  <2>4. Advanced(byte) =
          [(IF q = TailSize
            THEN [[host EXCEPT !.sent = FALSE] EXCEPT !.phase = "idle", !.pos = 0]
            ELSE [[host EXCEPT !.sent = FALSE] EXCEPT !.pos = @ + 1]) EXCEPT !.got = Append(@, byte)]
    BY DEF Advanced
  <2> QED BY <2>2, <2>3, <2>4
<1> HIDE DEF more, q
<1>6. Reads => \A i \in 1..q : more[i] = Reply[3 + i]
  <2> SUFFICES ASSUME Reads, NEW i \in 1..q PROVE more[i] = Reply[3 + i]
    OBVIOUS
  <2>1. i \in 1..host.pos \/ i = q
    BY <1>1, <1>3
  <2>2. byte = Reply[3 + q]
    <3>1. Given = 3 + q
      BY <1>2, <1>3
    <3> QED BY <1>2, <3>1 DEF Read
  <2> QED BY <1>2, <1>3, <1>4, <2>1, <2>2
<1>7. CASE q = TailSize
  <2>1. Advanced(byte).phase = "idle"
    <3>1. Advanced(byte) = [On("idle", 0) EXCEPT !.got = Append(@, byte)]
      BY <1>5, <1>7
    <3>2. On("idle", 0) \in HostState /\ On("idle", 0).phase = "idle"
      <4>1. "idle" \in Phase /\ 0 \in Nat /\ host \in HostState
        BY <1>1 DEF Phase
      <4> QED BY <4>1, OnIs
    <3> HIDE DEF byte
    <3> QED BY <3>1, <3>2 DEF HostState
  <2>2. card.out = <<>>
    <3>1. Given = ReplySize /\ Len(card.out) \in Nat /\ ReplySize \in Nat
      BY <1>1, <1>2, <1>3, <1>7, Numbers
    <3>2. Len(card.out) = 0 /\ card.out \in Seq(Int)
      BY <1>1, <3>1 DEF Given, CardState
    <3> QED BY <3>2
  <2>3. card.frame = <<>> /\ (card.app <=> host.n = 55) /\ card.inits = InitsAfter
    BY <1>2 DEF Ran
  <2>4. mirror' = mirror
    BY DEF Take
  <2>5. Stored = FALSE
    BY <1>1 DEF Stored, Writes
  <2>6. mirror' \in [Block -> Content] /\ \A b \in Block : card.disk[b] = mirror'[b]
    BY <2>4, <2>5 DEF SpiInv, SpiTypes, DiskInv
  <2>7. host.n = 17 => SubSeq(more, 1, BlockSize) = mirror[host.arg]
    <3> SUFFICES ASSUME host.n = 17 PROVE SubSeq(more, 1, BlockSize) = mirror[host.arg]
      OBVIOUS
    <3>1. Reads /\ mirror[host.arg] \in Content
      BY <1>1, <1>2 DEF Reads, SpiTypes
    <3>2. Len(more) >= BlockSize
      BY <1>2, <1>3, <1>4, <1>7, <3>1
    <3>3. ASSUME NEW i \in 1..BlockSize PROVE mirror[host.arg][i] = more[i]
      <4>1. i \in 1..q /\ i \in Int
        BY <1>3, <1>7, <3>1
      <4>2. Reply[3 + i] = mirror[host.arg][i]
        <5> DEFINE j == 3 + i
        <5>1. j \in Nat /\ j # 1 /\ j # 2 /\ j # 3 /\ j <= 3 + BlockSize /\ j - 3 = i
          BY <1>3, <4>1
        <5> HIDE DEF j
        <5>2. Reply[j] = mirror[host.arg][i]
          BY <5>1 DEF Reply
        <5> QED BY <5>2 DEF j
      <4> QED BY <1>6, <3>1, <4>1, <4>2
    <3> QED BY <1>4, <3>1, <3>2, <3>3, ContentOf
  <2>8. Verdict(byte) = "good"
    BY <2>7 DEF Verdict, more
  <2> QED BY <1>2, <2>1, <2>2, <2>3, <2>6, <2>8, TakeEnds
<1>8. CASE q # TailSize
  <2>1. "data" \in Phase /\ host \in HostState
    BY <1>1 DEF Phase
  <2>2. /\ On("data", q) \in HostState /\ On("data", q).phase = "data" /\ On("data", q).pos = q
        /\ On("data", q).sent = FALSE /\ On("data", q).n = host.n /\ On("data", q).arg = host.arg
        /\ On("data", q).got = host.got /\ On("data", q).data = host.data /\ On("data", q).app = host.app
        /\ On("data", q).inits = host.inits
    <3>1. q \in Nat
      BY <1>3
    <3> HIDE DEF byte
    <3> QED BY <2>1, <3>1, OnIs
  <2>3. Advanced(byte) = [On("data", q) EXCEPT !.got = more]
    BY <1>5, <1>8, <2>2 DEF more, HostState
  <2> DEFINE next == Advanced(byte)
  <2>4. /\ next \in HostState /\ next.phase = "data" /\ next.pos = q /\ next.sent = FALSE /\ next.got = more
        /\ next.n = host.n /\ next.arg = host.arg /\ next.data = host.data /\ next.app = host.app
        /\ next.inits = host.inits
    <3> DEFINE h == On("data", q)
    <3> HIDE DEF h, next
    <3>1. next = [h EXCEPT !.got = more]
      BY <2>3 DEF h, next
    <3>2. /\ h \in HostState /\ h.phase = "data" /\ h.pos = q /\ h.sent = FALSE /\ h.n = host.n
          /\ h.arg = host.arg /\ h.data = host.data /\ h.app = host.app /\ h.inits = host.inits
      BY <2>2 DEF h
    <3> QED BY <1>4, <3>1, <3>2 DEF HostState
  <2>5. next.phase # "idle"
    BY <2>4
  <2>6. host' = next /\ mirror' = mirror /\ ended' = ended
    BY <2>5 DEF Take
  <2> HIDE DEF next
  <2>7. Same
    BY <2>4, <2>6 DEF Same
  <2>8. /\ Writes' = Writes /\ Reads' = Reads /\ Reply' = Reply /\ InitsAfter' = InitsAfter
        /\ ReplySize' = ReplySize
    BY <2>7, SameReply
  <2>9. Given' = Given /\ Ran' /\ Bytes' = q
    <3>1. Given' = Given
      BY <1>1, <2>8 DEF Given
    <3>2. Queued'
      BY <1>1, <1>2, <2>8, <3>1 DEF Queued, Ran
    <3>3. Ran'
      BY <1>1, <1>2, <2>7, <2>8, <3>2 DEF Ran, Same
    <3>4. Bytes' = q
      BY <2>4, <2>6 DEF Bytes
    <3> QED BY <3>1, <3>3, <3>4
  <2>10. AtRead'
    <3>1. TailSize' = TailSize
      BY <2>7 DEF TailSize, Same
    <3>2. q < TailSize
      BY <1>1, <1>2, <1>3, <1>8
    <3>3. Reads => Len(more) = q
      BY <1>2, <1>3, <1>4
    <3> QED BY <1>1, <1>2, <1>6, <2>4, <2>6, <2>8, <2>9, <3>1, <3>2, <3>3 DEF AtRead
  <2>11. PhaseInv'
    BY <2>4, <2>6, <2>10 DEF PhaseInv
  <2>12. SpiTypes' /\ EndsWell'
    BY <1>1, <2>4, <2>6 DEF SpiInv, SpiTypes, EndsWell
  <2>13. HostInv'
    BY <1>1, <2>4, <2>6 DEF SpiInv, HostInv, Owned, Writes
  <2>14. DiskInv'
    <3>1. Stored = FALSE
      BY <1>1 DEF Stored, Writes
    <3> QED BY <1>1, <2>6, <3>1 DEF SpiInv, DiskInv
  <2> QED BY <2>11, <2>12, <2>13, <2>14 DEF SpiInv
<1> QED BY <1>7, <1>8

\* Every byte in.
LEMMA TakeKeeps == ASSUME SpiAssumption, SpiInv, Take PROVE SpiInv'
<1>1. host.phase \in {"frame", "r1", "start", "token", "data", "accept"}
  BY TakeEffect DEF HostState, Phase
<1> QED BY <1>1, TakeFrame, TakeR1, TakeStart, TakeToken, TakeRead, TakeWrite, TakeAccept

\* The invariant gives the two promises.
LEMMA Promised == ASSUME SpiInv PROVE CardFaithful
<1>1. DiskAgree
  <2> SUFFICES ASSUME NEW b \in Block, card.disk[b] # mirror[b]
               PROVE  /\ host.phase \in {"data", "accept"} /\ host.n = 24 /\ host.arg = b
                      /\ card.disk[b] = host.data
    BY DEF DiskAgree
  <2>1. Stored /\ b = host.arg
    BY DEF SpiInv, DiskInv
  <2>2. CASE host.phase = "accept"
    <3>1. AtAccept
      BY <2>2 DEF SpiInv, PhaseInv
    <3> QED BY <2>1, <2>2, <3>1 DEF AtAccept, Collected, Writes
  <2>3. CASE host.phase = "data" /\ Bytes = WriteLength
    <3>1. AtWrite
      BY <2>1, <2>3 DEF SpiInv, PhaseInv, Stored, Writes
    <3> QED BY <2>1, <2>3, <3>1 DEF AtWrite, Collected, Writes
  <2> QED BY <2>1, <2>2, <2>3 DEF Stored
<1> QED BY <1>1 DEF CardFaithful, SpiInv

\* With a driver that finishes what it begins and a page that leaves the card in while it
\* does, every transaction ends well and the card holds what the driver has written:
\* exchange, run_cmd and the write phase count the bytes of a frame, of an answer
\* and of a block as the driver does, whatever the other channels, the parts and the
\* jig do on the bus meanwhile.
THEOREM CardKept ==
    ASSUME SpiAssumption, Polite
    PROVE  Spec => []CardFaithful
<1>1. Init => SpiInv
  BY SpiFirst
<1>2. SpiInv /\ [Next]_spiVars => SpiInv'
  <2> SUFFICES ASSUME SpiInv, [Next]_spiVars PROVE SpiInv'
    OBVIOUS
  <2>1. CASE UNCHANGED spiVars
    <3>1. UNCHANGED <<spi, armed, card, host, mirror, ended>>
      BY <2>1 DEF spiVars
    <3>2. spi' \in [Channel -> SpiUnit]
      BY <3>1 DEF SpiInv, SpiTypes
    <3>3. host.phase # "idle" => Host \in armed' /\ spi'[Host].mstr
      BY <3>1 DEF SpiInv, HostInv, Owned
    <3> QED BY <3>1, <3>2, <3>3, Beside
  <2>2. CASE Next
    <3>1. ASSUME NEW n \in Command, NEW arg \in Argument, NEW data \in [1..BlockSize -> DataByte],
                 Begin(n, arg, data)
          PROVE  SpiInv'
      BY <3>1, BeginKeeps
    <3>2. ASSUME NEW c \in Channel,
                 \/ \E spe, mstr \in BOOLEAN : WriteSpcr(c, spe, mstr)
                 \/ ReadSpdr(c)
                 \/ \E b \in DataByte : Transfer(c, b) \/ Stage(c, b) \/ ComponentExchange(c, b)
                 \/ \E on \in BOOLEAN : SetSdCard(c, on) \/ SetLoopback(c, on)
          PROVE  SpiInv'
      BY <3>2, BesideDriver
    <3> QED BY <2>2, <3>1, <3>2, SendKeeps, TakeKeeps DEF Next
  <2> QED BY <2>1, <2>2
<1>3. SpiInv => CardFaithful
  BY Promised
<1> QED BY <1>1, <1>2, <1>3, PTL DEF Spec
=============================================================================
