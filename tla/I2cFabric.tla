----------------------------- MODULE I2cFabric -----------------------------
(***************************************************************************)
(* The RIIC channels (peripherals/ra_i2c.rs) on the shared bus of system.rs.*)
(* A master stages bytes in ICDRT; the tick ships them, to a channel that   *)
(* offers a slave address, or to the virtual EEPROM, or to nobody.  A byte  *)
(* is a number: as an address byte, the address and the read bit.           *)
(* The events raised with the flags are left to EventRouting; START and AL,  *)
(* which nothing reads but firmware, are left out.                           *)
(***************************************************************************)
EXTENDS Integers, Sequences, FiniteSets, WellFoundedInduction, SequenceTheorems, TLAPS
LOCAL INSTANCE FiniteSetsExt

CONSTANTS
    Riic,
    RomAddress,   \* SLAVE_ADDR
    Master,       \* the channels firmware uses as masters
    Exposed,      \* the channel whose EEPROM attached parts reach
    Iccr1,        \* what firmware writes to ICCR1: [ice, rst]
    Sar,          \* what the address registers of each channel may hold, {0} of a master
    AddressByte,  \* what masters send as an address
    IicByte,     \* what is sent as data
    RomSize,      \* cells of the EEPROM; the pointer wraps
    MaxBytes,     \* bound: data bytes of one transaction
    Flags,        \* the ICSR2 flags firmware clears
    Rude          \* what firmware does against the flags

VARIABLES
    iic,       \* the registers and live state of each channel
    rom,       \* the EEPROM of each channel
    owner,     \* history: who acknowledged the address of the master's transaction
    said,      \* history: data bytes the master has shipped since
    heard,     \* history: data bytes somebody took since
    expected   \* history: where the master's transaction expects the EEPROM pointer

i2cVars == <<iic, rom, owner, said, heard, expected>>
Nothing == -1
Nobody == -1
Rom == -2

Cold == [ice |-> FALSE, rst |-> FALSE, mst |-> FALSE, sar |-> {0}, rdr |-> 0,
         readDir |-> FALSE, expectPtr |-> FALSE, eptr |-> 0,
         tdre |-> TRUE, tend |-> FALSE, rdrf |-> FALSE, nackf |-> FALSE, stop |-> FALSE,
         bbsy |-> FALSE, pending |-> Nothing, addrPhase |-> FALSE,
         fabric |-> Nothing, slaveActive |-> FALSE, slaveTx |-> FALSE]

\* IICRST: the flags and the transfer, not the pointers.
Live(u) == [u EXCEPT !.tdre = TRUE, !.tend = FALSE, !.rdrf = FALSE, !.nackf = FALSE, !.stop = FALSE,
                     !.bbsy = FALSE, !.pending = Nothing, !.addrPhase = FALSE,
                     !.fabric = Nothing, !.slaveActive = FALSE, !.slaveTx = FALSE]

I2cInit ==
    /\ iic = [c \in Riic |-> Cold]
    /\ rom = [c \in Riic |-> [cell \in 0..(RomSize - 1) |-> 0]]
    /\ owner = [c \in Riic |-> Nobody]
    /\ said = [c \in Riic |-> <<>>] /\ heard = [c \in Riic |-> <<>>]
    /\ expected = [c \in Riic |-> Nothing]

-----------------------------------------------------------------------------
(* The slave side: entry points called by a master's tick.                   *)

\* sar is the values of the three registers; one that is not used holds 0.
IsSlaveCandidate(u) == u.ice /\ ~u.mst /\ u.sar # {0}

\* slave_match: the channels that would answer, to 0 too with a register to spare; the
\* lowest does.
Answering(state, c, addr) ==
    {d \in Riic \ {c} : IsSlaveCandidate(state[d]) /\ addr \in state[d].sar}

Matched(u, read) ==
    [u EXCEPT !.slaveActive = TRUE, !.slaveTx = read, !.bbsy = TRUE, !.tdre = @ \/ read]

Stopped(u) ==
    IF IsSlaveCandidate(u)
    THEN [u EXCEPT !.slaveActive = FALSE, !.slaveTx = FALSE, !.bbsy = FALSE, !.stop = TRUE]
    ELSE u

\* Mutant: the slave is not told that its transaction ended.
ReleaseKept(state, c) == [state EXCEPT ![c].fabric = Nothing]

\* The master lets go of the slave it addressed, which sees a STOP.
Release(state, c) ==
    LET s == state[c].fabric IN
    IF s = Nothing THEN state ELSE [state EXCEPT ![c].fabric = Nothing, ![s] = Stopped(@)]

-----------------------------------------------------------------------------
(* The master's tick, on a bus b == [iic, rom, owner, said, heard, expected]. *)

Bus == [iic |-> iic, rom |-> rom, owner |-> owner, said |-> said, heard |-> heard, expected |-> expected]

NextCell(cell) == (cell + 1) % RomSize

\* ship, address phase: re-select, then ACK or NACK.
ShipAddress(b, c, byte) ==
    LET addr == byte \div 2
        read == byte % 2 = 1
        sent == [Release(b.iic, c) EXCEPT ![c].addrPhase = FALSE, ![c].readDir = read]
        answers == Answering(sent, c, addr)
        slave == Min(answers)
    IN  [b EXCEPT
          !.iic = IF answers # {}
                  THEN [sent EXCEPT ![slave] = Matched(@, read), ![c].fabric = slave, ![c].rdrf = @ \/ read]
                  ELSE IF addr = RomAddress
                  THEN [sent EXCEPT ![c].rdrf = @ \/ read, ![c].expectPtr = @ \/ ~read]
                  ELSE [sent EXCEPT ![c].nackf = TRUE],
          !.owner[c] = IF answers # {} THEN slave ELSE IF addr = RomAddress THEN Rom ELSE Nobody,
          !.said[c] = <<>>, !.heard[c] = <<>>]

\* ship, data of a write: to the addressed slave, or to the EEPROM.
ShipData(b, c, byte) ==
    LET u == b.iic[c]
        s == u.fabric
        told == [b EXCEPT !.said[c] = Append(@, byte),
                           !.heard[c] = Append(@, <<IF s = Nothing THEN Rom ELSE s, byte>>)]
    IN  IF s # Nothing
        THEN IF IsSlaveCandidate(b.iic[s])
             THEN [told EXCEPT !.iic[s].rdr = byte, !.iic[s].rdrf = TRUE]
             ELSE [told EXCEPT !.heard = b.heard]
        ELSE IF u.expectPtr
        THEN [told EXCEPT !.iic[c].eptr = byte % RomSize, !.iic[c].expectPtr = FALSE,
                          !.expected[c] = byte % RomSize]
        ELSE [told EXCEPT !.iic[c].eptr = NextCell(@), !.rom[c][u.eptr] = byte,
                          !.expected[c] = (@ + 1) % RomSize]

Shipped(b, c) ==
    LET u == b.iic[c]
        sent == [b EXCEPT !.iic[c].pending = Nothing]
        done == IF u.addrPhase THEN ShipAddress(sent, c, u.pending)
                ELSE IF u.readDir THEN sent ELSE ShipData(sent, c, u.pending)
    IN  IF u.pending = Nothing THEN b ELSE [done EXCEPT !.iic[c].tdre = TRUE, !.iic[c].tend = TRUE]

\* Mutant: a byte the master has not read is overwritten by the next.
StreamsAlways(u) == u.readDir /\ u.bbsy /\ ~u.addrPhase

\* Master-receive waits for the last byte to be read.
Streams(u) == u.readDir /\ u.bbsy /\ ~u.addrPhase /\ ~u.rdrf

\* One byte from the slave, if it staged one, or from the EEPROM.
Streamed(b, c) ==
    LET u == b.iic[c]
        s == u.fabric
    IN  IF ~Streams(u) THEN b
        ELSE IF s = Nothing
        THEN [b EXCEPT !.iic[c].rdr = b.rom[c][u.eptr], !.iic[c].rdrf = TRUE,
                       !.iic[c].eptr = NextCell(@),
                       !.expected[c] = IF @ = Nothing THEN Nothing ELSE (@ + 1) % RomSize]
        ELSE IF IsSlaveCandidate(b.iic[s]) /\ b.iic[s].pending # Nothing
        THEN [b EXCEPT !.iic[c].rdr = b.iic[s].pending, !.iic[c].rdrf = TRUE,
                       !.iic[s].pending = Nothing, !.iic[s].tdre = TRUE]
        ELSE b

\* A channel that offers an address is clocked by its master only.
Ticks(c) == iic[c].ice /\ ~iic[c].slaveActive /\ ~IsSlaveCandidate(iic[c])

Tick(c) ==
    LET b == Streamed(Shipped(Bus, c), c) IN
    /\ Ticks(c) /\ b # Bus
    /\ iic' = b.iic /\ rom' = b.rom /\ owner' = b.owner
    /\ said' = b.said /\ heard' = b.heard /\ expected' = b.expected

-----------------------------------------------------------------------------
(* Firmware.  Unless Rude says so it stages a byte when TDRE asks for one of *)
(* a transaction that was acknowledged, and stops when TEND is set.          *)

WriteIccr1(c, w) ==
    /\ iic[c].bbsy => "reset" \in Rude
    /\ LET u == IF w.rst /\ ~iic[c].rst THEN Live(iic[c]) ELSE iic[c]
       IN iic' = [iic EXCEPT ![c] = [u EXCEPT !.ice = w.ice, !.rst = w.rst]]
    /\ UNCHANGED <<rom, owner, said, heard, expected>>

WriteSar(c, addrs) ==
    /\ ~iic[c].bbsy /\ iic[c].pending = Nothing
    /\ iic' = [iic EXCEPT ![c].sar = addrs]
    /\ UNCHANGED <<rom, owner, said, heard, expected>>

\* START on a free bus enters master-transmit.
Start(c) ==
    /\ c \in Master /\ iic[c].ice /\ iic[c].sar = {0} /\ ~iic[c].bbsy
    /\ iic' = [iic EXCEPT ![c].mst = TRUE, ![c].bbsy = TRUE,
                          ![c].addrPhase = TRUE, ![c].tdre = TRUE]
    /\ owner' = [owner EXCEPT ![c] = Nobody]
    /\ said' = [said EXCEPT ![c] = <<>>] /\ heard' = [heard EXCEPT ![c] = <<>>]
    /\ UNCHANGED <<rom, expected>>

Restart(c) ==
    /\ iic[c].mst /\ iic[c].bbsy /\ (iic[c].tend \/ "restart" \in Rude)
    /\ iic' = [iic EXCEPT ![c].addrPhase = TRUE]
    /\ UNCHANGED <<rom, owner, said, heard, expected>>

Stop(c) ==
    /\ iic[c].mst /\ iic[c].bbsy /\ (iic[c].tend \/ "stop" \in Rude)
    /\ iic' = [Release(iic, c) EXCEPT ![c].bbsy = FALSE, ![c].mst = FALSE, ![c].stop = TRUE,
                                      ![c].tend = TRUE, ![c].addrPhase = FALSE]
    /\ owner' = [owner EXCEPT ![c] = Nobody]
    /\ said' = [said EXCEPT ![c] = <<>>] /\ heard' = [heard EXCEPT ![c] = <<>>]
    /\ expected' = [expected EXCEPT ![c] = Nothing]
    /\ UNCHANGED rom

\* The handler of a slave that is sent data has read what came before.
HandlerRan(c) == iic[c].fabric # Nothing => ~iic[iic[c].fabric].rdrf \/ "slow" \in Rude

\* ICDRT: the address after a START, data after an ACK, or what a slave sends.
WriteIcdrt(c, b) ==
    LET u == iic[c] IN
    /\ u.ice /\ u.tdre
    /\ \/ u.slaveTx
       \/ u.mst /\ u.addrPhase
       \/ u.mst /\ ~u.readDir /\ Len(said[c]) < MaxBytes /\ (owner[c] # Nobody \/ "nacked" \in Rude) /\ HandlerRan(c)
    /\ b \in IF u.mst /\ u.addrPhase THEN AddressByte ELSE IicByte
    /\ iic' = [iic EXCEPT ![c].pending = b, ![c].tdre = FALSE, ![c].tend = FALSE]
    /\ UNCHANGED <<rom, owner, said, heard, expected>>

\* ICSR2: a flag written 0 is cleared; TDRE clears through ICDRT.
WriteIcsr2(c, flag) ==
    /\ iic' = [iic EXCEPT ![c][flag] = FALSE] /\ iic' # iic
    /\ UNCHANGED <<rom, owner, said, heard, expected>>

ReadIcdrr(c) ==
    /\ iic[c].rdrf
    /\ iic' = [iic EXCEPT ![c].rdrf = FALSE]
    /\ UNCHANGED <<rom, owner, said, heard, expected>>

\* What an attached part's write leaves: its first byte is the pointer.
Written(c, bytes) ==
    LET written[i \in 0..Len(bytes)] ==
            IF i = 0 THEN [cells |-> rom[c], ptr |-> iic[c].eptr]
            ELSE IF i = 1 THEN [cells |-> rom[c], ptr |-> bytes[1] % RomSize]
            ELSE [cells |-> [written[i - 1].cells EXCEPT ![written[i - 1].ptr] = bytes[i]],
                  ptr |-> NextCell(written[i - 1].ptr)]
    IN  written[Len(bytes)]

\* component_exchange: an attached part uses the EEPROM of a channel by itself.
ComponentI2c(c, bytes, reads) ==
    /\ c = Exposed /\ (iic[c].bbsy => "exchange" \in Rude)
    /\ rom' = [rom EXCEPT ![c] = Written(c, bytes).cells]
    /\ iic' = [iic EXCEPT ![c].eptr = (Written(c, bytes).ptr + reads) % RomSize]
    /\ UNCHANGED <<owner, said, heard, expected>>

I2cNext == \E c \in Riic :
    \/ Tick(c)
    \/ \E w \in Iccr1 : WriteIccr1(c, w)
    \/ \E addrs \in Sar[c] : WriteSar(c, addrs)
    \/ Start(c)
    \/ Restart(c)
    \/ Stop(c)
    \/ \E b \in AddressByte \cup IicByte : WriteIcdrt(c, b)
    \/ \E flag \in Flags : WriteIcsr2(c, flag)
    \/ ReadIcdrr(c)
    \/ \E bytes \in {<<>>} \cup [1..2 -> IicByte], reads \in 0..1 : ComponentI2c(c, bytes, reads)

I2cSpec == I2cInit /\ [][I2cNext]_i2cVars

-----------------------------------------------------------------------------
(* Properties.                                                               *)

\* Every data byte a master ships is taken, in order, by who acknowledged the
\* address, and by nobody else: nothing is written for a transaction that was
\* not acknowledged.
AllHeard ==
    \A c \in Riic :
        heard[c] = IF owner[c] = Nobody THEN <<>> ELSE [i \in DOMAIN said[c] |-> <<owner[c], said[c][i]>>]

\* Master and slave agree on who talks to whom: a slave is addressed by exactly
\* the one master that holds it, so a transaction never leaves a slave behind
\* with the bus busy.
FabricAgree ==
    \A s \in Riic :
        iic[s].slaveActive <=> \E c \in Riic : iic[c].fabric = s /\ iic[c].bbsy

\* Within a transaction the EEPROM pointer is where the master's pointer write
\* and the bytes it moved since have put it.
PointerHonoured ==
    \A c \in Riic : owner[c] = Rom /\ expected[c] # Nothing => iic[c].eptr = expected[c]

\* The bus is in step: all three.
BusInStep == AllHeard /\ FabricAgree /\ PointerHonoured

\* A byte in ICDRR that firmware has not read is never overwritten, neither a master's by
\* the stream nor a slave's by its master.
NothingOverwritten ==
    [][\A c \in Riic : iic[c].rdrf /\ iic'[c].rdrf =>
         /\ iic'[c].rdr = iic[c].rdr
         /\ \A m \in Riic : Len(heard'[m]) > Len(heard[m]) => heard'[m][Len(heard'[m])][1] # c]_i2cVars

\* The slave of a transaction that goes on with a repeated START sees no STOP.
RestartSeesNoStop ==
    [][\A c, s \in Riic :
         iic[c].fabric = s /\ iic'[c].bbsy /\ ~iic[s].stop => ~iic'[s].stop]_i2cVars

-----------------------------------------------------------------------------
(* Theorems, for any channels, EEPROM and bytes, of one master at a time.    *)

I2cAssumption ==
    /\ Riic \subseteq Nat /\ RomSize \in Nat \ {0}
    /\ AddressByte \subseteq Nat /\ IicByte \subseteq Nat /\ \A c \in Riic : Sar[c] \subseteq SUBSET Nat
    /\ Iccr1 \subseteq [ice : BOOLEAN, rst : BOOLEAN]
    /\ Flags \subseteq {"tend", "rdrf", "nackf", "stop"}

\* Firmware waits for the flags, and one channel at a time is the master of the bus.
Careful == Rude = {}
OneMaster == \A c, d \in Master : c = d

\* The registers of a channel.
Unit ==
    [ice : BOOLEAN, rst : BOOLEAN, mst : BOOLEAN, sar : SUBSET Nat, rdr : Int,
     readDir : BOOLEAN, expectPtr : BOOLEAN, eptr : Int,
     tdre : BOOLEAN, tend : BOOLEAN, rdrf : BOOLEAN, nackf : BOOLEAN, stop : BOOLEAN,
     bbsy : BOOLEAN, pending : Int, addrPhase : BOOLEAN,
     fabric : Int, slaveActive : BOOLEAN, slaveTx : BOOLEAN]

BusState ==
    [iic : [Riic -> Unit], rom : [Riic -> [0..(RomSize - 1) -> Int]], owner : [Riic -> Int],
     said : [Riic -> Seq(Int)], heard : [Riic -> Seq(Int \X Int)], expected : [Riic -> Int]]

\* A channel by itself: u its registers, o who acknowledged its address, x where its
\* transaction expects the pointer.
ChannelInv(c, u, o, x) ==
    /\ u.eptr \in 0..(RomSize - 1)
    /\ u.mst => c \in Master /\ u.bbsy /\ u.ice /\ u.sar = {0}
    /\ u.bbsy => u.mst \/ u.slaveActive
    /\ u.slaveActive => u.bbsy /\ IsSlaveCandidate(u)
    /\ u.slaveTx => u.slaveActive
    /\ u.tend => u.pending = Nothing
    /\ u.pending # Nothing => u.mst \/ u.sar # {0}
    /\ u.mst => u.fabric = IF o = Rom THEN Nothing ELSE o
    /\ ~u.mst => u.fabric = Nothing /\ o = Nobody /\ x = Nothing
    /\ u.mst /\ u.pending # Nothing /\ ~u.addrPhase => ~u.readDir /\ o # Nobody
    /\ u.mst /\ o = Rom /\ ~u.readDir => u.expectPtr \/ x # Nothing
    /\ x # Nothing => u.eptr = x

\* What has been heard of a transaction is what was said, by who acknowledged it.
HeardBy(o, sd, hd) == hd = IF o = Nobody THEN <<>> ELSE [i \in DOMAIN sd |-> <<o, sd[i]>>]

Channels(b) ==
    \A c \in Riic : /\ ChannelInv(c, b.iic[c], b.owner[c], b.expected[c])
                       /\ HeardBy(b.owner[c], b.said[c], b.heard[c])

\* A slave is active exactly while a master holds it.
LinksOf(s) ==
    /\ \A c \in Riic : s[c].fabric # Nothing => s[c].fabric \in Riic \ {c} /\ s[s[c].fabric].slaveActive
    /\ \A e \in Riic : s[e].slaveActive => \E c \in Riic : s[c].fabric = e

\* Every channel keeps its part, and the links between them.
BusInv(b) == b \in BusState /\ Channels(b) /\ LinksOf(b.iic)

I2cInv == BusInv(Bus)

\* The least of some numbers.
LEMMA MinOf ==
    ASSUME NEW S \in SUBSET Nat, S # {}
    PROVE  Min(S) \in S
<1>1. PICK m \in S : \A y \in S : ~(<<y, m>> \in OpToRel(<, Nat))
  BY NatLessThanWellFounded, WFMin
<1>2. \A y \in S : ~(y < m)
  BY <1>1 DEF OpToRel
<1>3. \A y \in S : m <= y
  BY <1>2
<1> QED
  BY <1>3 DEF Min

\* Who is told one byte more.
LEMMA HeardMore ==
    ASSUME NEW o \in Int, o # Nobody, NEW sd \in Seq(Int), NEW hd, HeardBy(o, sd, hd), NEW byte \in Int
    PROVE  HeardBy(o, Append(sd, byte), Append(hd, <<o, byte>>))
<1>1. hd = [i \in 1..Len(sd) |-> <<o, sd[i]>>] /\ Len(sd) \in Nat
  BY DEF HeardBy
<1>2. hd \in Seq(Int \X Int) /\ Len(hd) = Len(sd)
  BY <1>1
<1>3. DOMAIN Append(sd, byte) = 1..(Len(sd) + 1)
  BY <1>1
<1>4. Append(hd, <<o, byte>>) = [i \in 1..(Len(sd) + 1) |-> <<o, Append(sd, byte)[i]>>]
  BY <1>1, <1>2
<1> QED
  BY <1>3, <1>4 DEF HeardBy

\* Nobody has been told anything when nothing has been said.
LEMMA HeardNone ==
    ASSUME NEW o
    PROVE  HeardBy(o, <<>>, <<>>)
BY DEF HeardBy

\* A master that lets go leaves no slave active.
LEMMA Released ==
    ASSUME I2cAssumption, OneMaster, NEW b, BusInv(b), NEW c \in Riic, b.iic[c].mst,
           NEW r, r = Release(b.iic, c)
    PROVE  /\ r \in [Riic -> Unit]
           /\ \A e \in Riic : ~r[e].slaveActive /\ r[e].fabric = Nothing
           /\ r[c] = [b.iic[c] EXCEPT !.fabric = Nothing]
           /\ \A e \in Riic \ {c} :
                ChannelInv(e, r[e], b.owner[e], b.expected[e])
<1>1. b.iic \in [Riic -> Unit] /\ Channels(b) /\ LinksOf(b.iic) /\ b \in BusState
  BY DEF BusInv, BusState
<1>2. \A e \in Riic : b.iic[e].mst => e = c
  BY <1>1 DEF Channels, ChannelInv, OneMaster
<1>3. \A e \in Riic \ {c} : b.iic[e].fabric = Nothing
  BY <1>1, <1>2 DEF Channels, ChannelInv
<1>4. \A e \in Riic : b.iic[e].slaveActive => b.iic[c].fabric = e
  <2> TAKE e \in Riic
  <2> HAVE b.iic[e].slaveActive
  <2>1. PICK d \in Riic : b.iic[d].fabric = e
    BY <1>1 DEF LinksOf
  <2>2. e # Nothing
    BY DEF I2cAssumption, Nothing
  <2> QED BY <1>3, <2>1, <2>2
<1> DEFINE s == b.iic[c].fabric
<1>5. CASE s = Nothing
  <2>1. r = b.iic
    BY <1>5 DEF Release
  <2>2. \A e \in Riic : ~b.iic[e].slaveActive
    BY <1>4, <1>5 DEF I2cAssumption, Nothing
  <2>3. b.iic[c] = [b.iic[c] EXCEPT !.fabric = Nothing]
    <3>1. b.iic[c] \in Unit
      BY <1>1
    <3> QED BY <1>5, <3>1 DEF Unit
  <2> QED BY <1>1, <1>3, <1>5, <2>1, <2>2, <2>3 DEF Channels
<1>6. CASE s # Nothing
  <2>1. s \in Riic /\ s # c /\ b.iic[s].slaveActive /\ IsSlaveCandidate(b.iic[s])
    BY <1>1, <1>6 DEF LinksOf, Channels, ChannelInv
  <2>2. Stopped(b.iic[s]) = [b.iic[s] EXCEPT !.slaveActive = FALSE, !.slaveTx = FALSE, !.bbsy = FALSE, !.stop = TRUE]
    BY <2>1 DEF Stopped
  <2> HIDE DEF s
  <2>3. r = [b.iic EXCEPT ![c].fabric = Nothing, ![s] = Stopped(@)]
    BY <1>6 DEF Release, s
  <2>4. /\ r[c] = [b.iic[c] EXCEPT !.fabric = Nothing] /\ r[s] = Stopped(b.iic[s])
        /\ \A e \in Riic \ {c, s} : r[e] = b.iic[e]
    BY <1>1, <2>1, <2>3
  <2>5. r[c] \in Unit /\ r[c].fabric = Nothing /\ r[c].slaveActive = b.iic[c].slaveActive
    <3>1. b.iic[c] \in Unit /\ Nothing \in Int
      BY <1>1 DEF Nothing
    <3> QED BY <2>4, <3>1 DEF Unit
  <2>6. r[s] \in Unit /\ r[s].fabric = b.iic[s].fabric /\ ~r[s].slaveActive
    <3>1. b.iic[s] \in Unit
      BY <1>1, <2>1
    <3>2. r[s] = [b.iic[s] EXCEPT !.slaveActive = FALSE, !.slaveTx = FALSE, !.bbsy = FALSE, !.stop = TRUE]
      BY <2>2, <2>4
    <3> DEFINE u == b.iic[s]
               v == r[s]
    <3> HIDE DEF u, v
    <3>3. u \in Unit /\ v = [u EXCEPT !.slaveActive = FALSE, !.slaveTx = FALSE, !.bbsy = FALSE, !.stop = TRUE]
      BY <3>1, <3>2 DEF u, v
    <3>4. v \in Unit
      BY <3>3 DEF Unit
    <3>5. v.fabric = u.fabric /\ ~v.slaveActive
      BY <3>3 DEF Unit
    <3> QED BY <3>4, <3>5 DEF u, v
  <2>7. r \in [Riic -> Unit]
    <3>1. DOMAIN r = Riic /\ r = [e \in Riic |-> r[e]]
      BY <1>1, <2>3
    <3> QED BY <1>1, <2>4, <2>5, <2>6, <3>1
  <2>8. ~b.iic[c].slaveActive
    BY <1>4, <2>1 DEF s
  <2>9. \A e \in Riic : ~r[e].slaveActive /\ r[e].fabric = Nothing
    <3> TAKE e \in Riic
    <3>1. CASE e = c
      BY <2>5, <2>8, <3>1
    <3>2. CASE e = s
      BY <1>3, <2>1, <2>6, <3>2
    <3>3. CASE e # c /\ e # s
      BY <1>3, <1>4, <2>4, <3>3 DEF s
    <3> QED BY <3>1, <3>2, <3>3
  <2>10. ChannelInv(s, r[s], b.owner[s], b.expected[s])
    <3>1. b.iic[s] \in Unit /\ ChannelInv(s, b.iic[s], b.owner[s], b.expected[s]) /\ ~b.iic[s].mst
      BY <1>1, <1>2, <2>1 DEF Channels
    <3>2. /\ r[s].eptr = b.iic[s].eptr /\ r[s].mst = b.iic[s].mst /\ ~r[s].bbsy /\ ~r[s].slaveActive /\ ~r[s].slaveTx
          /\ r[s].tend = b.iic[s].tend /\ r[s].pending = b.iic[s].pending /\ r[s].sar = b.iic[s].sar
          /\ r[s].fabric = b.iic[s].fabric
      BY <2>2, <2>4, <3>1 DEF Unit
    <3> QED BY <3>1, <3>2 DEF ChannelInv
  <2> QED BY <1>1, <2>4, <2>7, <2>9, <2>10 DEF Channels
<1> QED
  BY <1>5, <1>6

\* What leaves every link alone keeps the bus in step when it keeps the channels.
LEMMA SameLinks ==
    ASSUME NEW b, BusInv(b), NEW d \in BusState, Channels(d),
           \A e \in Riic : d.iic[e].fabric = b.iic[e].fabric /\ d.iic[e].slaveActive = b.iic[e].slaveActive
    PROVE  BusInv(d)
<1>1. LinksOf(b.iic)
  BY DEF BusInv
<1>2. ASSUME NEW e \in Riic, d.iic[e].fabric # Nothing
      PROVE  d.iic[e].fabric \in Riic \ {e} /\ d.iic[d.iic[e].fabric].slaveActive
  BY <1>1, <1>2 DEF LinksOf
<1>3. ASSUME NEW e \in Riic, d.iic[e].slaveActive
      PROVE  \E m \in Riic : d.iic[m].fabric = e
  BY <1>1, <1>3 DEF LinksOf
<1> QED
  BY <1>2, <1>3 DEF BusInv, LinksOf

\* What one channel does with its own registers and bytes.
LEMMA OneChannel ==
    ASSUME NEW b, BusInv(b), NEW d \in BusState, NEW c \in Riic,
           d.iic[c].fabric = b.iic[c].fabric, d.iic[c].slaveActive = b.iic[c].slaveActive,
           ChannelInv(c, d.iic[c], d.owner[c], d.expected[c]), HeardBy(d.owner[c], d.said[c], d.heard[c]),
           \A e \in Riic \ {c} :
             /\ d.iic[e] = b.iic[e] /\ d.owner[e] = b.owner[e] /\ d.expected[e] = b.expected[e]
             /\ d.said[e] = b.said[e] /\ d.heard[e] = b.heard[e]
    PROVE  BusInv(d)
<1>1. Channels(b)
  BY DEF BusInv
<1>2. Channels(d)
  <2> SUFFICES ASSUME NEW e \in Riic
               PROVE  ChannelInv(e, d.iic[e], d.owner[e], d.expected[e]) /\ HeardBy(d.owner[e], d.said[e], d.heard[e])
    BY DEF Channels
  <2>1. CASE e = c
    BY <2>1
  <2>2. CASE e # c
    BY <1>1, <2>2 DEF Channels
  <2> QED BY <2>1, <2>2
<1>3. \A e \in Riic : d.iic[e].fabric = b.iic[e].fabric /\ d.iic[e].slaveActive = b.iic[e].slaveActive
  OBVIOUS
<1> QED
  BY <1>2, <1>3, SameLinks

\* The address of a transaction finds its slave, the EEPROM or nobody.
LEMMA ShipAddressKeeps ==
    ASSUME I2cAssumption, OneMaster, NEW b, BusInv(b), NEW c \in Riic, b.iic[c].mst,
           b.iic[c].pending = Nothing, NEW byte \in Int
    PROVE  LET d == ShipAddress(b, c, byte)
           IN  BusInv(d) /\ d.iic[c].mst /\ d.iic[c].pending = Nothing
<1> DEFINE addr == byte \div 2
           read == (byte % 2 = 1)
           r == Release(b.iic, c)
           sent == [r EXCEPT ![c].addrPhase = FALSE, ![c].readDir = read]
           answers == Answering(sent, c, addr)
           slave == Min(answers)
           d == ShipAddress(b, c, byte)
           o == IF answers # {} THEN slave ELSE IF addr = RomAddress THEN Rom ELSE Nobody
           iic2 == IF answers # {}
                  THEN [sent EXCEPT ![slave] = Matched(@, read), ![c].fabric = slave, ![c].rdrf = @ \/ read]
                  ELSE IF addr = RomAddress
                  THEN [sent EXCEPT ![c].rdrf = @ \/ read, ![c].expectPtr = @ \/ ~read]
                  ELSE [sent EXCEPT ![c].nackf = TRUE]
<1>1. read \in BOOLEAN
  OBVIOUS
<1>2. /\ r \in [Riic -> Unit]
      /\ \A e \in Riic : ~r[e].slaveActive /\ r[e].fabric = Nothing
      /\ r[c] = [b.iic[c] EXCEPT !.fabric = Nothing]
      /\ \A e \in Riic \ {c} : ChannelInv(e, r[e], b.owner[e], b.expected[e])
  BY Released
<1>3. d = [b EXCEPT !.iic = iic2, !.owner[c] = o, !.said[c] = <<>>, !.heard[c] = <<>>]
  BY DEF ShipAddress
<1> HIDE DEF d, read, r, addr
<1>4. sent \in [Riic -> Unit] /\ sent[c] = [b.iic[c] EXCEPT !.fabric = Nothing, !.addrPhase = FALSE, !.readDir = read]
      /\ \A e \in Riic \ {c} : sent[e] = r[e]
  <2>1. b.iic[c] \in Unit
    BY DEF BusInv, BusState
  <2>2. r[c].fabric = Nothing /\ r[c] \in Unit
    BY <1>2
  <2>3. sent = [r EXCEPT ![c] = [r[c] EXCEPT !.addrPhase = FALSE, !.readDir = read]]
    BY <1>2
  <2>4. [r[c] EXCEPT !.addrPhase = FALSE, !.readDir = read] \in Unit
    BY <1>1, <2>2 DEF Unit
  <2>5. [r[c] EXCEPT !.addrPhase = FALSE, !.readDir = read] = [b.iic[c] EXCEPT !.fabric = Nothing, !.addrPhase = FALSE, !.readDir = read]
    BY <1>2, <2>1 DEF Unit
  <2> HIDE DEF sent
  <2> QED BY <1>2, <2>3, <2>4, <2>5
<1> HIDE DEF sent
<1> DEFINE u == b.iic[c]
<1>5. u \in Unit /\ ChannelInv(c, u, b.owner[c], b.expected[c]) /\ u.mst /\ u.pending = Nothing
  BY DEF BusInv, BusState, Channels
<1> HIDE DEF u
<1>6. /\ sent[c].mst /\ sent[c].pending = Nothing /\ ~sent[c].addrPhase /\ sent[c].readDir = read
      /\ sent[c].eptr = u.eptr /\ sent[c].bbsy = u.bbsy /\ sent[c].ice = u.ice /\ sent[c].sar = u.sar
      /\ sent[c].slaveActive = u.slaveActive /\ sent[c].slaveTx = u.slaveTx /\ sent[c].tend = u.tend
      /\ sent[c].expectPtr = u.expectPtr /\ sent[c].fabric = Nothing
  BY <1>4, <1>5 DEF Unit, u
<1>7. u.slaveActive = FALSE /\ u.slaveTx = FALSE
  BY <1>5 DEF ChannelInv, IsSlaveCandidate, Unit
<1> DEFINE Good(s, w) ==
             /\ s \in [Riic -> Unit] /\ LinksOf(s) /\ w \in Int
             /\ s[c].mst /\ s[c].pending = Nothing
             /\ ChannelInv(c, s[c], w, b.expected[c])
             /\ \A e \in Riic \ {c} : ChannelInv(e, s[e], b.owner[e], b.expected[e])
<1>8. ASSUME answers # {}
      PROVE  Good(iic2, o)
  <2>1. answers \in SUBSET Nat
    BY DEF Answering, I2cAssumption
  <2>2. slave \in answers
    BY <1>8, <2>1, MinOf
  <2>3. slave \in Riic /\ slave # c /\ IsSlaveCandidate(sent[slave]) /\ slave \in Nat
    BY <2>1, <2>2 DEF Answering
  <2> HIDE DEF answers
  <2> DEFINE q == slave
  <2>4. iic2 = [sent EXCEPT ![q] = Matched(@, read), ![c].fabric = q, ![c].rdrf = @ \/ read] /\ o = q
    BY <1>8
  <2>5. q \in Riic /\ q # c /\ IsSlaveCandidate(sent[q]) /\ q \in Nat
    BY <2>3
  <2> HIDE DEF q, iic2, o
  <2>6. /\ iic2[q] = Matched(sent[q], read)
        /\ iic2[c] = [sent[c] EXCEPT !.fabric = q, !.rdrf = @ \/ read]
        /\ \A e \in Riic \ {c, q} : iic2[e] = sent[e]
        /\ DOMAIN iic2 = Riic /\ iic2 = [e \in Riic |-> iic2[e]]
    BY <1>4, <2>4, <2>5
  <2>7. sent[c] \in Unit /\ sent[q] \in Unit
    BY <1>4, <2>5
  <2>8. iic2[c] \in Unit
    <3>1. (sent[c].rdrf \/ read) \in BOOLEAN /\ q \in Int
      BY <2>5
    <3> QED BY <2>6, <2>7, <3>1, ZenonT(60) DEF Unit
  <2>9. /\ iic2[c].mst /\ iic2[c].pending = Nothing /\ ~iic2[c].addrPhase /\ iic2[c].readDir = read
        /\ iic2[c].eptr = u.eptr /\ iic2[c].bbsy = u.bbsy /\ iic2[c].ice = u.ice /\ iic2[c].sar = u.sar
        /\ iic2[c].slaveActive = FALSE /\ iic2[c].slaveTx = FALSE /\ iic2[c].tend = u.tend
        /\ iic2[c].expectPtr = u.expectPtr /\ iic2[c].fabric = q
    BY <1>6, <1>7, <2>6, <2>7 DEF Unit
  <2>10. iic2[q] = [sent[q] EXCEPT !.slaveActive = TRUE, !.slaveTx = read, !.bbsy = TRUE, !.tdre = @ \/ read]
    BY <2>6 DEF Matched
  <2>11. iic2[q] \in Unit
    <3> DEFINE v == sent[q]
               full == v.tdre \/ read
    <3>1. full \in BOOLEAN /\ v \in Unit
      BY <2>7
    <3>2. iic2[q] = [v EXCEPT !.slaveActive = TRUE, !.slaveTx = read, !.bbsy = TRUE, !.tdre = full]
      BY <2>10
    <3> HIDE DEF v, full
    <3> QED BY <1>1, <3>1, <3>2, ZenonT(60) DEF Unit
  <2>12. /\ iic2[q].mst = sent[q].mst /\ iic2[q].pending = sent[q].pending /\ iic2[q].eptr = sent[q].eptr
         /\ iic2[q].bbsy = TRUE /\ iic2[q].slaveActive = TRUE /\ iic2[q].ice = sent[q].ice /\ iic2[q].sar = sent[q].sar
         /\ iic2[q].tend = sent[q].tend /\ iic2[q].fabric = sent[q].fabric
    BY <2>7, <2>10 DEF Unit
  <2>13. iic2 \in [Riic -> Unit]
    BY <1>4, <2>6, <2>8, <2>11
  <2>14. ChannelInv(c, iic2[c], o, b.expected[c])
    <3>1. o = q /\ q # Rom /\ q # Nobody
      BY <2>4, <2>5 DEF Rom, Nobody
    <3>2. ChannelInv(c, u, b.owner[c], b.expected[c]) /\ u.mst
      BY <1>5
    <3> QED BY <2>9, <3>1, <3>2 DEF ChannelInv
  <2>15. ChannelInv(q, iic2[q], b.owner[q], b.expected[q])
    <3>1. ChannelInv(q, sent[q], b.owner[q], b.expected[q])
      BY <1>2, <1>4, <2>5
    <3> QED BY <2>5, <2>12, <3>1 DEF ChannelInv, IsSlaveCandidate
  <2>16. \A e \in Riic \ {c} : ChannelInv(e, iic2[e], b.owner[e], b.expected[e])
    BY <1>2, <1>4, <2>6, <2>15
  <2>17. LinksOf(iic2)
    <3>1. \A e \in Riic \ {c, q} : iic2[e].fabric = Nothing /\ ~iic2[e].slaveActive
      BY <1>2, <1>4, <2>6
    <3>2. iic2[q].fabric = Nothing
      BY <1>2, <1>4, <2>5, <2>12
    <3> QED BY <2>5, <2>9, <2>12, <3>1, <3>2 DEF LinksOf
  <2>18. o \in Int
    BY <2>4, <2>5
  <2> QED BY <2>9, <2>13, <2>14, <2>16, <2>17, <2>18
<1>9. ASSUME answers = {}, addr = RomAddress
      PROVE  Good(iic2, o)
  <2>1. iic2 = [sent EXCEPT ![c].rdrf = @ \/ read, ![c].expectPtr = @ \/ ~read] /\ o = Rom
    BY <1>9
  <2> HIDE DEF iic2, o, answers
  <2>2. /\ iic2[c] = [sent[c] EXCEPT !.rdrf = @ \/ read, !.expectPtr = @ \/ ~read]
        /\ \A e \in Riic \ {c} : iic2[e] = r[e]
        /\ DOMAIN iic2 = Riic /\ iic2 = [e \in Riic |-> iic2[e]]
    BY <1>4, <2>1
  <2>3. sent[c] \in Unit
    BY <1>4
  <2>4. iic2[c] \in Unit
    <3>1. (sent[c].rdrf \/ read) \in BOOLEAN /\ (sent[c].expectPtr \/ ~read) \in BOOLEAN
      OBVIOUS
    <3> QED BY <2>2, <2>3, <3>1, ZenonT(60) DEF Unit
  <2>5. /\ iic2[c].mst /\ iic2[c].pending = Nothing /\ ~iic2[c].addrPhase /\ iic2[c].readDir = read
        /\ iic2[c].eptr = u.eptr /\ iic2[c].bbsy = u.bbsy /\ iic2[c].ice = u.ice /\ iic2[c].sar = u.sar
        /\ iic2[c].slaveActive = FALSE /\ iic2[c].slaveTx = FALSE /\ iic2[c].tend = u.tend
        /\ iic2[c].expectPtr = (u.expectPtr \/ ~read) /\ iic2[c].fabric = Nothing
    BY <1>6, <1>7, <2>2, <2>3 DEF Unit
  <2>6. ChannelInv(c, iic2[c], o, b.expected[c])
    <3>1. ChannelInv(c, u, b.owner[c], b.expected[c]) /\ u.mst
      BY <1>5
    <3>2. o # Nobody
      BY <2>1 DEF Rom, Nobody
    <3> QED BY <2>1, <2>5, <3>1, <3>2 DEF ChannelInv
  <2>7. iic2 \in [Riic -> Unit]
    BY <1>2, <2>2, <2>4
  <2>8. LinksOf(iic2)
    <3>1. \A e \in Riic : iic2[e].fabric = Nothing /\ ~iic2[e].slaveActive
      <4> TAKE e \in Riic
      <4>1. CASE e = c
        BY <2>5, <4>1
      <4>2. CASE e # c
        BY <1>2, <2>2, <4>2
      <4> QED BY <4>1, <4>2
    <3> QED BY <3>1 DEF LinksOf
  <2>9. o \in Int
    BY <2>1 DEF Rom
  <2>10. \A e \in Riic \ {c} : ChannelInv(e, iic2[e], b.owner[e], b.expected[e])
    BY <1>2, <2>2
  <2> QED BY <2>5, <2>6, <2>7, <2>8, <2>9, <2>10
<1>10. ASSUME answers = {}, addr # RomAddress
       PROVE  Good(iic2, o)
  <2>1. iic2 = [sent EXCEPT ![c].nackf = TRUE] /\ o = Nobody
    BY <1>10
  <2> HIDE DEF iic2, o, answers
  <2>2. /\ iic2[c] = [sent[c] EXCEPT !.nackf = TRUE]
        /\ \A e \in Riic \ {c} : iic2[e] = r[e]
        /\ DOMAIN iic2 = Riic /\ iic2 = [e \in Riic |-> iic2[e]]
    BY <1>4, <2>1
  <2>3. sent[c] \in Unit
    BY <1>4
  <2>4. iic2[c] \in Unit
    BY <2>2, <2>3 DEF Unit
  <2>5. /\ iic2[c].mst /\ iic2[c].pending = Nothing /\ ~iic2[c].addrPhase /\ iic2[c].readDir = read
        /\ iic2[c].eptr = u.eptr /\ iic2[c].bbsy = u.bbsy /\ iic2[c].ice = u.ice /\ iic2[c].sar = u.sar
        /\ iic2[c].slaveActive = FALSE /\ iic2[c].slaveTx = FALSE /\ iic2[c].tend = u.tend
        /\ iic2[c].fabric = Nothing
    BY <1>6, <1>7, <2>2, <2>3 DEF Unit
  <2>6. ChannelInv(c, iic2[c], o, b.expected[c])
    <3>1. ChannelInv(c, u, b.owner[c], b.expected[c]) /\ u.mst
      BY <1>5
    <3>2. o = Nothing /\ o # Rom
      BY <2>1 DEF Rom, Nobody, Nothing
    <3> QED BY <2>5, <3>1, <3>2 DEF ChannelInv
  <2>7. iic2 \in [Riic -> Unit]
    BY <1>2, <2>2, <2>4
  <2>8. LinksOf(iic2)
    <3>1. \A e \in Riic : iic2[e].fabric = Nothing /\ ~iic2[e].slaveActive
      <4> TAKE e \in Riic
      <4>1. CASE e = c
        BY <2>5, <4>1
      <4>2. CASE e # c
        BY <1>2, <2>2, <4>2
      <4> QED BY <4>1, <4>2
    <3> QED BY <3>1 DEF LinksOf
  <2>9. o \in Int
    BY <2>1 DEF Nobody
  <2>10. \A e \in Riic \ {c} : ChannelInv(e, iic2[e], b.owner[e], b.expected[e])
    BY <1>2, <2>2
  <2> QED BY <2>5, <2>6, <2>7, <2>8, <2>9, <2>10
<1>11. Good(iic2, o)
  BY <1>8, <1>9, <1>10
<1> HIDE DEF iic2, o
<1>12. b \in BusState
  BY DEF BusInv
<1>13. /\ d.iic = iic2 /\ d.owner = [b.owner EXCEPT ![c] = o] /\ d.said = [b.said EXCEPT ![c] = <<>>]
       /\ d.heard = [b.heard EXCEPT ![c] = <<>>] /\ d.expected = b.expected
  BY <1>3, <1>12 DEF BusState
<1>14. d \in BusState
  <2>1. d.owner \in [Riic -> Int] /\ d.said \in [Riic -> Seq(Int)] /\ d.heard \in [Riic -> Seq(Int \X Int)]
    BY <1>11, <1>12, <1>13 DEF BusState
  <2> QED BY <1>3, <1>11, <1>12, <1>13, <2>1 DEF BusState
<1>15. Channels(d)
  <2> SUFFICES ASSUME NEW e \in Riic
               PROVE  ChannelInv(e, d.iic[e], d.owner[e], d.expected[e]) /\ HeardBy(d.owner[e], d.said[e], d.heard[e])
    BY DEF Channels
  <2>1. CASE e = c
    <3>1. d.owner[e] = o /\ d.said[e] = <<>> /\ d.heard[e] = <<>> /\ d.iic[e] = iic2[c] /\ d.expected[e] = b.expected[c]
      BY <1>12, <1>13, <2>1 DEF BusState
    <3> QED BY <1>11, <2>1, <3>1, HeardNone
  <2>2. CASE e # c
    <3>1. d.owner[e] = b.owner[e] /\ d.said[e] = b.said[e] /\ d.heard[e] = b.heard[e] /\ d.iic[e] = iic2[e] /\ d.expected[e] = b.expected[e]
      BY <1>12, <1>13, <2>2 DEF BusState
    <3>2. HeardBy(b.owner[e], b.said[e], b.heard[e])
      BY DEF BusInv, Channels
    <3> QED BY <1>11, <2>2, <3>1, <3>2
  <2> QED BY <2>1, <2>2
<1> QED
  BY <1>11, <1>13, <1>14, <1>15 DEF BusInv, d

\* A data byte reaches who acknowledged the address, slave or EEPROM.
LEMMA ShipDataKeeps ==
    ASSUME I2cAssumption, NEW b, BusInv(b), NEW c \in Riic, b.iic[c].mst, b.iic[c].pending = Nothing,
           ~b.iic[c].readDir, b.owner[c] # Nobody, NEW byte \in Int
    PROVE  LET d == ShipData(b, c, byte)
           IN  BusInv(d) /\ d.iic[c].mst /\ d.iic[c].pending = Nothing
<1> DEFINE u == b.iic[c]
           s == u.fabric
           o == b.owner[c]
           x == b.expected[c]
           d == ShipData(b, c, byte)
           taken == <<IF s = Nothing THEN Rom ELSE s, byte>>
           told == [b EXCEPT !.said[c] = Append(@, byte), !.heard[c] = Append(@, taken)]
<1>1. b \in BusState /\ Channels(b) /\ LinksOf(b.iic)
  BY DEF BusInv
<1>2. u \in Unit /\ ChannelInv(c, u, o, x) /\ u.mst /\ u.pending = Nothing /\ ~u.readDir /\ o # Nobody /\ o \in Int
  BY <1>1 DEF Channels, BusState
<1>3. s = IF o = Rom THEN Nothing ELSE o
  BY <1>2 DEF ChannelInv
<1>4. taken = <<o, byte>>
  BY <1>2, <1>3 DEF Nobody, Nothing
<1>5. HeardBy(o, Append(b.said[c], byte), Append(b.heard[c], taken))
  <2>1. HeardBy(o, b.said[c], b.heard[c]) /\ b.said[c] \in Seq(Int)
    BY <1>1 DEF Channels, BusState
  <2> QED BY <1>2, <1>4, <2>1, HeardMore
<1> DEFINE said2 == [b.said EXCEPT ![c] = Append(@, byte)]
           heard2 == [b.heard EXCEPT ![c] = Append(@, taken)]
<1>6. /\ told.iic = b.iic /\ told.rom = b.rom /\ told.owner = b.owner /\ told.said = said2
      /\ told.heard = heard2 /\ told.expected = b.expected /\ told \in BusState
  <2>1. said2 \in [Riic -> Seq(Int)]
    BY <1>1 DEF BusState
  <2>2. heard2 \in [Riic -> Seq(Int \X Int)]
    BY <1>1, <1>2, <1>4 DEF BusState
  <2>3. told = [b EXCEPT !.said = said2, !.heard = heard2]
    BY <1>1 DEF BusState
  <2> HIDE DEF said2, heard2, told
  <2> QED BY <1>1, <2>1, <2>2, <2>3 DEF BusState
<1>7. /\ told.said[c] = Append(b.said[c], byte) /\ told.heard[c] = Append(b.heard[c], taken)
      /\ \A e \in Riic \ {c} : told.said[e] = b.said[e] /\ told.heard[e] = b.heard[e]
  <2>1. said2[c] = Append(b.said[c], byte) /\ \A e \in Riic \ {c} : said2[e] = b.said[e]
    BY <1>1 DEF BusState
  <2>2. heard2[c] = Append(b.heard[c], taken) /\ \A e \in Riic \ {c} : heard2[e] = b.heard[e]
    BY <1>1 DEF BusState
  <2> HIDE DEF said2, heard2, told
  <2> QED BY <1>6, <2>1, <2>2
<1>8. /\ s # Nothing => d = IF IsSlaveCandidate(b.iic[s])
                         THEN [told EXCEPT !.iic[s].rdr = byte, !.iic[s].rdrf = TRUE]
                         ELSE [told EXCEPT !.heard = b.heard]
      /\ s = Nothing /\ u.expectPtr => d = [told EXCEPT !.iic[c].eptr = byte % RomSize, !.iic[c].expectPtr = FALSE,
                                                     !.expected[c] = byte % RomSize]
      /\ s = Nothing /\ ~u.expectPtr => d = [told EXCEPT !.iic[c].eptr = NextCell(@), !.rom[c][u.eptr] = byte,
                                                      !.expected[c] = (@ + 1) % RomSize]
  BY DEF ShipData
<1> HIDE DEF told, taken, d
<1>9. CASE s # Nothing
  <2>1. s \in Riic /\ s # c /\ b.iic[s].slaveActive /\ IsSlaveCandidate(b.iic[s])
    BY <1>1, <1>9 DEF LinksOf, Channels, ChannelInv
  <2>2. b.iic[s] \in Unit
    BY <1>1, <2>1 DEF BusState
  <2> HIDE DEF s
  <2>3. d = [told EXCEPT !.iic[s].rdr = byte, !.iic[s].rdrf = TRUE]
    BY <1>8, <1>9, <2>1
  <2> DEFINE v == [b.iic[s] EXCEPT !.rdr = byte, !.rdrf = TRUE]
             units == [b.iic EXCEPT ![s] = v]
  <2>4. v \in Unit
    BY <2>2 DEF Unit
  <2>5. /\ v.fabric = b.iic[s].fabric /\ v.slaveActive = b.iic[s].slaveActive
        /\ \A w, y : ChannelInv(s, b.iic[s], w, y) => ChannelInv(s, v, w, y)
    BY <2>2 DEF Unit, ChannelInv, IsSlaveCandidate
  <2> HIDE DEF v
  <2>6. units \in [Riic -> Unit] /\ units[s] = v /\ \A e \in Riic \ {s} : units[e] = b.iic[e]
    BY <1>1, <2>1, <2>4 DEF BusState
  <2>7. d = [told EXCEPT !.iic = units]
    BY <1>1, <1>6, <2>1, <2>3, ZenonT(60) DEF BusState, v
  <2> HIDE DEF units, said2, heard2
  <2>8. /\ d.iic = units /\ d.owner = b.owner /\ d.said = told.said /\ d.heard = told.heard
        /\ d.expected = b.expected /\ d \in BusState
    BY <1>6, <2>6, <2>7 DEF BusState
  <2>9. Channels(d)
    <3> SUFFICES ASSUME NEW e \in Riic
                 PROVE  ChannelInv(e, units[e], b.owner[e], b.expected[e]) /\ HeardBy(b.owner[e], told.said[e], told.heard[e])
      BY <2>8 DEF Channels
    <3>1. ChannelInv(e, b.iic[e], b.owner[e], b.expected[e]) /\ HeardBy(b.owner[e], b.said[e], b.heard[e])
      BY <1>1 DEF Channels
    <3>2. ChannelInv(e, units[e], b.owner[e], b.expected[e])
      BY <2>1, <2>5, <2>6, <3>1
    <3>3. HeardBy(b.owner[e], told.said[e], told.heard[e])
      BY <1>5, <1>7, <3>1
    <3> QED BY <3>2, <3>3
  <2>10. \A e \in Riic : d.iic[e].fabric = b.iic[e].fabric /\ d.iic[e].slaveActive = b.iic[e].slaveActive
    BY <2>1, <2>5, <2>6, <2>8
  <2>11. BusInv(d)
    BY <2>8, <2>9, <2>10, SameLinks
  <2> QED BY <1>2, <2>1, <2>6, <2>8, <2>11 DEF d
<1> DEFINE units(v) == [b.iic EXCEPT ![c] = v]
<1>10. ASSUME NEW v \in Unit, NEW y \in Int, NEW cells \in [Riic -> [0..(RomSize - 1) -> Int]],
              d = [told EXCEPT !.iic = units(v), !.rom = cells, !.expected = [b.expected EXCEPT ![c] = y]],
              v.fabric = u.fabric, v.slaveActive = u.slaveActive, ChannelInv(c, v, o, y), v.mst, v.pending = Nothing
       PROVE  BusInv(d) /\ d.iic[c].mst /\ d.iic[c].pending = Nothing
  <2> DEFINE hopes == [b.expected EXCEPT ![c] = y]
  <2>1. units(v) \in [Riic -> Unit] /\ units(v)[c] = v /\ \A e \in Riic \ {c} : units(v)[e] = b.iic[e]
    BY <1>1 DEF BusState
  <2>2. hopes \in [Riic -> Int] /\ hopes[c] = y /\ \A e \in Riic \ {c} : hopes[e] = b.expected[e]
    BY <1>1 DEF BusState
  <2> HIDE DEF units, hopes, said2, heard2
  <2>3. d = [told EXCEPT !.iic = units(v), !.rom = cells, !.expected = hopes]
    BY <1>10 DEF hopes
  <2>4. /\ d.iic = units(v) /\ d.owner = b.owner /\ d.said = told.said /\ d.heard = told.heard
        /\ d.expected = hopes /\ d \in BusState
    BY <1>6, <2>1, <2>2, <2>3 DEF BusState
  <2>5. BusInv(d)
    <3>1. ChannelInv(c, d.iic[c], d.owner[c], d.expected[c])
      BY <1>10, <2>1, <2>2, <2>4
    <3>2. HeardBy(d.owner[c], d.said[c], d.heard[c])
      BY <1>5, <1>7, <2>4
    <3>3. d.iic[c].fabric = b.iic[c].fabric /\ d.iic[c].slaveActive = b.iic[c].slaveActive
      BY <1>10, <2>1, <2>4
    <3>4. \A e \in Riic \ {c} :
             /\ d.iic[e] = b.iic[e] /\ d.owner[e] = b.owner[e] /\ d.expected[e] = b.expected[e]
             /\ d.said[e] = b.said[e] /\ d.heard[e] = b.heard[e]
      BY <1>7, <2>1, <2>2, <2>4
    <3> QED BY <2>4, <3>1, <3>2, <3>3, <3>4, OneChannel
  <2> QED BY <1>10, <2>1, <2>4, <2>5
<1>11. o = Rom => Nothing # Rom
  BY DEF Nothing, Rom
<1>12. RomSize \in Nat \ {0}
  BY DEF I2cAssumption
<1>13. CASE s = Nothing /\ u.expectPtr
  <2> DEFINE y == byte % RomSize
             v == [u EXCEPT !.eptr = y, !.expectPtr = FALSE]
  <2>1. y \in 0..(RomSize - 1) /\ y \in Int
    BY <1>12
  <2>2. d = [told EXCEPT !.iic[c].eptr = y, !.iic[c].expectPtr = FALSE, !.expected[c] = y]
    BY <1>8, <1>13
  <2> HIDE DEF y
  <2>3. v \in Unit
    BY <1>2, <2>1 DEF Unit
  <2>4. v.fabric = u.fabric /\ v.slaveActive = u.slaveActive /\ v.mst /\ v.pending = Nothing
    BY <1>2 DEF Unit
  <2>5. ChannelInv(c, v, o, y)
    <3>1. /\ v.eptr = y /\ v.bbsy = u.bbsy /\ v.ice = u.ice /\ v.sar = u.sar /\ v.slaveTx = u.slaveTx
          /\ v.tend = u.tend /\ ~v.readDir /\ y # Nothing
      BY <1>2, <2>1 DEF Unit, Nothing
    <3> QED BY <1>2, <2>1, <2>4, <3>1 DEF ChannelInv, IsSlaveCandidate
  <2> HIDE DEF v
  <2>6. d = [told EXCEPT !.iic = units(v), !.rom = b.rom, !.expected = [b.expected EXCEPT ![c] = y]]
    BY <1>1, <1>6, <2>2, ZenonT(60) DEF BusState, v
  <2> HIDE DEF units, u, o
  <2>7. b.rom \in [Riic -> [0..(RomSize - 1) -> Int]]
    BY <1>1 DEF BusState
  <2> QED BY <1>10, <2>1, <2>3, <2>4, <2>5, <2>6, <2>7 DEF d
<1>14. CASE s = Nothing /\ ~u.expectPtr
  <2>1. x # Nothing /\ x = u.eptr /\ x \in Nat /\ u.eptr \in 0..(RomSize - 1)
    <3>1. o = Rom
      BY <1>2, <1>3, <1>14 DEF Nobody, Nothing
    <3> QED BY <1>2, <1>12, <1>14, <3>1 DEF ChannelInv
  <2> DEFINE y == NextCell(x)
             v == [u EXCEPT !.eptr = y]
             cells == [b.rom EXCEPT ![c] = [b.rom[c] EXCEPT ![u.eptr] = byte]]
  <2>2. y \in 0..(RomSize - 1) /\ y \in Int /\ y = (x + 1) % RomSize
    BY <1>12, <2>1 DEF NextCell
  <2>3. d = [told EXCEPT !.iic[c].eptr = NextCell(@), !.rom[c][u.eptr] = byte, !.expected[c] = (@ + 1) % RomSize]
    BY <1>8, <1>14
  <2>4. cells \in [Riic -> [0..(RomSize - 1) -> Int]]
    BY <1>1, <2>1 DEF BusState
  <2> HIDE DEF y
  <2>5. v \in Unit
    BY <1>2, <2>2 DEF Unit
  <2>6. v.fabric = u.fabric /\ v.slaveActive = u.slaveActive /\ v.mst /\ v.pending = Nothing
    BY <1>2 DEF Unit
  <2>7. ChannelInv(c, v, o, y)
    <3>1. /\ v.eptr = y /\ v.bbsy = u.bbsy /\ v.ice = u.ice /\ v.sar = u.sar /\ v.slaveTx = u.slaveTx
          /\ v.tend = u.tend /\ ~v.readDir /\ y # Nothing
      BY <1>2, <2>2 DEF Unit, Nothing
    <3> QED BY <1>2, <2>2, <2>6, <3>1 DEF ChannelInv, IsSlaveCandidate
  <2>8. d = [told EXCEPT !.iic = units(v), !.rom = cells, !.expected = [b.expected EXCEPT ![c] = y]]
    <3>1. NextCell(u.eptr) = y /\ (x + 1) % RomSize = y
      BY <2>1, <2>2 DEF y
    <3>2. d = [told EXCEPT !.iic[c].eptr = y, !.rom[c][u.eptr] = byte, !.expected[c] = y]
      BY <1>1, <1>6, <2>3, <3>1 DEF BusState
    <3> QED BY <1>1, <1>6, <3>2 DEF BusState
  <2> HIDE DEF v, cells, units, u, o
  <2> QED BY <1>10, <2>2, <2>4, <2>5, <2>6, <2>7, <2>8 DEF d
<1> QED
  BY <1>9, <1>13, <1>14 DEF d

\* The bus b with the registers of c replaced.
WithUnit(b, c, v) == [b EXCEPT !.iic = [b.iic EXCEPT ![c] = v]]

\* What touches the registers of one channel only.
LEMMA OneUnit ==
    ASSUME NEW b, BusInv(b), NEW c \in Riic, NEW v \in Unit,
           v.fabric = b.iic[c].fabric, v.slaveActive = b.iic[c].slaveActive,
           ChannelInv(c, v, b.owner[c], b.expected[c]),
           NEW d, d = WithUnit(b, c, v)
    PROVE  BusInv(d) /\ d.iic[c] = v
<1> DEFINE units == [b.iic EXCEPT ![c] = v]
<1>1. b \in BusState /\ HeardBy(b.owner[c], b.said[c], b.heard[c])
  BY DEF BusInv, Channels
<1>2. units \in [Riic -> Unit] /\ units[c] = v /\ \A e \in Riic \ {c} : units[e] = b.iic[e]
  BY <1>1 DEF BusState
<1>3. d = [b EXCEPT !.iic = units]
  BY DEF WithUnit
<1> HIDE DEF units
<1>4. /\ d.iic = units /\ d.owner = b.owner /\ d.said = b.said /\ d.heard = b.heard
      /\ d.expected = b.expected /\ d \in BusState
  BY <1>1, <1>2, <1>3 DEF BusState
<1>5. BusInv(d)
  <2>1. /\ d.iic[c].fabric = b.iic[c].fabric /\ d.iic[c].slaveActive = b.iic[c].slaveActive
        /\ ChannelInv(c, d.iic[c], d.owner[c], d.expected[c]) /\ HeardBy(d.owner[c], d.said[c], d.heard[c])
    BY <1>1, <1>2, <1>4
  <2>2. \A e \in Riic \ {c} :
             /\ d.iic[e] = b.iic[e] /\ d.owner[e] = b.owner[e] /\ d.expected[e] = b.expected[e]
             /\ d.said[e] = b.said[e] /\ d.heard[e] = b.heard[e]
    BY <1>2, <1>4
  <2> QED BY <1>4, <2>1, <2>2, OneChannel
<1> QED
  BY <1>2, <1>4, <1>5

\* The tick of a master ships what it staged.
LEMMA ShippedKeeps ==
    ASSUME I2cAssumption, OneMaster, NEW b, BusInv(b), NEW c \in Riic, b.iic[c].mst
    PROVE  BusInv(Shipped(b, c)) /\ Shipped(b, c).iic[c].mst
<1> DEFINE u == b.iic[c]
           v == [u EXCEPT !.pending = Nothing]
           sent == [b EXCEPT !.iic[c].pending = Nothing]
           done == IF u.addrPhase THEN ShipAddress(sent, c, u.pending)
                   ELSE IF u.readDir THEN sent ELSE ShipData(sent, c, u.pending)
           d == [done EXCEPT !.iic[c].tdre = TRUE, !.iic[c].tend = TRUE]
<1>1. b \in BusState /\ u \in Unit /\ ChannelInv(c, u, b.owner[c], b.expected[c]) /\ u.mst /\ u.pending \in Int
  BY DEF BusInv, Channels, BusState, Unit
<1>2. CASE u.pending = Nothing
  BY <1>2 DEF Shipped
<1>3. CASE u.pending # Nothing
  <2>1. Shipped(b, c) = d
    BY <1>3 DEF Shipped
  <2>2. v \in Unit
    BY <1>1 DEF Unit, Nothing
  <2>3. /\ v.fabric = u.fabric /\ v.slaveActive = u.slaveActive /\ v.mst /\ v.pending = Nothing /\ v.addrPhase = u.addrPhase
        /\ v.readDir = u.readDir /\ v.eptr = u.eptr /\ v.bbsy = u.bbsy /\ v.ice = u.ice /\ v.sar = u.sar
        /\ v.slaveTx = u.slaveTx /\ v.expectPtr = u.expectPtr
    BY <1>1 DEF Unit
  <2>4. ChannelInv(c, v, b.owner[c], b.expected[c])
    BY <1>1, <2>3 DEF ChannelInv, IsSlaveCandidate
  <2>5. sent = [b EXCEPT !.iic = [b.iic EXCEPT ![c] = v]] /\ sent = WithUnit(b, c, v)
    BY <1>1 DEF BusState, WithUnit
  <2> HIDE DEF v, sent
  <2>6. BusInv(sent) /\ sent.iic[c] = v
    <3>1. v.fabric = b.iic[c].fabric /\ v.slaveActive = b.iic[c].slaveActive /\ sent = WithUnit(b, c, v)
      BY <2>3, <2>5
    <3> QED BY <2>2, <2>4, <3>1, OneUnit
  <2>7. sent.owner = b.owner
    BY <1>1, <2>5 DEF BusState
  <2>8. BusInv(done) /\ done.iic[c].mst /\ done.iic[c].pending = Nothing
    <3>1. CASE u.addrPhase
      BY <1>1, <2>3, <2>6, <3>1, ShipAddressKeeps
    <3>2. CASE ~u.addrPhase /\ u.readDir
      BY <2>3, <2>6, <3>2
    <3>3. CASE ~u.addrPhase /\ ~u.readDir
      <4>1. b.owner[c] # Nobody
        BY <1>1, <1>3, <3>3 DEF ChannelInv
      <4>2. done = ShipData(sent, c, u.pending)
        BY <3>3
      <4> HIDE DEF done
      <4>3. sent.iic[c].mst /\ sent.iic[c].pending = Nothing /\ ~sent.iic[c].readDir /\ sent.owner[c] # Nobody
        BY <2>3, <2>6, <2>7, <3>3, <4>1
      <4> HIDE DEF u
      <4> QED BY <1>1, <2>6, <4>2, <4>3, ShipDataKeeps
    <3> QED BY <3>1, <3>2, <3>3
  <2> HIDE DEF done
  <2> DEFINE w == [done.iic[c] EXCEPT !.tdre = TRUE, !.tend = TRUE]
  <2>9. done \in BusState /\ done.iic[c] \in Unit /\ ChannelInv(c, done.iic[c], done.owner[c], done.expected[c])
    BY <2>8 DEF BusInv, Channels, BusState
  <2>10. w \in Unit
    BY <2>9 DEF Unit
  <2>11. w.fabric = done.iic[c].fabric /\ w.slaveActive = done.iic[c].slaveActive /\ w.mst
    BY <2>8, <2>9 DEF Unit
  <2>12. ChannelInv(c, w, done.owner[c], done.expected[c])
    BY <2>8, <2>9 DEF ChannelInv, IsSlaveCandidate, Unit
  <2>13. d = WithUnit(done, c, w)
    BY <2>9 DEF BusState, WithUnit
  <2> HIDE DEF w, d
  <2>14. BusInv(d) /\ d.iic[c] = w
    BY <2>8, <2>10, <2>11, <2>12, <2>13, OneUnit
  <2> QED BY <2>1, <2>11, <2>14
<1> QED
  BY <1>2, <1>3

\* The tick of a master takes one byte from who sends.
LEMMA StreamedKeeps ==
    ASSUME I2cAssumption, NEW b, BusInv(b), NEW c \in Riic, b.iic[c].mst
    PROVE  BusInv(Streamed(b, c))
<1> DEFINE u == b.iic[c]
           s == u.fabric
           o == b.owner[c]
           x == b.expected[c]
           d == Streamed(b, c)
<1>1. b \in BusState /\ Channels(b) /\ LinksOf(b.iic)
  BY DEF BusInv
<1>2. u \in Unit /\ ChannelInv(c, u, o, x) /\ u.mst /\ o \in Int /\ x \in Int
  BY <1>1 DEF Channels, BusState
<1>3. CASE ~Streams(u)
  BY <1>3 DEF Streamed
<1>4. CASE Streams(u) /\ s = Nothing
  <2> DEFINE ptr == NextCell(u.eptr)
             y == IF x = Nothing THEN Nothing ELSE (x + 1) % RomSize
             byte == b.rom[c][u.eptr]
             v == [u EXCEPT !.rdr = byte, !.rdrf = TRUE, !.eptr = ptr]
             hopes == [b.expected EXCEPT ![c] = y]
             units == [b.iic EXCEPT ![c] = v]
  <2>1. u.eptr \in 0..(RomSize - 1) /\ RomSize \in Nat \ {0}
    BY <1>2 DEF ChannelInv, I2cAssumption
  <2>2. ptr \in 0..(RomSize - 1) /\ ptr \in Int
    BY <2>1 DEF NextCell
  <2>3. y \in Int /\ (y # Nothing => y = ptr /\ x # Nothing)
    <3>1. x # Nothing => x = u.eptr
      BY <1>2 DEF ChannelInv
    <3> QED BY <2>1, <2>2, <3>1 DEF NextCell, Nothing
  <2>4. byte \in Int
    BY <1>1, <2>1 DEF BusState
  <2>5. d = [b EXCEPT !.iic = units, !.expected = hopes]
    BY <1>1, <1>4, ZenonT(60) DEF Streamed, BusState
  <2> HIDE DEF d, ptr, y, byte
  <2>6. v \in Unit
    BY <1>2, <2>2, <2>4 DEF Unit
  <2>7. /\ v.fabric = u.fabric /\ v.slaveActive = u.slaveActive /\ v.mst /\ v.pending = u.pending /\ v.addrPhase = u.addrPhase
        /\ v.readDir = u.readDir /\ v.eptr = ptr /\ v.bbsy = u.bbsy /\ v.ice = u.ice /\ v.sar = u.sar
        /\ v.slaveTx = u.slaveTx /\ v.expectPtr = u.expectPtr /\ v.tend = u.tend
    BY <1>2 DEF Unit
  <2>8. ChannelInv(c, v, o, y)
    <3>1. u.readDir
      BY <1>4 DEF Streams
    <3> QED BY <1>2, <2>2, <2>3, <2>7, <3>1 DEF ChannelInv, IsSlaveCandidate
  <2> HIDE DEF v
  <2>9. units \in [Riic -> Unit] /\ units[c] = v /\ \A e \in Riic \ {c} : units[e] = b.iic[e]
    BY <1>1, <2>6 DEF BusState
  <2>10. hopes \in [Riic -> Int] /\ hopes[c] = y /\ \A e \in Riic \ {c} : hopes[e] = b.expected[e]
    BY <1>1, <2>3 DEF BusState
  <2> HIDE DEF units, hopes
  <2>11. /\ d.iic = units /\ d.owner = b.owner /\ d.said = b.said /\ d.heard = b.heard
         /\ d.expected = hopes /\ d \in BusState
    BY <1>1, <2>5, <2>9, <2>10 DEF BusState
  <2>12. HeardBy(b.owner[c], b.said[c], b.heard[c])
    BY <1>1 DEF Channels
  <2>13. /\ d.iic[c].fabric = b.iic[c].fabric /\ d.iic[c].slaveActive = b.iic[c].slaveActive
         /\ ChannelInv(c, d.iic[c], d.owner[c], d.expected[c]) /\ HeardBy(d.owner[c], d.said[c], d.heard[c])
    BY <2>7, <2>8, <2>9, <2>10, <2>11, <2>12
  <2>14. \A e \in Riic \ {c} :
             /\ d.iic[e] = b.iic[e] /\ d.owner[e] = b.owner[e] /\ d.expected[e] = b.expected[e]
             /\ d.said[e] = b.said[e] /\ d.heard[e] = b.heard[e]
    BY <2>9, <2>10, <2>11
  <2> QED BY <2>11, <2>13, <2>14, OneChannel DEF d
<1>5. CASE Streams(u) /\ s # Nothing /\ ~(IsSlaveCandidate(b.iic[s]) /\ b.iic[s].pending # Nothing)
  BY <1>5 DEF Streamed
<1>6. CASE Streams(u) /\ s # Nothing /\ IsSlaveCandidate(b.iic[s]) /\ b.iic[s].pending # Nothing
  <2>1. s \in Riic /\ s # c
    BY <1>1, <1>6 DEF LinksOf
  <2> DEFINE t == b.iic[s]
             byte == t.pending
             v == [u EXCEPT !.rdr = byte, !.rdrf = TRUE]
             w == [t EXCEPT !.pending = Nothing, !.tdre = TRUE]
             mid == WithUnit(b, c, v)
  <2>2. t \in Unit /\ byte \in Int /\ ChannelInv(s, t, b.owner[s], b.expected[s])
    BY <1>1, <2>1 DEF BusState, Unit, Channels
  <2>3. d = [b EXCEPT !.iic = [b.iic EXCEPT ![c] = v, ![s] = w]]
    BY <1>1, <1>6, <2>1, ZenonT(60) DEF Streamed, BusState
  <2> HIDE DEF s, d, byte
  <2>4. v \in Unit
    BY <1>2, <2>2 DEF Unit
  <2>5. /\ v.fabric = u.fabric /\ v.slaveActive = u.slaveActive
        /\ ChannelInv(c, v, o, x)
    BY <1>2 DEF Unit, ChannelInv, IsSlaveCandidate
  <2>6. w \in Unit
    <3>1. Nothing \in Int
      BY DEF Nothing
    <3> HIDE DEF t
    <3> QED BY <2>2, <3>1 DEF Unit
  <2>7. w.fabric = t.fabric /\ w.slaveActive = t.slaveActive
    BY <2>2 DEF Unit
  <2>8. ChannelInv(s, w, b.owner[s], b.expected[s])
    <3>1. /\ w.mst = t.mst /\ w.pending = Nothing /\ w.eptr = t.eptr /\ w.bbsy = t.bbsy /\ w.ice = t.ice /\ w.sar = t.sar
          /\ w.slaveTx = t.slaveTx /\ w.expectPtr = t.expectPtr /\ w.tend = t.tend /\ w.readDir = t.readDir
      BY <2>2 DEF Unit
    <3> QED BY <2>2, <2>7, <3>1 DEF ChannelInv, IsSlaveCandidate
  <2> HIDE DEF v, w
  <2>9. BusInv(mid) /\ mid.iic[c] = v
    <3> HIDE DEF u, o, x, mid
    <3>1. mid = WithUnit(b, c, v)
      BY DEF mid
    <3> QED BY <2>4, <2>5, <3>1, OneUnit DEF u, o, x
  <2>10. mid.iic = [b.iic EXCEPT ![c] = v] /\ mid.iic[s] = t /\ mid.owner = b.owner /\ mid.expected = b.expected
    BY <1>1, <2>1 DEF BusState, WithUnit
  <2>11. d = WithUnit(mid, s, w)
    BY <1>1, <2>1, <2>3 DEF BusState, WithUnit
  <2> HIDE DEF mid, t
  <2>12. BusInv(d)
    BY <2>1, <2>6, <2>7, <2>8, <2>9, <2>10, <2>11, OneUnit
  <2> QED BY <2>12 DEF d
<1> QED
  BY <1>3, <1>4, <1>5, <1>6

\* An attached part leaves cells and a pointer of the EEPROM.
LEMMA WrittenType ==
    ASSUME I2cAssumption, NEW c \in Riic, rom[c] \in [0..(RomSize - 1) -> Int], iic[c].eptr \in 0..(RomSize - 1),
           NEW bytes \in {<<>>} \cup [1..2 -> IicByte]
    PROVE  Written(c, bytes).cells \in [0..(RomSize - 1) -> Int] /\ Written(c, bytes).ptr \in 0..(RomSize - 1)
<1> DEFINE Good(w) == w.cells \in [0..(RomSize - 1) -> Int] /\ w.ptr \in 0..(RomSize - 1)
           Step(w, i) == IF i = 0 THEN [cells |-> rom[c], ptr |-> iic[c].eptr]
                         ELSE IF i = 1 THEN [cells |-> rom[c], ptr |-> bytes[1] % RomSize]
                         ELSE [cells |-> [w[i - 1].cells EXCEPT ![w[i - 1].ptr] = bytes[i]],
                               ptr |-> NextCell(w[i - 1].ptr)]
           written == CHOOSE w : w = [i \in 0..Len(bytes) |-> Step(w, i)]
<1>1. Written(c, bytes) = written[Len(bytes)]
  BY DEF Written
<1>2. RomSize \in Nat \ {0} /\ IicByte \subseteq Nat
  BY DEF I2cAssumption
<1>3. CASE bytes = <<>>
  <2>1. Len(bytes) = 0
    BY <1>3
  <2> DEFINE g == [i \in 0..0 |-> [cells |-> rom[c], ptr |-> iic[c].eptr]]
  <2>2. g = [i \in 0..Len(bytes) |-> Step(g, i)]
    BY <2>1
  <2> HIDE DEF g
  <2>3. written = [i \in 0..Len(bytes) |-> Step(written, i)]
    BY <2>2
  <2> HIDE DEF written
  <2>4. written[0] = Step(written, 0)
    BY <2>1, <2>3
  <2>5. Good(written[0])
    BY <2>4
  <2> QED BY <1>1, <2>1, <2>5
<1>4. CASE bytes \in [1..2 -> IicByte]
  <2>1. Len(bytes) = 2 /\ bytes[1] \in Nat /\ bytes[2] \in Nat
    <3>1. bytes \in Seq(IicByte)
      <4>1. \A n \in Nat : [1..n -> IicByte] \subseteq Seq(IicByte)
        BY SeqDef
      <4>2. [1..2 -> IicByte] \subseteq Seq(IicByte)
        BY <4>1
      <4> QED BY <1>4, <4>2
    <3>2. DOMAIN bytes = 1..2
      <4> DEFINE S == 1..2
      <4>1. bytes \in [S -> IicByte]
        BY <1>4
      <4> HIDE DEF S
      <4>2. DOMAIN bytes = S
        BY <4>1
      <4> QED BY <4>2 DEF S
    <3>3. Len(bytes) \in Nat /\ DOMAIN bytes = 1..Len(bytes)
      BY <3>1, LenProperties
    <3>4. Len(bytes) = 2
      <4> DEFINE n == Len(bytes)
      <4>1. n \in Nat /\ 1..n = {i \in Int : 1 <= i /\ i <= 2}
        BY <3>2, <3>3
      <4> HIDE DEF n
      <4>2. 2 \in 1..n /\ ~(3 \in 1..n)
        BY <4>1, SMTT(30)
      <4>3. n = 2
        BY <4>1, <4>2
      <4> QED BY <4>3 DEF n
    <3>5. bytes[1] \in IicByte /\ bytes[2] \in IicByte
      BY <1>4
    <3> QED BY <1>2, <3>4, <3>5
  <2> DEFINE p == bytes[1] % RomSize
             one == [cells |-> rom[c], ptr |-> p]
             two == [cells |-> [rom[c] EXCEPT ![p] = bytes[2]], ptr |-> NextCell(p)]
             g == [i \in 0..2 |-> IF i = 0 THEN [cells |-> rom[c], ptr |-> iic[c].eptr] ELSE IF i = 1 THEN one ELSE two]
  <2>2. p \in 0..(RomSize - 1) /\ NextCell(p) \in 0..(RomSize - 1)
    BY <1>2, <2>1, SMTT(30) DEF NextCell
  <2>3. Good(two)
    BY <2>1, <2>2
  <2> HIDE DEF p, Good
  <2>4. g[1] = one /\ g[2] = two /\ \A i \in 0..2 : g[i] = Step(g, i)
    <3>1. g[0] = Step(g, 0)
      BY DEF Step
    <3>2. g[1] = one /\ g[1] = Step(g, 1)
      BY DEF Step, p
    <3>3. g[2] = two
      OBVIOUS
    <3>4. Step(g, 2) = two
      BY <3>2 DEF Step
    <3>5. \A i \in 0..2 : i = 0 \/ i = 1 \/ i = 2
      OBVIOUS
    <3> HIDE DEF g, Step, one, two
    <3> QED BY <3>1, <3>2, <3>3, <3>4, <3>5
  <2>5. g = [i \in 0..Len(bytes) |-> Step(g, i)]
    BY <2>1, <2>4
  <2> HIDE DEF g, Step
  <2>6. written = [i \in 0..Len(bytes) |-> Step(written, i)]
    BY <2>5
  <2> HIDE DEF written
  <2>7. written[1] = Step(written, 1) /\ written[2] = Step(written, 2)
    BY <2>1, <2>6
  <2>8. written[1] = one
    BY <2>7 DEF Step, p
  <2>9. written[2] = two
    BY <2>7, <2>8 DEF Step
  <2> QED BY <1>1, <2>1, <2>3, <2>9 DEF Good
<1> QED
  BY <1>3, <1>4

\* The invariant, of the variables themselves.
LEMMA OwnUnit ==
    ASSUME I2cInv, NEW c \in Riic
    PROVE  /\ iic[c] \in Unit /\ ChannelInv(c, iic[c], owner[c], expected[c])
           /\ iic \in [Riic -> Unit] /\ rom \in [Riic -> [0..(RomSize - 1) -> Int]]
           /\ owner \in [Riic -> Int] /\ expected \in [Riic -> Int]
           /\ said \in [Riic -> Seq(Int)] /\ heard \in [Riic -> Seq(Int \X Int)]
           /\ BusInv(Bus) /\ Bus \in BusState /\ Bus.iic = iic /\ Bus.owner = owner /\ Bus.expected = expected
           /\ Bus.said = said /\ Bus.heard = heard
BY DEF I2cInv, BusInv, Channels, Bus, BusState

\* A step that writes registers of one channel.
LEMMA OneUnitStep ==
    ASSUME I2cInv, NEW c \in Riic, NEW v \in Unit,
           v.fabric = iic[c].fabric, v.slaveActive = iic[c].slaveActive,
           ChannelInv(c, v, owner[c], expected[c]),
           iic' = [iic EXCEPT ![c] = v], UNCHANGED <<rom, owner, said, heard, expected>>
    PROVE  I2cInv'
<1>1. BusInv(Bus) /\ Bus.iic = iic /\ Bus.owner = owner /\ Bus.expected = expected
  BY OwnUnit
<1>2. Bus' = WithUnit(Bus, c, v)
  BY DEF Bus, WithUnit
<1>3. BusInv(Bus')
  <2> DEFINE d == Bus'
  <2>1. d = WithUnit(Bus, c, v)
    BY <1>2
  <2> HIDE DEF d
  <2>2. BusInv(d)
    BY <1>1, <2>1, OneUnit
  <2> QED BY <2>2 DEF d
<1> QED
  BY <1>3 DEF I2cInv

\* Only a master's tick does anything.
LEMMA TickKeeps ==
    ASSUME I2cAssumption, OneMaster, I2cInv, NEW c \in Riic, Tick(c)
    PROVE  I2cInv'
<1> DEFINE u == iic[c]
           b == Streamed(Shipped(Bus, c), c)
<1>1. u \in Unit /\ ChannelInv(c, u, owner[c], expected[c]) /\ BusInv(Bus) /\ Bus.iic = iic
  BY OwnUnit
<1>2. u.ice /\ ~u.slaveActive /\ ~IsSlaveCandidate(u) /\ b # Bus
  BY DEF Tick, Ticks
<1>3. CASE ~u.mst
  <2>1. u.pending = Nothing /\ ~u.bbsy
    BY <1>1, <1>2, <1>3 DEF ChannelInv, IsSlaveCandidate
  <2>2. Shipped(Bus, c) = Bus
    BY <1>1, <2>1 DEF Shipped
  <2>3. Streamed(Bus, c) = Bus
    BY <1>1, <2>1 DEF Streamed, Streams
  <2> QED BY <1>2, <2>2, <2>3
<1>4. CASE u.mst
  <2>1. BusInv(Shipped(Bus, c)) /\ Shipped(Bus, c).iic[c].mst
    BY <1>1, <1>4, ShippedKeeps
  <2>2. BusInv(b)
    BY <2>1, StreamedKeeps
  <2>3. Bus' = [iic |-> b.iic, rom |-> b.rom, owner |-> b.owner, said |-> b.said, heard |-> b.heard, expected |-> b.expected]
    BY DEF Tick, Bus
  <2> HIDE DEF b
  <2>4. Bus' = b
    BY <2>2, <2>3 DEF BusInv, BusState
  <2> QED BY <2>2, <2>4 DEF I2cInv
<1> QED
  BY <1>3, <1>4

\* Firmware writes the registers of its channel.
LEMMA RegistersKeep ==
    ASSUME I2cAssumption, Careful, I2cInv, NEW c \in Riic,
           \/ \E w \in Iccr1 : WriteIccr1(c, w)
           \/ \E addrs \in Sar[c] : WriteSar(c, addrs)
           \/ Restart(c)
           \/ \E b \in AddressByte \cup IicByte : WriteIcdrt(c, b)
           \/ \E flag \in Flags : WriteIcsr2(c, flag)
           \/ ReadIcdrr(c)
    PROVE  I2cInv'
<1> DEFINE u == iic[c]
<1>1. /\ u \in Unit /\ ChannelInv(c, u, owner[c], expected[c]) /\ iic \in [Riic -> Unit]
  BY OwnUnit
<1>2. ASSUME NEW v \in Unit, iic' = [iic EXCEPT ![c] = v], UNCHANGED <<rom, owner, said, heard, expected>>,
             v.fabric = u.fabric, v.slaveActive = u.slaveActive, ChannelInv(c, v, owner[c], expected[c])
      PROVE  I2cInv'
  BY <1>2, OneUnitStep
<1>3. ASSUME NEW w \in Iccr1, WriteIccr1(c, w)
      PROVE  I2cInv'
  <2>1. ~u.bbsy /\ w.ice \in BOOLEAN /\ w.rst \in BOOLEAN
    BY <1>3 DEF WriteIccr1, Careful, I2cAssumption
  <2> DEFINE l == IF w.rst /\ ~u.rst THEN Live(u) ELSE u
             v == [l EXCEPT !.ice = w.ice, !.rst = w.rst]
  <2>2. iic' = [iic EXCEPT ![c] = v] /\ UNCHANGED <<rom, owner, said, heard, expected>>
    BY <1>3 DEF WriteIccr1
  <2>3. u.mst = FALSE /\ u.slaveActive = FALSE /\ u.slaveTx = FALSE /\ u.fabric = Nothing /\ owner[c] = Nobody /\ expected[c] = Nothing
    BY <1>1, <2>1 DEF ChannelInv, Unit
  <2>4. Live(u) \in Unit
    <3>1. Nothing \in Int
      BY DEF Nothing
    <3>2. u \in Unit
      BY <1>1
    <3> HIDE DEF u
    <3> DEFINE l1 == [u EXCEPT !.tdre = TRUE, !.tend = FALSE, !.rdrf = FALSE, !.nackf = FALSE, !.stop = FALSE]
               l2 == [l1 EXCEPT !.bbsy = FALSE, !.pending = Nothing, !.addrPhase = FALSE]
               l3 == [l2 EXCEPT !.fabric = Nothing, !.slaveActive = FALSE, !.slaveTx = FALSE]
    <3>3. Live(u) = l3
      BY DEF Live
    <3>4. l1 \in Unit
      BY <3>2 DEF Unit
    <3> HIDE DEF l1
    <3>5. l2 \in Unit
      BY <3>1, <3>4 DEF Unit
    <3> HIDE DEF l2
    <3>6. l3 \in Unit
      BY <3>1, <3>5 DEF Unit
    <3> QED BY <3>3, <3>6
  <2>5. /\ l \in Unit /\ l.mst = FALSE /\ l.slaveActive = FALSE /\ l.slaveTx = FALSE /\ l.fabric = Nothing /\ l.bbsy = FALSE
        /\ l.eptr = u.eptr /\ l.sar = u.sar /\ (l.pending = Nothing \/ l.pending = u.pending)
        /\ (l.tend => u.tend /\ l.pending = u.pending)
    <3> DEFINE fresh == Live(u)
    <3> HIDE DEF u
    <3>1. /\ fresh.mst = u.mst /\ fresh.slaveActive = FALSE /\ fresh.slaveTx = FALSE /\ fresh.fabric = Nothing /\ fresh.bbsy = FALSE
          /\ fresh.eptr = u.eptr /\ fresh.sar = u.sar /\ fresh.pending = Nothing /\ fresh.tend = FALSE
      BY <1>1 DEF Live, Unit
    <3> HIDE DEF fresh
    <3>2. u.bbsy = FALSE
      BY <1>1, <2>1 DEF Unit
    <3>3. l = u \/ l = fresh
      BY DEF fresh
    <3>4. fresh \in Unit
      BY <2>4 DEF fresh
    <3> HIDE DEF l
    <3> QED BY <1>1, <2>3, <3>1, <3>2, <3>3, <3>4
  <2> HIDE DEF l
  <2>6. v \in Unit
    BY <2>1, <2>5 DEF Unit
  <2>7. /\ v.mst = FALSE /\ v.slaveActive = FALSE /\ v.slaveTx = FALSE /\ v.fabric = Nothing /\ v.bbsy = FALSE
        /\ v.eptr = u.eptr /\ v.sar = u.sar /\ v.pending = l.pending /\ v.tend = l.tend
    BY <2>5 DEF Unit
  <2>8. ChannelInv(c, v, owner[c], expected[c])
    BY <1>1, <2>3, <2>5, <2>7 DEF ChannelInv
  <2> HIDE DEF v
  <2> QED BY <1>2, <2>2, <2>3, <2>6, <2>7, <2>8
<1>4. ASSUME NEW addrs \in Sar[c], WriteSar(c, addrs)
      PROVE  I2cInv'
  <2> DEFINE v == [u EXCEPT !.sar = addrs]
  <2>1. ~u.bbsy /\ u.pending = Nothing /\ addrs \in SUBSET Nat
    BY <1>4 DEF WriteSar, I2cAssumption
  <2>2. iic' = [iic EXCEPT ![c] = v] /\ UNCHANGED <<rom, owner, said, heard, expected>>
    BY <1>1, <1>4 DEF WriteSar
  <2>3. v \in Unit
    BY <1>1, <2>1 DEF Unit
  <2>4. /\ v.mst = u.mst /\ v.slaveActive = u.slaveActive /\ v.slaveTx = u.slaveTx /\ v.fabric = u.fabric /\ v.bbsy = u.bbsy
        /\ v.eptr = u.eptr /\ v.pending = u.pending /\ v.tend = u.tend
    BY <1>1 DEF Unit
  <2>5. ChannelInv(c, v, owner[c], expected[c])
    BY <1>1, <2>1, <2>4 DEF ChannelInv
  <2> HIDE DEF v
  <2> QED BY <1>2, <2>2, <2>3, <2>4, <2>5
<1>5. ASSUME Restart(c)
      PROVE  I2cInv'
  <2> DEFINE v == [u EXCEPT !.addrPhase = TRUE]
  <2>1. u.pending = Nothing
    BY <1>1, <1>5 DEF Restart, Careful, ChannelInv
  <2>2. iic' = [iic EXCEPT ![c] = v] /\ UNCHANGED <<rom, owner, said, heard, expected>>
    BY <1>1, <1>5 DEF Restart
  <2>3. v \in Unit
    BY <1>1, <2>1 DEF Unit
  <2>4. /\ v.fabric = u.fabric /\ v.slaveActive = u.slaveActive /\ ChannelInv(c, v, owner[c], expected[c])
    BY <1>1, <2>1 DEF Unit, ChannelInv, IsSlaveCandidate
  <2> HIDE DEF v
  <2> QED BY <1>2, <2>2, <2>3, <2>4
<1>6. ASSUME NEW b \in AddressByte \cup IicByte, WriteIcdrt(c, b)
      PROVE  I2cInv'
  <2> DEFINE v == [u EXCEPT !.pending = b, !.tdre = FALSE, !.tend = FALSE]
  <2>1. b \in Nat
    BY DEF I2cAssumption
  <2>2. iic' = [iic EXCEPT ![c] = v] /\ UNCHANGED <<rom, owner, said, heard, expected>>
    BY <1>1, <1>6 DEF WriteIcdrt
  <2>3. v \in Unit
    <3> HIDE DEF u
    <3>1. b \in Int /\ u \in Unit
      BY <1>1, <2>1
    <3> HIDE <1>1, <2>1
    <3> QED BY <3>1 DEF Unit
  <2>4. /\ v.mst = u.mst /\ v.slaveActive = u.slaveActive /\ v.slaveTx = u.slaveTx /\ v.fabric = u.fabric /\ v.bbsy = u.bbsy
        /\ v.eptr = u.eptr /\ v.pending = b /\ v.tend = FALSE /\ v.sar = u.sar /\ v.ice = u.ice /\ v.addrPhase = u.addrPhase
        /\ v.readDir = u.readDir /\ v.expectPtr = u.expectPtr
    BY <1>1 DEF Unit
  <2>5. \/ u.slaveTx
        \/ u.mst /\ u.addrPhase
        \/ u.mst /\ ~u.readDir /\ owner[c] # Nobody
    BY <1>6 DEF WriteIcdrt, Careful
  <2> HIDE DEF v
  <2>6. ChannelInv(c, v, owner[c], expected[c])
    <3>1. u.slaveTx => ~u.mst /\ u.sar # {0}
      BY <1>1 DEF ChannelInv, IsSlaveCandidate
    <3> HIDE DEF u
    <3> QED BY <1>1, <2>4, <2>5, <3>1 DEF ChannelInv, IsSlaveCandidate
  <2> QED BY <1>2, <2>2, <2>3, <2>4, <2>6
<1>7. ASSUME NEW flag \in Flags, WriteIcsr2(c, flag)
      PROVE  I2cInv'
  <2> DEFINE v == [u EXCEPT ![flag] = FALSE]
  <2>1. flag = "tend" \/ flag = "rdrf" \/ flag = "nackf" \/ flag = "stop"
    BY DEF I2cAssumption
  <2>2. iic' = [iic EXCEPT ![c] = v] /\ UNCHANGED <<rom, owner, said, heard, expected>>
    BY <1>1, <1>7 DEF WriteIcsr2
  <2>3. v \in Unit
    <3> HIDE DEF u
    <3>1. CASE flag = "tend"
      <4>1. v = [u EXCEPT !.tend = FALSE]
        BY <3>1
      <4> QED BY <1>1, <4>1 DEF Unit
    <3>2. CASE flag = "rdrf"
      <4>1. v = [u EXCEPT !.rdrf = FALSE]
        BY <3>2
      <4> QED BY <1>1, <4>1 DEF Unit
    <3>3. CASE flag = "nackf"
      <4>1. v = [u EXCEPT !.nackf = FALSE]
        BY <3>3
      <4> QED BY <1>1, <4>1 DEF Unit
    <3>4. CASE flag = "stop"
      <4>1. v = [u EXCEPT !.stop = FALSE]
        BY <3>4
      <4> QED BY <1>1, <4>1 DEF Unit
    <3> QED BY <2>1, <3>1, <3>2, <3>3, <3>4
  <2>4. /\ v.mst = u.mst /\ v.slaveActive = u.slaveActive /\ v.slaveTx = u.slaveTx /\ v.fabric = u.fabric /\ v.bbsy = u.bbsy
        /\ v.eptr = u.eptr /\ v.pending = u.pending /\ (v.tend => u.tend) /\ v.sar = u.sar /\ v.ice = u.ice
        /\ v.addrPhase = u.addrPhase /\ v.readDir = u.readDir /\ v.expectPtr = u.expectPtr
    BY <1>1, <2>1 DEF Unit
  <2> HIDE DEF v
  <2>5. ChannelInv(c, v, owner[c], expected[c])
    BY <1>1, <2>4 DEF ChannelInv, IsSlaveCandidate
  <2> QED BY <1>2, <2>2, <2>3, <2>4, <2>5
<1>8. ASSUME ReadIcdrr(c)
      PROVE  I2cInv'
  <2> DEFINE v == [u EXCEPT !.rdrf = FALSE]
  <2>1. iic' = [iic EXCEPT ![c] = v] /\ UNCHANGED <<rom, owner, said, heard, expected>>
    BY <1>1, <1>8 DEF ReadIcdrr
  <2>2. v \in Unit
    BY <1>1 DEF Unit
  <2>3. /\ v.fabric = u.fabric /\ v.slaveActive = u.slaveActive /\ ChannelInv(c, v, owner[c], expected[c])
    BY <1>1 DEF Unit, ChannelInv, IsSlaveCandidate
  <2> HIDE DEF v
  <2> QED BY <1>2, <2>1, <2>2, <2>3
<1> QED
  BY <1>3, <1>4, <1>5, <1>6, <1>7, <1>8

\* A START takes a channel that nobody clocks and that holds nobody.
LEMMA StartKeeps ==
    ASSUME I2cAssumption, I2cInv, NEW c \in Riic, Start(c)
    PROVE  I2cInv'
<1> DEFINE u == iic[c]
           v == [u EXCEPT !.mst = TRUE, !.bbsy = TRUE, !.addrPhase = TRUE, !.tdre = TRUE]
           d == Bus'
<1>1. /\ u \in Unit /\ ChannelInv(c, u, owner[c], expected[c]) /\ iic \in [Riic -> Unit]
      /\ rom \in [Riic -> [0..(RomSize - 1) -> Int]]
      /\ owner \in [Riic -> Int] /\ expected \in [Riic -> Int]
      /\ said \in [Riic -> Seq(Int)] /\ heard \in [Riic -> Seq(Int \X Int)]
      /\ BusInv(Bus) /\ Bus.iic = iic /\ Bus.owner = owner /\ Bus.expected = expected
      /\ Bus.said = said /\ Bus.heard = heard
  BY OwnUnit
<1>2. c \in Master /\ u.ice = TRUE /\ u.sar = {0} /\ u.bbsy = FALSE
  BY <1>1 DEF Start, Unit
<1>3. /\ u.mst = FALSE /\ u.slaveActive = FALSE /\ u.slaveTx = FALSE /\ u.pending = Nothing /\ u.fabric = Nothing /\ expected[c] = Nothing
  BY <1>1, <1>2 DEF ChannelInv, Unit
<1>4. v \in Unit
  BY <1>1, ZenonT(60) DEF Unit
<1>5. /\ v.mst = TRUE /\ v.bbsy = TRUE /\ v.addrPhase = TRUE /\ v.slaveActive = FALSE /\ v.slaveTx = FALSE
      /\ v.fabric = Nothing /\ v.eptr = u.eptr /\ v.pending = Nothing /\ v.sar = {0} /\ v.ice = TRUE
  BY <1>1, <1>2, <1>3 DEF Unit
<1>6. ChannelInv(c, v, Nobody, Nothing)
  BY <1>1, <1>2, <1>5 DEF ChannelInv, Nobody, Nothing, Rom
<1>7. /\ iic' = [iic EXCEPT ![c] = v] /\ owner' = [owner EXCEPT ![c] = Nobody]
      /\ said' = [said EXCEPT ![c] = <<>>] /\ heard' = [heard EXCEPT ![c] = <<>>] /\ rom' = rom /\ expected' = expected
  BY <1>1 DEF Start
<1> HIDE DEF v
<1>8. /\ d.iic = iic' /\ d.owner = owner' /\ d.expected = expected' /\ d.said = said' /\ d.heard = heard'
      /\ d = [iic |-> iic', rom |-> rom', owner |-> owner', said |-> said', heard |-> heard', expected |-> expected']
  BY DEF Bus
<1>9. d \in BusState
  <2>1. Nobody \in Int
    BY DEF Nobody
  <2>2. iic' \in [Riic -> Unit] /\ owner' \in [Riic -> Int] /\ said' \in [Riic -> Seq(Int)]
        /\ heard' \in [Riic -> Seq(Int \X Int)]
    BY <1>1, <1>4, <1>7, <2>1
  <2> QED BY <1>1, <1>7, <1>8, <2>2 DEF BusState
<1>10. /\ d.iic[c] = v /\ d.owner[c] = Nobody /\ d.said[c] = <<>> /\ d.heard[c] = <<>> /\ d.expected[c] = Nothing
       /\ \A e \in Riic \ {c} :
             /\ d.iic[e] = iic[e] /\ d.owner[e] = owner[e] /\ d.expected[e] = expected[e]
             /\ d.said[e] = said[e] /\ d.heard[e] = heard[e]
  BY <1>1, <1>3, <1>7, <1>8
<1> HIDE DEF d
<1>11. BusInv(d)
  <2>1. /\ d.iic[c].fabric = Bus.iic[c].fabric /\ d.iic[c].slaveActive = Bus.iic[c].slaveActive
        /\ ChannelInv(c, d.iic[c], d.owner[c], d.expected[c]) /\ HeardBy(d.owner[c], d.said[c], d.heard[c])
    BY <1>1, <1>3, <1>5, <1>6, <1>10, HeardNone
  <2>2. \A e \in Riic \ {c} :
             /\ d.iic[e] = Bus.iic[e] /\ d.owner[e] = Bus.owner[e] /\ d.expected[e] = Bus.expected[e]
             /\ d.said[e] = Bus.said[e] /\ d.heard[e] = Bus.heard[e]
    BY <1>1, <1>10
  <2> QED BY <1>1, <1>9, <2>1, <2>2, OneChannel
<1> QED
  BY <1>11 DEF I2cInv, d

\* A STOP lets go of the slave and leaves the bus idle.
LEMMA StopKeeps ==
    ASSUME I2cAssumption, OneMaster, Careful, I2cInv, NEW c \in Riic, Stop(c)
    PROVE  I2cInv'
<1> DEFINE u == iic[c]
           r == Release(iic, c)
           v == [u EXCEPT !.fabric = Nothing, !.bbsy = FALSE, !.mst = FALSE, !.stop = TRUE, !.tend = TRUE, !.addrPhase = FALSE]
           d == Bus'
<1>1. /\ u \in Unit /\ ChannelInv(c, u, owner[c], expected[c])
      /\ rom \in [Riic -> [0..(RomSize - 1) -> Int]]
      /\ owner \in [Riic -> Int] /\ expected \in [Riic -> Int]
      /\ said \in [Riic -> Seq(Int)] /\ heard \in [Riic -> Seq(Int \X Int)]
      /\ BusInv(Bus) /\ Bus.iic = iic /\ Bus.owner = owner /\ Bus.expected = expected
      /\ Bus.said = said /\ Bus.heard = heard
  BY OwnUnit
<1>2. u.mst = TRUE /\ u.bbsy = TRUE /\ u.tend = TRUE
  BY <1>1 DEF Stop, Careful, Unit
<1>3. u.pending = Nothing /\ u.slaveActive = FALSE /\ u.slaveTx = FALSE
  BY <1>1, <1>2 DEF ChannelInv, IsSlaveCandidate, Unit
<1>4. /\ r \in [Riic -> Unit]
      /\ \A e \in Riic : ~r[e].slaveActive /\ r[e].fabric = Nothing
      /\ r[c] = [u EXCEPT !.fabric = Nothing]
      /\ \A e \in Riic \ {c} : ChannelInv(e, r[e], owner[e], expected[e])
  <2>1. r = Release(Bus.iic, c) /\ Bus.iic[c].mst
    BY <1>1, <1>2
  <2> HIDE DEF r
  <2>2. /\ r \in [Riic -> Unit]
        /\ \A e \in Riic : ~r[e].slaveActive /\ r[e].fabric = Nothing
        /\ r[c] = [Bus.iic[c] EXCEPT !.fabric = Nothing]
        /\ \A e \in Riic \ {c} : ChannelInv(e, r[e], Bus.owner[e], Bus.expected[e])
    <3> DEFINE b == Bus
    <3>1. BusInv(b) /\ r = Release(b.iic, c) /\ b.iic[c].mst
      BY <1>1, <2>1
    <3> HIDE DEF b
    <3>2. /\ r \in [Riic -> Unit]
          /\ \A e \in Riic : ~r[e].slaveActive /\ r[e].fabric = Nothing
          /\ r[c] = [b.iic[c] EXCEPT !.fabric = Nothing]
          /\ \A e \in Riic \ {c} : ChannelInv(e, r[e], b.owner[e], b.expected[e])
      BY <3>1, Released
    <3> QED BY <3>2 DEF b
  <2> QED BY <1>1, <2>2
<1>5. v \in Unit
  <2>1. Nothing \in Int
    BY DEF Nothing
  <2> HIDE DEF u
  <2> QED BY <1>1, <2>1 DEF Unit
<1>6. /\ v.mst = FALSE /\ v.bbsy = FALSE /\ v.slaveActive = FALSE /\ v.slaveTx = FALSE
      /\ v.fabric = Nothing /\ v.eptr = u.eptr /\ v.pending = Nothing
  BY <1>1, <1>2, <1>3 DEF Unit
<1>7. ChannelInv(c, v, Nobody, Nothing)
  BY <1>1, <1>6 DEF ChannelInv
<1>8. /\ iic' = [r EXCEPT ![c] = v] /\ owner' = [owner EXCEPT ![c] = Nobody] /\ expected' = [expected EXCEPT ![c] = Nothing]
      /\ said' = [said EXCEPT ![c] = <<>>] /\ heard' = [heard EXCEPT ![c] = <<>>] /\ rom' = rom
  <2>1. iic' = [r EXCEPT ![c].bbsy = FALSE, ![c].mst = FALSE, ![c].stop = TRUE, ![c].tend = TRUE, ![c].addrPhase = FALSE]
    BY DEF Stop
  <2> HIDE DEF r, u
  <2>2. v = [r[c] EXCEPT !.bbsy = FALSE, !.mst = FALSE, !.stop = TRUE, !.tend = TRUE, !.addrPhase = FALSE]
    BY <1>1, <1>4 DEF Unit
  <2> HIDE DEF v
  <2>3. iic' = [r EXCEPT ![c] = v]
    BY <1>4, <2>1, <2>2
  <2> QED BY <2>3 DEF Stop
<1> HIDE DEF v, r
<1>9. /\ d.iic = iic' /\ d.owner = owner' /\ d.expected = expected' /\ d.said = said' /\ d.heard = heard'
      /\ d = [iic |-> iic', rom |-> rom', owner |-> owner', said |-> said', heard |-> heard', expected |-> expected']
  BY DEF Bus
<1>10. d \in BusState
  <2>1. Nobody \in Int /\ Nothing \in Int
    BY DEF Nobody, Nothing
  <2>2. /\ iic' \in [Riic -> Unit] /\ owner' \in [Riic -> Int] /\ said' \in [Riic -> Seq(Int)]
        /\ heard' \in [Riic -> Seq(Int \X Int)] /\ expected' \in [Riic -> Int]
    BY <1>1, <1>4, <1>5, <1>8, <2>1
  <2> QED BY <1>1, <1>8, <1>9, <2>2 DEF BusState
<1>11. /\ d.iic[c] = v /\ d.owner[c] = Nobody /\ d.said[c] = <<>> /\ d.heard[c] = <<>> /\ d.expected[c] = Nothing
       /\ \A e \in Riic \ {c} :
             /\ d.iic[e] = r[e] /\ d.owner[e] = owner[e] /\ d.expected[e] = expected[e]
             /\ d.said[e] = said[e] /\ d.heard[e] = heard[e]
  BY <1>1, <1>4, <1>8, <1>9
<1> HIDE DEF d
<1>12. Channels(d)
  <2> SUFFICES ASSUME NEW e \in Riic
               PROVE  ChannelInv(e, d.iic[e], d.owner[e], d.expected[e]) /\ HeardBy(d.owner[e], d.said[e], d.heard[e])
    BY DEF Channels
  <2>1. CASE e = c
    BY <1>7, <1>11, <2>1, HeardNone
  <2>2. CASE e # c
    <3>1. HeardBy(owner[e], said[e], heard[e])
      BY <1>1 DEF BusInv, Channels
    <3> QED BY <1>4, <1>11, <2>2, <3>1
  <2> QED BY <2>1, <2>2
<1>13. LinksOf(d.iic)
  <2>1. \A e \in Riic : d.iic[e].fabric = Nothing /\ ~d.iic[e].slaveActive
    <3> TAKE e \in Riic
    <3>1. CASE e = c
      BY <1>6, <1>11, <3>1
    <3>2. CASE e # c
      BY <1>4, <1>11, <3>2
    <3> QED BY <3>1, <3>2
  <2> QED BY <2>1 DEF LinksOf
<1> QED
  BY <1>10, <1>12, <1>13 DEF I2cInv, BusInv, d

\* An attached part finds the bus idle, and so no pointer expected.
LEMMA ExchangeKeeps ==
    ASSUME I2cAssumption, Careful, I2cInv, NEW c \in Riic,
           NEW bytes \in {<<>>} \cup [1..2 -> IicByte], NEW reads \in 0..1, ComponentI2c(c, bytes, reads)
    PROVE  I2cInv'
<1> DEFINE u == iic[c]
           ptr == (Written(c, bytes).ptr + reads) % RomSize
           v == [u EXCEPT !.eptr = ptr]
           mid == WithUnit(Bus, c, v)
           d == Bus'
           cells == [rom EXCEPT ![c] = Written(c, bytes).cells]
<1>1. /\ u \in Unit /\ ChannelInv(c, u, owner[c], expected[c]) /\ iic \in [Riic -> Unit]
      /\ rom \in [Riic -> [0..(RomSize - 1) -> Int]]
      /\ BusInv(Bus) /\ Bus \in BusState /\ Bus.iic = iic /\ Bus.owner = owner /\ Bus.expected = expected
  BY OwnUnit
<1>2. Written(c, bytes).cells \in [0..(RomSize - 1) -> Int] /\ Written(c, bytes).ptr \in 0..(RomSize - 1)
  BY <1>1, WrittenType DEF ChannelInv
<1>3. ptr \in 0..(RomSize - 1) /\ ptr \in Int
  BY <1>2 DEF I2cAssumption
<1>4. cells \in [Riic -> [0..(RomSize - 1) -> Int]]
  BY <1>1, <1>2
<1>5. iic' = [iic EXCEPT ![c] = v] /\ rom' = cells /\ UNCHANGED <<owner, said, heard, expected>> /\ ~u.bbsy
  BY <1>1 DEF ComponentI2c, Careful
<1> HIDE DEF ptr, cells
<1>6. v \in Unit
  BY <1>1, <1>3 DEF Unit
<1>7. /\ v.fabric = u.fabric /\ v.slaveActive = u.slaveActive
      /\ v.mst = u.mst /\ v.slaveTx = u.slaveTx /\ v.bbsy = u.bbsy /\ v.eptr = ptr /\ v.pending = u.pending
      /\ v.tend = u.tend /\ v.sar = u.sar
  BY <1>1 DEF Unit
<1>8. ChannelInv(c, v, owner[c], expected[c])
  BY <1>1, <1>3, <1>5, <1>7 DEF ChannelInv
<1> HIDE DEF v
<1>9. mid = WithUnit(Bus, c, v)
  OBVIOUS
<1> HIDE DEF mid
<1>10. BusInv(mid)
  BY <1>1, <1>6, <1>7, <1>8, <1>9, OneUnit
<1>11. /\ mid = [iic |-> iic', rom |-> rom, owner |-> owner, said |-> said, heard |-> heard, expected |-> expected]
       /\ d = [iic |-> iic', rom |-> cells, owner |-> owner, said |-> said, heard |-> heard, expected |-> expected]
  BY <1>5, <1>9 DEF WithUnit, Bus
<1>12. /\ d.iic = mid.iic /\ d.owner = mid.owner /\ d.said = mid.said /\ d.heard = mid.heard /\ d.expected = mid.expected
       /\ mid \in BusState /\ Channels(mid) /\ LinksOf(mid.iic)
  BY <1>10, <1>11 DEF BusInv
<1>13. d \in BusState
  BY <1>4, <1>11, <1>12 DEF BusState
<1> HIDE DEF d
<1>14. BusInv(d)
  BY <1>12, <1>13 DEF BusInv, Channels
<1> QED
  BY <1>14 DEF I2cInv, d

\* The bus powers up idle.
LEMMA I2cInitially == ASSUME I2cAssumption, I2cInit PROVE I2cInv
<1> DEFINE d == Bus
<1>1. RomSize \in Nat \ {0}
  BY DEF I2cAssumption
<1>2. Cold \in Unit
  BY DEF Cold, Unit, Nothing
<1>3. ~Cold.mst /\ ~Cold.slaveActive /\ ~Cold.bbsy /\ ~Cold.slaveTx /\ Cold.pending = Nothing /\ Cold.fabric = Nothing /\ Cold.eptr = 0
  BY DEF Cold
<1>4. /\ d.iic = [c \in Riic |-> Cold] /\ d.owner = [c \in Riic |-> Nobody] /\ d.expected = [c \in Riic |-> Nothing]
      /\ d.said = [c \in Riic |-> <<>>] /\ d.heard = [c \in Riic |-> <<>>]
      /\ d.rom = [c \in Riic |-> [cell \in 0..(RomSize - 1) |-> 0]]
      /\ d = [iic |-> d.iic, rom |-> d.rom, owner |-> d.owner, said |-> d.said, heard |-> d.heard, expected |-> d.expected]
  BY DEF I2cInit, Bus
<1> HIDE DEF d
<1>5. d \in BusState
  <2>1. Nobody \in Int /\ Nothing \in Int
    BY DEF Nobody, Nothing
  <2>2. d.iic \in [Riic -> Unit] /\ d.owner \in [Riic -> Int] /\ d.expected \in [Riic -> Int]
    BY <1>2, <1>4, <2>1
  <2>3. d.said \in [Riic -> Seq(Int)] /\ d.heard \in [Riic -> Seq(Int \X Int)]
    BY <1>4
  <2>4. d.rom \in [Riic -> [0..(RomSize - 1) -> Int]]
    BY <1>4
  <2> QED BY <1>4, <2>2, <2>3, <2>4 DEF BusState
<1>6. Channels(d)
  <2>1. \A c \in Riic : ChannelInv(c, Cold, Nobody, Nothing)
    BY <1>1, <1>3 DEF ChannelInv, Nobody, Nothing, Rom
  <2> QED BY <1>4, <2>1, HeardNone DEF Channels
<1>7. LinksOf(d.iic)
  BY <1>3, <1>4 DEF LinksOf
<1> QED
  BY <1>5, <1>6, <1>7 DEF I2cInv, BusInv, d

\* What the bus promises follows from the invariant.
LEMMA I2cPromises == ASSUME I2cAssumption, I2cInv PROVE AllHeard /\ FabricAgree /\ PointerHonoured
<1>1. /\ \A c \in Riic : ChannelInv(c, iic[c], owner[c], expected[c]) /\ HeardBy(owner[c], said[c], heard[c])
      /\ LinksOf(iic)
  BY DEF I2cInv, BusInv, Channels, Bus
<1>2. AllHeard
  BY <1>1 DEF AllHeard, HeardBy
<1>3. PointerHonoured
  BY <1>1 DEF PointerHonoured, ChannelInv
<1>4. FabricAgree
  <2> SUFFICES ASSUME NEW s \in Riic
               PROVE  iic[s].slaveActive <=> \E c \in Riic : iic[c].fabric = s /\ iic[c].bbsy
    BY DEF FabricAgree
  <2>1. s # Nothing
    BY DEF I2cAssumption, Nothing
  <2>2. ASSUME NEW c \in Riic, iic[c].fabric = s
        PROVE  iic[s].slaveActive /\ iic[c].bbsy
    <3>1. iic[c].mst
      BY <1>1, <2>1, <2>2 DEF ChannelInv
    <3>2. iic[c].bbsy
      BY <1>1, <3>1 DEF ChannelInv
    <3>3. iic[s].slaveActive
      BY <1>1, <2>1, <2>2 DEF LinksOf
    <3> QED BY <3>2, <3>3
  <2>3. ASSUME iic[s].slaveActive
        PROVE  \E c \in Riic : iic[c].fabric = s
    BY <1>1, <2>3 DEF LinksOf
  <2> QED BY <2>2, <2>3
<1> QED
  BY <1>2, <1>3, <1>4

\* A bus of one master whose firmware waits for the flags: every byte is taken by
\* who acknowledged, no slave is left behind, the EEPROM pointer is the master's.
THEOREM BusKept ==
    ASSUME I2cAssumption, Careful, OneMaster
    PROVE  I2cSpec => []BusInStep
<1>1. I2cInit => I2cInv
  BY I2cInitially
<1>2. I2cInv /\ [I2cNext]_i2cVars => I2cInv'
  <2> SUFFICES ASSUME I2cInv, [I2cNext]_i2cVars PROVE I2cInv'
    OBVIOUS
  <2>1. CASE UNCHANGED i2cVars
    BY <2>1 DEF i2cVars, I2cInv, Bus
  <2>2. CASE I2cNext
    <3>1. PICK c \in Riic :
            \/ Tick(c)
            \/ \E w \in Iccr1 : WriteIccr1(c, w)
            \/ \E addrs \in Sar[c] : WriteSar(c, addrs)
            \/ Start(c)
            \/ Restart(c)
            \/ Stop(c)
            \/ \E b \in AddressByte \cup IicByte : WriteIcdrt(c, b)
            \/ \E flag \in Flags : WriteIcsr2(c, flag)
            \/ ReadIcdrr(c)
            \/ \E bytes \in {<<>>} \cup [1..2 -> IicByte], reads \in 0..1 : ComponentI2c(c, bytes, reads)
      BY <2>2 DEF I2cNext
    <3> QED
      BY <3>1, TickKeeps, RegistersKeep, StartKeeps, StopKeeps, ExchangeKeeps
  <2> QED BY <2>1, <2>2
<1>3. I2cInv => BusInStep
  BY I2cPromises DEF BusInStep
<1> QED
  BY <1>1, <1>2, <1>3, PTL DEF I2cSpec
=============================================================================
