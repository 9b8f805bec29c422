------------------------------ MODULE StmCrypto -----------------------------
(***************************************************************************)
(* The cryptographic units of the STM32 snapshot: the cipher (cryp.rs), the  *)
(* hash (hash.rs), the random numbers (rng.rs) and the CRC (crc.rs).  A block *)
(* is the set of the terms it is the exclusive or of, the ciphers and hashes  *)
(* are free functions, and what the FIFOs hold are halves of an AES block,    *)
(* each as long as a block of DES.  Left out: the order of bytes (DATATYPE),  *)
(* the lengths of keys and registers only kept.                              *)
(***************************************************************************)
EXTENDS Integers, Sequences, SequencesExt

CONSTANTS
    Crypto,       \* which of "cipher", "hash", "random", "crc" firmware uses
    Modes,        \* of "ecb", "cbc", "ctr", "gcm", "ccm", "des"
    Blocks,       \* the blocks and words firmware sends
    Wrap,         \* 2^32: values of the counter in a block
    MaxBlocks,    \* bound: blocks of one message
    Gap,          \* 40: instructions the random number stays
    CrcWidth, Poly,      \* 32, and the bits of 0x04C1_1DB7
    ByteBits, WordBytes, \* 8 and 4
    CryptoRude    \* what a careless program does: "second", "header", "again"

VARIABLES
    cryp,      \* the cipher
    hash,      \* the hash
    rng,       \* the random numbers; lag is the time since last_regen
    crc,       \* DR of the CRC, a set of bits
    nvic,      \* the interrupts that are pending
    seen       \* history: the messages

cryptoVars == <<cryp, hash, rng, crc, nvic, seen>>

Uses(what) == what \in Crypto
Reset == 0..(CrcWidth - 1)
Key == "key"
Ctr(n) == {<<"iv", 0, n % Wrap>>}

HashReset == [msg |-> <<>>, hr |-> <<>>, nblw |-> 0, dcis |-> FALSE, ie |-> {}]
RngReset == [lag |-> Gap + 1, sr |-> {}, ie |-> FALSE, dr |-> 0]

Init ==
    /\ cryp = [on |-> FALSE, mode |-> "ecb", dec |-> FALSE, phase |-> 0, ctr |-> 0, h |-> {}, y |-> {}, gctr |-> 0,
               data |-> 0, mac |-> {}, in |-> <<>>, out |-> <<>>, ie |-> FALSE]
    /\ hash = HashReset /\ rng = RngReset /\ crc = Reset
    /\ nvic = {}
    /\ seen = [put |-> <<>>, got |-> <<>>, half |-> 0, gcm |-> FALSE, msg |-> <<>>, last |-> <<>>, told |-> FALSE,
               crc |-> Reset, age |-> 0, given |-> FALSE]

-----------------------------------------------------------------------------
(* Blocks.                                                                   *)

Xor(a, b) == (a \ b) \cup (b \ a)
E(b) == {<<"E", Key, b>>}
D(b) == IF \E t \in b : b = {t} /\ t[1] = "E" THEN (CHOOSE t \in b : TRUE)[3] ELSE {<<"D", Key, b>>}
Mul(y, h) == {<<"mul", y, h>>}
Lengths(data) == {<<"len", 0, data>>}

IsDes(mode) == mode = "des"
Size(mode) == IF IsDes(mode) THEN 1 ELSE 2

\* Halves of one block are the block; halves of two are neither.
Joined(a, b) == IF a[1] = b[1] /\ a[2] = 1 /\ b[2] = 2 THEN {<<"m", 0, a[1]>>} ELSE {<<"mix", a, b>>}
Halves(mode, b) == IF IsDes(mode) THEN << <<b, 1>> >> ELSE << <<b, 1>>, <<b, 2>> >>
Taken(mode, in) == IF IsDes(mode) THEN {<<"u", in[1][2], in[1][1]>>} ELSE Joined(in[1], in[2])

-----------------------------------------------------------------------------
(* The cipher.  A step yields the new state and the block that comes out.    *)

Cipher(c, b) == IF c.dec THEN D(b) ELSE E(b)

AesCbc(c, b) == IF c.dec THEN Xor(D(b), Ctr(0)) ELSE E(Xor(b, Ctr(0)))

\* Mutant: every block is made with the same counter.
CtrStuck(c, b) == <<c, Xor(b, E(Ctr(c.ctr)))>>

CtrBlock(c, b) == <<[c EXCEPT !.ctr = (@ + 1) % Wrap], Xor(b, E(Ctr(c.ctr)))>>

GcmBlock(c, b) ==
    LET n == (c.gctr + 1) % Wrap
        result == Xor(b, E(Ctr(n)))
        tag == Mul(Xor(c.y, Lengths(c.data)), c.h)
    IN  CASE c.phase = 0 -> <<c, b>>
          [] c.phase = 1 -> <<[c EXCEPT !.y = Mul(Xor(@, b), c.h)], b>>
          [] c.phase = 2 -> <<[c EXCEPT !.gctr = n, !.data = @ + 1,
                                        !.y = Mul(Xor(@, IF c.dec THEN b ELSE result), c.h)], result>>
          [] OTHER       -> <<[c EXCEPT !.y = tag], Xor(tag, E(Ctr(1)))>>

CcmBlock(c, b) ==
    CASE c.phase = 0 -> <<[c EXCEPT !.mac = E(Ctr(0))], b>>
      [] c.phase = 1 -> <<[c EXCEPT !.mac = E(Xor(@, b))], b>>
      [] c.phase = 2 -> <<[c EXCEPT !.mac = E(Xor(@, b))], Xor(b, E(Ctr(1)))>>
      [] OTHER       -> <<c, c.mac>>

OneBlock(c, b) ==
    CASE c.mode = "ctr" -> CtrBlock(c, b)
      [] c.mode = "gcm" -> GcmBlock(c, b)
      [] c.mode = "ccm" -> CcmBlock(c, b)
      [] c.mode = "cbc" -> <<c, AesCbc(c, b)>>
      [] OTHER          -> <<c, Cipher(c, b)>>

\* process_fifo: nothing below sixteen bytes, then every block there is.
Enough(c) == Len(c.in) >= 2

Drained(c, k) ==
    LET step == OneBlock(c, Taken(c.mode, c.in))
    IN  [step[1] EXCEPT !.in = SubSeq(@, Size(c.mode) + 1, Len(@)), !.out = @ \o Halves(c.mode, step[2])]

Processed(c) == IF Enough(c) THEN FoldLeft(Drained, c, [k \in 1..(Len(c.in) \div Size(c.mode)) |-> k]) ELSE c
Raised(c) == IF Enough(c) /\ c.ie THEN nvic \cup {"cryp"} ELSE nvic

Free(c) == [c EXCEPT !.in = <<>>, !.out = <<>>]
Fresh == [seen EXCEPT !.put = <<>>, !.got = <<>>, !.half = 0]

\* CR, enabled: the counters start from the IV; H is made of what H was.
Start(mode, dec) ==
    /\ Uses("cipher") /\ ~cryp.on
    /\ mode = "gcm" /\ seen.gcm => "again" \in CryptoRude
    /\ cryp' = [cryp EXCEPT !.on = TRUE, !.mode = mode, !.dec = dec, !.phase = 0, !.ctr = 0,
                            !.h = IF mode = "gcm" THEN E(@) ELSE @, !.gctr = IF mode = "gcm" THEN 1 ELSE @,
                            !.y = IF mode = "gcm" THEN {} ELSE @, !.data = IF mode = "gcm" THEN 0 ELSE @,
                            !.mac = IF mode = "ccm" THEN {} ELSE @]
    /\ seen' = [Fresh EXCEPT !.gcm = @ \/ mode = "gcm"]
    /\ UNCHANGED <<hash, rng, crc, nvic>>

Stop ==
    /\ cryp.on /\ cryp' = [Free(cryp) EXCEPT !.on = FALSE]
    /\ seen' = Fresh
    /\ UNCHANGED <<hash, rng, crc, nvic>>

\* GCM_CCMPH, at the end of a block.
SetPhase(n) ==
    /\ cryp.on /\ cryp.mode \in {"gcm", "ccm"} /\ n > cryp.phase /\ cryp.in = <<>>
    /\ cryp' = [cryp EXCEPT !.phase = n]
    /\ UNCHANGED <<hash, rng, crc, nvic, seen>>

\* FFLUSH, before a message, empties the FIFOs and forgets the tag.
Flush ==
    /\ Uses("cipher") /\ seen.put = <<>>
    /\ cryp' = [Free(cryp) EXCEPT !.y = {}, !.data = 0]
    /\ seen' = Fresh
    /\ UNCHANGED <<hash, rng, crc, nvic>>

Room == Len(seen.put) < MaxBlocks
Usual ==
    /\ cryp.mode \in {"cbc", "ccm"} /\ seen.put # <<>> => "second" \in CryptoRude
    /\ cryp.mode \in {"gcm", "ccm"} /\ cryp.phase < 2 => "header" \in CryptoRude
    /\ cryp.mode = "ccm" /\ cryp.phase = 3 => "header" \in CryptoRude
    /\ cryp.mode = "gcm" /\ cryp.phase = 3 => \A i \in 1..Len(seen.put) : seen.put[i][1] # 3

\* DIN: the halves of a block, one after the other.
WriteDin(m) ==
    LET half == IF IsDes(cryp.mode) THEN 1 ELSE seen.half + 1
        c == [cryp EXCEPT !.in = Append(@, <<m, half>>)]
        whole == half = Size(cryp.mode)
        last == SubSeq(c.in, Len(c.in) - Size(c.mode) + 1, Len(c.in))
    IN  /\ cryp.on /\ Room /\ Usual
        /\ seen.half = 1 => cryp.in # <<>> /\ m = Last(cryp.in)[1]
        /\ cryp' = Processed(c)
        /\ nvic' = Raised(c)
        /\ seen' = [seen EXCEPT !.half = IF whole THEN 0 ELSE half,
                                !.put = IF ~whole THEN @ ELSE Append(@, <<cryp.phase, Taken(cryp.mode, last)>>)]
        /\ UNCHANGED <<hash, rng, crc>>

ReadDout ==
    /\ cryp.out # <<>>
    /\ cryp' = [cryp EXCEPT !.out = Tail(@)]
    /\ seen' = [seen EXCEPT !.got = Append(@, Head(cryp.out))]
    /\ UNCHANGED <<hash, rng, crc, nvic>>

WriteImscr(ie) ==
    /\ Uses("cipher") /\ cryp' = [cryp EXCEPT !.ie = ie]
    /\ UNCHANGED <<hash, rng, crc, nvic, seen>>

-----------------------------------------------------------------------------
(* The hash: the words of a message, of the last one as many bytes as NBLW    *)
(* says.                                                                     *)

Digest(msg, nblw) == IF nblw = 0 \/ msg = <<>> THEN <<"H", msg, 4>> ELSE <<"H", msg, (nblw + 7) \div 8>>

DigestDone(h) == IF h.dcis /\ "dcie" \in h.ie THEN nvic \cup {"hash"} ELSE nvic

\* CR with INIT, and without.
HashInit ==
    /\ Uses("hash") /\ hash' = [hash EXCEPT !.msg = <<>>, !.hr = <<>>]
    /\ seen' = [seen EXCEPT !.msg = <<>>, !.last = <<>>, !.told = FALSE]
    /\ UNCHANGED <<cryp, rng, crc, nvic>>

WriteHashCr(ie) ==
    /\ Uses("hash") /\ hash' = [hash EXCEPT !.ie = ie]
    /\ UNCHANGED <<cryp, rng, crc, nvic, seen>>

WriteHashDin(w) ==
    /\ Uses("hash") /\ Len(hash.msg) < MaxBlocks /\ hash' = [hash EXCEPT !.msg = Append(@, w)]
    /\ nvic' = IF "dinie" \in hash.ie THEN nvic \cup {"hash"} ELSE nvic
    /\ seen' = [seen EXCEPT !.msg = Append(@, w)]
    /\ UNCHANGED <<cryp, rng, crc>>

\* STR: the number of bits alone, or with DCAL.
WriteStr(nblw, dcal) ==
    /\ Uses("hash")
    /\ LET h == [hash EXCEPT !.nblw = nblw, !.dcis = @ \/ dcal, !.hr = IF dcal THEN Digest(hash.msg, nblw) ELSE @]
       IN  hash' = h /\ nvic' = IF dcal THEN DigestDone(h) ELSE nvic
    /\ seen' = IF ~dcal THEN seen
               ELSE [seen EXCEPT !.last = <<"H", seen.msg, IF nblw = 0 \/ seen.msg = <<>> THEN 4 ELSE nblw \div 8>>,
                                 !.told = @ \/ "dcie" \in hash.ie]
    /\ UNCHANGED <<cryp, rng, crc>>

-----------------------------------------------------------------------------
(* The random numbers: a read makes a new one when the old one is old enough. *)

Pass ==
    /\ Uses("random") /\ rng.lag <= Gap /\ rng' = [rng EXCEPT !.lag = @ + 1]
    /\ seen' = [seen EXCEPT !.age = @ + 1, !.given = FALSE]
    /\ UNCHANGED <<cryp, hash, crc, nvic>>

Regenerated(r) == IF r.lag > Gap THEN [r EXCEPT !.lag = 0, !.dr = 1 - @, !.sr = @ \cup {"drdy"}] ELSE r

\* The read that makes a number ready takes it, too.
ReadRandom ==
    /\ Uses("random")
    /\ LET r == Regenerated(rng)
       IN  /\ rng' = [r EXCEPT !.sr = @ \ {"drdy"}]
           /\ seen' = [seen EXCEPT !.age = IF r.dr = rng.dr THEN @ ELSE 0, !.given = TRUE]
    /\ UNCHANGED <<cryp, hash, crc, nvic>>

WriteRngCr(ie) ==
    /\ Uses("random") /\ rng' = [rng EXCEPT !.ie = ie]
    /\ nvic' = IF ie /\ "drdy" \in rng.sr THEN nvic \cup {"rng"} ELSE nvic
    /\ UNCHANGED <<cryp, hash, crc, seen>>

-----------------------------------------------------------------------------
(* The CRC: a word byte by byte, the highest first, a byte bit by bit.       *)

Top == CrcWidth - 1
Shift(c) == {b + 1 : b \in c \ {Top}}
Divided(c) == IF Top \in c THEN Xor(Shift(c), Poly) ELSE Shift(c)

CrcByte(c, byte) == FoldLeft(LAMBDA r, k : Divided(r), Xor(c, {b + CrcWidth - ByteBits : b \in byte}), [k \in 1..ByteBits |-> k])

Byte(word, i) == {b - (i * ByteBits) : b \in {x \in word : x \div ByteBits = i}}

\* Mutant: the lowest byte is divided first.
CrcWordLow(c, word) == FoldLeft(LAMBDA r, i : CrcByte(r, Byte(word, i - 1)), c, [i \in 1..WordBytes |-> i])

CrcWord(c, word) == FoldLeft(LAMBDA r, i : CrcByte(r, Byte(word, WordBytes - i)), c, [i \in 1..WordBytes |-> i])

\* The division, one bit of the message after the other.
Serial(c, word) ==
    FoldLeft(LAMBDA r, b : IF (Top \in r) # (b \in word) THEN Xor(Shift(r), Poly) ELSE Shift(r), c,
             [i \in 1..(ByteBits * WordBytes) |-> (ByteBits * WordBytes) - i])

WriteCrcDr(word) ==
    /\ Uses("crc") /\ crc' = CrcWord(crc, word)
    /\ seen' = [seen EXCEPT !.crc = Serial(@, word)]
    /\ UNCHANGED <<cryp, hash, rng, nvic>>

CrcReset ==
    /\ Uses("crc") /\ crc' = Reset /\ seen' = [seen EXCEPT !.crc = Reset]
    /\ UNCHANGED <<cryp, hash, rng, nvic>>

-----------------------------------------------------------------------------
TakeIrq(i) ==
    /\ i \in nvic /\ nvic' = nvic \ {i}
    /\ seen' = IF i = "hash" THEN [seen EXCEPT !.told = FALSE] ELSE seen
    /\ UNCHANGED <<cryp, hash, rng, crc>>

CipherNext ==
    \/ \E mode \in Modes, dec \in BOOLEAN : Start(mode, dec)
    \/ Stop \/ Flush \/ ReadDout
    \/ \E n \in 1..3 : SetPhase(n)
    \/ \E m \in Blocks : WriteDin(m)
    \/ \E ie \in BOOLEAN : WriteImscr(ie)

HashNext ==
    \/ HashInit
    \/ \E m \in Blocks : WriteHashDin(m)
    \/ \E ie \in SUBSET {"dcie", "dinie"} : WriteHashCr(ie)
    \/ \E nblw \in {0, 8, 16}, dcal \in BOOLEAN : WriteStr(nblw, dcal)

RandomNext == Pass \/ ReadRandom \/ \E ie \in BOOLEAN : WriteRngCr(ie)
CrcNext == CrcReset \/ \E w \in SUBSET (0..((ByteBits * WordBytes) - 1)) : WriteCrcDr(w)

Next == CipherNext \/ HashNext \/ RandomNext \/ CrcNext \/ \E i \in nvic : TakeIrq(i)

Spec == Init /\ [][Next]_cryptoVars

-----------------------------------------------------------------------------
\* What a message of the mode gives, block by block: chained where the mode chains, with
\* the counter of the block where it counts, and the tag of the data in the last phase.
Message == [i \in 1..Len(seen.put) |-> seen.put[i][2]]
Chained == LET c[i \in 0..Len(seen.put)] == IF i = 0 THEN Ctr(0)
                                            ELSE IF cryp.dec THEN Message[i] ELSE E(Xor(Message[i], c[i - 1]))
           IN  c
Hidden(i, first) == Xor(Message[i], E(Ctr(first + i)))
Data == {i \in 1..Len(seen.put) : seen.put[i][1] = 2}
Tag == LET y[i \in 0..Len(seen.put)] ==
               IF i = 0 THEN {}
               ELSE IF i \in Data THEN Mul(Xor(y[i - 1], IF cryp.dec THEN Message[i] ELSE Hidden(i, 1)), E({})) ELSE y[i - 1]
       IN  Xor(Mul(Xor(y[Len(seen.put)], Lengths(Len(Message) - 1)), E({})), E(Ctr(1)))

Expected(i) ==
    CASE cryp.mode = "ctr" -> Hidden(i, -1)
      [] cryp.mode = "cbc" -> IF cryp.dec THEN Xor(D(Message[i]), Chained[i - 1]) ELSE Chained[i]
      [] cryp.mode = "gcm" -> IF seen.put[i][1] = 2 THEN Hidden(i, 1) ELSE Tag
      [] cryp.mode = "ccm" -> Hidden(i, 0)
      [] OTHER             -> IF cryp.dec THEN D(Message[i]) ELSE E(Message[i])

\* The halves that came out are those of the message that went in, in order, and only
\* what is still in the input FIFO is missing.
CipherAgrees ==
    LET all == seen.got \o cryp.out
    IN  /\ Len(all) + Len(cryp.in) = (Size(cryp.mode) * Len(seen.put)) + seen.half
        /\ \A i \in 1..Len(all) :
               LET n == ((i - 1) \div Size(cryp.mode)) + 1
               IN  n <= Len(seen.put) => all[i] = Halves(cryp.mode, Expected(n))[((i - 1) % Size(cryp.mode)) + 1]

\* The digest is that of the message since INIT, of its last word as many bytes as were
\* asked for, and its end is told.
DigestAgrees ==
    /\ hash.hr = seen.last /\ (seen.last # <<>> => hash.dcis)
    /\ seen.told => "hash" \in nvic

\* No number is given when it is older than the gap.
RandomAgrees == seen.given => seen.age <= Gap

\* The CRC is that of the division bit by bit.
CrcAgrees == crc = seen.crc

CryptoAgrees == CipherAgrees /\ DigestAgrees /\ RandomAgrees /\ CrcAgrees

\* A block that has arrived is processed.
BlocksGo == Len(cryp.in) < Size(cryp.mode)

\* A program that waits for DRDY reads a number.
RandomProceeds == rng.lag > Gap => "drdy" \in rng.sr
=============================================================================
