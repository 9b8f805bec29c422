----------------------------- MODULE MCSnapshot -----------------------------
(***************************************************************************)
(* The peripherals of the STM32 snapshot on small instances.  They share     *)
(* nothing here, so a behaviour is one of them: `part' says which, and u1 to  *)
(* u12 are the variables of its module, in their order there.                *)
(***************************************************************************)
EXTENDS Integers, Sequences

CONSTANT Parts

VARIABLES part, u1, u2, u3, u4, u5, u6, u7, u8, u9, u10, u11, u12

vars == <<part, u1, u2, u3, u4, u5, u6, u7, u8, u9, u10, u11, u12>>

-----------------------------------------------------------------------------
(* Timers, watchdogs and the clock, looked at late and more often.           *)

NoAlarm == <<-1, -1, -1>>
Times == {<<0, 0, 8>>, <<0, 0, 87>>}
Alarms == {NoAlarm, <<-1, -1, 9>>, <<-1, 0, 16>>, <<-1, -1, 89>>}

Tim == INSTANCE StmTimers WITH
    Units <- {"tim"}, Top <- 2, Cap <- 2, Modes <- {"up", "down"}, Psc <- {0, 1}, Values <- {0, 1}, Prescalers <- {1},
    SecondLen <- 2, Floor <- 1, Times <- {<<0, 0, 8>>}, Alarms <- {}, MaxLag <- 2, MaxAge <- 1, TimerRude <- {},
    tim <- u1, wwdg <- u2, iwdg <- u3, rtc <- u4, resets <- u5, ideal <- u6, age <- u7, wrong <- u8, owed <- u9,
    looks <- u10, setTo <- u11
\* A prescaler that divides, and more counts between two looks than one look catches up.
Prescaled == INSTANCE StmTimers WITH
    Units <- {"tim"}, Top <- 2, Cap <- 2, Modes <- {"centre"}, Psc <- {2}, Values <- {}, Prescalers <- {1},
    SecondLen <- 2, Floor <- 1, Times <- {<<0, 0, 8>>}, Alarms <- {}, MaxLag <- 6, MaxAge <- 8, TimerRude <- {},
    tim <- u1, wwdg <- u2, iwdg <- u3, rtc <- u4, resets <- u5, ideal <- u6, age <- u7, wrong <- u8, owed <- u9,
    looks <- u10, setTo <- u11
Window == INSTANCE StmTimers WITH
    Units <- {"wwdg"}, Top <- 3, Cap <- 3, Modes <- {}, Psc <- {}, Values <- {0, 1, 3}, Prescalers <- {1, 2},
    SecondLen <- 2, Floor <- 1, Times <- {<<0, 0, 8>>}, Alarms <- {}, MaxLag <- 5, MaxAge <- 12, TimerRude <- {},
    tim <- u1, wwdg <- u2, iwdg <- u3, rtc <- u4, resets <- u5, ideal <- u6, age <- u7, wrong <- u8, owed <- u9,
    looks <- u10, setTo <- u11
Independent == INSTANCE StmTimers WITH
    Units <- {"iwdg"}, Top <- 3, Cap <- 3, Modes <- {}, Psc <- {}, Values <- {0, 1, 3}, Prescalers <- {1, 2},
    SecondLen <- 2, Floor <- 1, Times <- {<<0, 0, 8>>}, Alarms <- {}, MaxLag <- 5, MaxAge <- 12, TimerRude <- {},
    tim <- u1, wwdg <- u2, iwdg <- u3, rtc <- u4, resets <- u5, ideal <- u6, age <- u7, wrong <- u8, owed <- u9,
    looks <- u10, setTo <- u11
Rtc == INSTANCE StmTimers WITH
    Units <- {"rtc"}, Top <- 3, Cap <- 2, Modes <- {}, Psc <- {}, Values <- {}, Prescalers <- {1},
    SecondLen <- 2, Floor <- 1, Times <- Times, Alarms <- Alarms, MaxLag <- 7, MaxAge <- 12, TimerRude <- {},
    tim <- u1, wwdg <- u2, iwdg <- u3, rtc <- u4, resets <- u5, ideal <- u6, age <- u7, wrong <- u8, owed <- u9,
    looks <- u10, setTo <- u11

-----------------------------------------------------------------------------
(* A camera that fills a buffer, and copies on two streams.                  *)

Settings(dirs) == {[en |-> on, dir |-> d, ct |-> FALSE, ie |-> TRUE] : on \in BOOLEAN, d \in dirs}

Filmed == INSTANCE StmCapture WITH
    Streams <- {<<1, 0>>}, Buffers <- {"a", "b"}, Wirings <- {<<"dcmi", "a", "a">>}, Controls <- Settings({"read", "write"}),
    Camera <- TRUE, Lengths <- {2}, Width <- 1, Height <- 3, Depth <- 1, PerTick <- 2, Frames <- 1, DmaRude <- {},
    stream <- u1, queue <- u2, completed <- u3, intr <- u4, dmaIrq <- u5, memory <- u6, dcmi <- u7, fed <- u8, owed <- u9,
    promised <- u10, seen <- u11, lost <- u12
Copies == INSTANCE StmCapture WITH
    Streams <- {<<1, 0>>, <<2, 1>>}, Buffers <- {"a", "b"}, Wirings <- {<<"a", "b", "a">>},
    Controls <- Settings({"copy", "invalid"}) \cup {[en |-> TRUE, dir |-> "copy", ct |-> TRUE, ie |-> FALSE]},
    Camera <- FALSE, Lengths <- {1}, Width <- 1, Height <- 2, Depth <- 1, PerTick <- 2, Frames <- 0, DmaRude <- {},
    stream <- u1, queue <- u2, completed <- u3, intr <- u4, dmaIrq <- u5, memory <- u6, dcmi <- u7, fed <- u8, owed <- u9,
    promised <- u10, seen <- u11, lost <- u12
\* The number that two controllers share.
Aliased == INSTANCE StmCapture WITH
    Streams <- {<<1, 0>>, <<2, 0>>}, Buffers <- {"a", "b"}, Wirings <- {<<"a", "b", "a">>}, Controls <- Settings({"copy"}),
    Camera <- FALSE, Lengths <- {1}, Width <- 1, Height <- 2, Depth <- 1, PerTick <- 2, Frames <- 0, DmaRude <- {},
    stream <- u1, queue <- u2, completed <- u3, intr <- u4, dmaIrq <- u5, memory <- u6, dcmi <- u7, fed <- u8, owed <- u9,
    promised <- u10, seen <- u11, lost <- u12

-----------------------------------------------------------------------------
(* Each device on the I2C bus, each flash, and a CAN bus of one and two.     *)

Eeprom == INSTANCE StmI2c WITH
    Devices <- {"eeprom"}, Span <- 2, Wide <- TRUE, Bytes <- {0, 1}, MaxQueue <- 1, I2cRude <- {},
    i2c <- u1, dev <- u2, toPage <- u3, fromPage <- u4, at <- u5, mirror <- u6, pushed <- u7, ahead <- u8, wrong <- u9
Regfile == INSTANCE StmI2c WITH
    Devices <- {"regfile"}, Span <- 2, Wide <- FALSE, Bytes <- {0, 1}, MaxQueue <- 1, I2cRude <- {},
    i2c <- u1, dev <- u2, toPage <- u3, fromPage <- u4, at <- u5, mirror <- u6, pushed <- u7, ahead <- u8, wrong <- u9
Tap == INSTANCE StmI2c WITH
    Devices <- {"tap"}, Span <- 2, Wide <- FALSE, Bytes <- {0, 1}, MaxQueue <- 2, I2cRude <- {},
    i2c <- u1, dev <- u2, toPage <- u3, fromPage <- u4, at <- u5, mirror <- u6, pushed <- u7, ahead <- u8, wrong <- u9

FlashOps == {"wren", "wrdi", "rdid", "rdsr", "wrsr", "pp", "qpp", "read", "fast", "se", "ce"}
W25q == INSTANCE StmFlash WITH
    Flashes <- {"spi"}, Ops <- FlashOps, Space <- 4, Sector <- 2, Page <- 2, Fifo <- 2, Thresholds <- {0, 2},
    Transfers <- {2, 3, 4}, MaxSent <- 7, FlashRude <- {},
    chip <- u1, sent <- u2, ideal <- u3, misread <- u4, quad <- u5, due <- u6, intended <- u7
Quad == INSTANCE StmFlash WITH
    Flashes <- {"quad"}, Ops <- FlashOps, Space <- 5, Sector <- 2, Page <- 2, Fifo <- 2, Thresholds <- {0, 2},
    Transfers <- {3, 6}, MaxSent <- 7, FlashRude <- {},
    chip <- u1, sent <- u2, ideal <- u3, misread <- u4, quad <- u5, due <- u6, intended <- u7

Messages == {[id |-> i, ext |-> FALSE] : i \in {1, 3}}
Off == [list |-> FALSE, id |-> 0, mask |-> 0, ext |-> FALSE, fifo |-> -1]
Filter(mask, fifo) == [Off EXCEPT !.id = 1, !.mask = mask, !.fifo = fifo]

Filtered == INSTANCE StmCan WITH
    Nodes <- {1}, Mailboxes <- {0}, Messages <- Messages, Filters <- {Off, Filter(2, 0), Filter(2, 1)}, Banks <- {0},
    Enables <- {{}, {"rx0", "tx"}}, Depth <- 2, MaxFrames <- 3, CanRude <- {},
    node <- u1, staged <- u2, nvic <- u3, taken <- u4, count <- u5, open <- u6, private <- u7, inbox <- u8, lost <- u9
Contended == INSTANCE StmCan WITH
    Nodes <- {1, 2}, Mailboxes <- {0, 1}, Messages <- Messages, Filters <- {Off, Filter(0, 0)}, Banks <- {0},
    Enables <- {{}}, Depth <- 2, MaxFrames <- 2, CanRude <- {},
    node <- u1, staged <- u2, nvic <- u3, taken <- u4, count <- u5, open <- u6, private <- u7, inbox <- u8, lost <- u9

-----------------------------------------------------------------------------
(* The serial ports and the audio ports, one at a time.                      *)

Wave == <<5, 6>>
Spi == INSTANCE StmSerial WITH
    Lines <- {"spi"}, Taps <- {"A4", "B0"}, Bits <- 2, Values <- {1, 2}, Ports <- {}, Samples <- Wave, Backlog <- 2, MaxQueue <- 2,
    MaxShift <- 4, SerialRude <- {},
    pin <- u1, spi <- u2, tap <- u3, soft <- u4, uart <- u5, audio <- u6, nvic <- u7, seen <- u8
Soft == INSTANCE StmSerial WITH
    Lines <- {"soft"}, Taps <- {}, Bits <- 2, Values <- {1, 2}, Ports <- {}, Samples <- Wave, Backlog <- 2, MaxQueue <- 2,
    MaxShift <- 4, SerialRude <- {},
    pin <- u1, spi <- u2, tap <- u3, soft <- u4, uart <- u5, audio <- u6, nvic <- u7, seen <- u8
Uart == INSTANCE StmSerial WITH
    Lines <- {"uart"}, Taps <- {}, Bits <- 2, Values <- {1, 2}, Ports <- {}, Samples <- Wave, Backlog <- 2, MaxQueue <- 2,
    MaxShift <- 4, SerialRude <- {},
    pin <- u1, spi <- u2, tap <- u3, soft <- u4, uart <- u5, audio <- u6, nvic <- u7, seen <- u8
I2s == INSTANCE StmSerial WITH
    Lines <- {"audio"}, Taps <- {}, Bits <- 2, Values <- {1, 2}, Ports <- {"i2s"}, Samples <- Wave, Backlog <- 2,
    MaxQueue <- 2, MaxShift <- 4, SerialRude <- {},
    pin <- u1, spi <- u2, tap <- u3, soft <- u4, uart <- u5, audio <- u6, nvic <- u7, seen <- u8
Sai == INSTANCE StmSerial WITH
    Lines <- {"audio"}, Taps <- {}, Bits <- 2, Values <- {1, 2}, Ports <- {"sai"}, Samples <- Wave, Backlog <- 2,
    MaxQueue <- 2, MaxShift <- 4, SerialRude <- {},
    pin <- u1, spi <- u2, tap <- u3, soft <- u4, uart <- u5, audio <- u6, nvic <- u7, seen <- u8

-----------------------------------------------------------------------------
(* The pins in both modes, the lines of two pins, and the units of the board. *)

Writes(lines) == {<<lines, {}>>, <<{}, lines>>, <<lines, lines>>}
Warm == [hse |-> 1, pll |-> 2]

Driven == INSTANCE StmPins WITH
    Parts <- {"pins"}, Ports <- {1, 2}, Lines <- {5}, Bsrrs <- Writes({5}), Modes <- {"in", "out"}, Triggers <- {{}, {5}},
    Warm <- Warm, Convert <- 2, Sectors <- {1}, Contents <- {1}, Inputs <- {3}, PinsRude <- {},
    pins <- u1, exti <- u2, edges <- u3, clock <- u4, flash <- u5, analog <- u6, nvic <- u7
Sensed == INSTANCE StmPins WITH
    Parts <- {"pins"}, Ports <- {1}, Lines <- {5, 6}, Bsrrs <- Writes({5, 6}), Modes <- {}, Triggers <- {{}, {5, 6}},
    Warm <- Warm, Convert <- 2, Sectors <- {1}, Contents <- {1}, Inputs <- {3}, PinsRude <- {},
    pins <- u1, exti <- u2, edges <- u3, clock <- u4, flash <- u5, analog <- u6, nvic <- u7
Clocks == INSTANCE StmPins WITH
    Parts <- {"clocks"}, Ports <- {1}, Lines <- {5}, Bsrrs <- {}, Modes <- {}, Triggers <- {},
    Warm <- Warm, Convert <- 2, Sectors <- {1}, Contents <- {1}, Inputs <- {3}, PinsRude <- {},
    pins <- u1, exti <- u2, edges <- u3, clock <- u4, flash <- u5, analog <- u6, nvic <- u7
Storage == INSTANCE StmPins WITH
    Parts <- {"flash"}, Ports <- {1}, Lines <- {5}, Bsrrs <- {}, Modes <- {}, Triggers <- {},
    Warm <- Warm, Convert <- 2, Sectors <- {1, 2}, Contents <- {1}, Inputs <- {3}, PinsRude <- {},
    pins <- u1, exti <- u2, edges <- u3, clock <- u4, flash <- u5, analog <- u6, nvic <- u7
Adc == INSTANCE StmPins WITH
    Parts <- {"adc"}, Ports <- {1}, Lines <- {5}, Bsrrs <- {}, Modes <- {}, Triggers <- {},
    Warm <- Warm, Convert <- 2, Sectors <- {1}, Contents <- {1}, Inputs <- {3, 4}, PinsRude <- {},
    pins <- u1, exti <- u2, edges <- u3, clock <- u4, flash <- u5, analog <- u6, nvic <- u7
Dac == INSTANCE StmPins WITH
    Parts <- {"dac"}, Ports <- {1}, Lines <- {5}, Bsrrs <- {}, Modes <- {}, Triggers <- {},
    Warm <- Warm, Convert <- 2, Sectors <- {1}, Contents <- {1}, Inputs <- {3, 4}, PinsRude <- {},
    pins <- u1, exti <- u2, edges <- u3, clock <- u4, flash <- u5, analog <- u6, nvic <- u7

-----------------------------------------------------------------------------
(* The display, the banks, the network and the card; ciphers, hash and sums. *)

CardCommands ==
    {<<0, FALSE, TRUE>>, <<41, TRUE, TRUE>>, <<2, TRUE, TRUE>>, <<3, TRUE, TRUE>>, <<7, TRUE, TRUE>>, <<7, TRUE, FALSE>>,
     <<17, TRUE, TRUE>>}
Screen == INSTANCE StmMedia WITH
    Media <- {"screen"}, Span <- 3, Height <- 3, MaxLag <- 5, Tapped <- {}, Offsets <- {}, MaxQueue <- 2, Commands <- {},
    MediaRude <- {},
    screen <- u1, bank <- u2, net <- u3, page <- u4, card <- u5, nvic <- u6, seen <- u7
Banked == INSTANCE StmMedia WITH
    Media <- {"banks"}, Span <- 3, Height <- 3, MaxLag <- 5, Tapped <- {0}, Offsets <- {0, 4}, MaxQueue <- 2, Commands <- {},
    MediaRude <- {},
    screen <- u1, bank <- u2, net <- u3, page <- u4, card <- u5, nvic <- u6, seen <- u7
Network == INSTANCE StmMedia WITH
    Media <- {"net"}, Span <- 3, Height <- 3, MaxLag <- 5, Tapped <- {}, Offsets <- {}, MaxQueue <- 2, Commands <- {},
    MediaRude <- {},
    screen <- u1, bank <- u2, net <- u3, page <- u4, card <- u5, nvic <- u6, seen <- u7
SdCard == INSTANCE StmMedia WITH
    Media <- {"card"}, Span <- 3, Height <- 3, MaxLag <- 5, Tapped <- {}, Offsets <- {}, MaxQueue <- 2,
    Commands <- CardCommands, MediaRude <- {},
    screen <- u1, bank <- u2, net <- u3, page <- u4, card <- u5, nvic <- u6, seen <- u7

Ciphers == INSTANCE StmCrypto WITH
    Crypto <- {"cipher"}, Modes <- {"ecb", "cbc", "des"}, Blocks <- {1, 2}, Wrap <- 4, MaxBlocks <- 2, Gap <- 3,
    CrcWidth <- 8, Poly <- {0, 1, 2}, ByteBits <- 2, WordBytes <- 2, CryptoRude <- {},
    cryp <- u1, hash <- u2, rng <- u3, crc <- u4, nvic <- u5, seen <- u6
Counters == INSTANCE StmCrypto WITH
    Crypto <- {"cipher"}, Modes <- {"ctr", "gcm", "ccm"}, Blocks <- {1}, Wrap <- 4, MaxBlocks <- 3, Gap <- 3,
    CrcWidth <- 8, Poly <- {0, 1, 2}, ByteBits <- 2, WordBytes <- 2, CryptoRude <- {},
    cryp <- u1, hash <- u2, rng <- u3, crc <- u4, nvic <- u5, seen <- u6
Sums == INSTANCE StmCrypto WITH
    Crypto <- {"crc"}, Modes <- {}, Blocks <- {1, 2}, Wrap <- 4, MaxBlocks <- 2, Gap <- 3,
    CrcWidth <- 8, Poly <- {0, 1, 2}, ByteBits <- 2, WordBytes <- 2, CryptoRude <- {},
    cryp <- u1, hash <- u2, rng <- u3, crc <- u4, nvic <- u5, seen <- u6
Digests == INSTANCE StmCrypto WITH
    Crypto <- {"hash"}, Modes <- {}, Blocks <- {1, 2}, Wrap <- 4, MaxBlocks <- 2, Gap <- 3,
    CrcWidth <- 8, Poly <- {0, 1, 2}, ByteBits <- 2, WordBytes <- 2, CryptoRude <- {},
    cryp <- u1, hash <- u2, rng <- u3, crc <- u4, nvic <- u5, seen <- u6
Randoms == INSTANCE StmCrypto WITH
    Crypto <- {"random"}, Modes <- {}, Blocks <- {1, 2}, Wrap <- 4, MaxBlocks <- 2, Gap <- 3,
    CrcWidth <- 8, Poly <- {0, 1, 2}, ByteBits <- 2, WordBytes <- 2, CryptoRude <- {},
    cryp <- u1, hash <- u2, rng <- u3, crc <- u4, nvic <- u5, seen <- u6

-----------------------------------------------------------------------------
(* One part at a time; what its module has no variable for stays unused.     *)

TimerInit ==
    /\ u12 = 0
    /\ \/ part = "tim" /\ Tim!Init
       \/ part = "prescaled" /\ Prescaled!Init
       \/ part = "window" /\ Window!Init
       \/ part = "independent" /\ Independent!Init
       \/ part = "rtc" /\ Rtc!Init

CaptureInit ==
    \/ part = "camera" /\ Filmed!Init
    \/ part = "copies" /\ Copies!Init
    \/ part = "aliased" /\ Aliased!Init

I2cInit ==
    /\ u10 = 0 /\ u11 = 0 /\ u12 = 0
    /\ \/ part = "eeprom" /\ Eeprom!Init
       \/ part = "regfile" /\ Regfile!Init
       \/ part = "tap" /\ Tap!Init

FlashInit ==
    /\ u8 = 0 /\ u9 = 0 /\ u10 = 0 /\ u11 = 0 /\ u12 = 0
    /\ \/ part = "w25q" /\ W25q!Init
       \/ part = "quad" /\ Quad!Init

CanInit ==
    /\ u10 = 0 /\ u11 = 0 /\ u12 = 0
    /\ \/ part = "filtered" /\ Filtered!Init
       \/ part = "contended" /\ Contended!Init

SerialInit ==
    /\ u9 = 0 /\ u10 = 0 /\ u11 = 0 /\ u12 = 0
    /\ \/ part = "spi" /\ Spi!Init
       \/ part = "soft" /\ Soft!Init
       \/ part = "uart" /\ Uart!Init
       \/ part = "i2s" /\ I2s!Init
       \/ part = "sai" /\ Sai!Init

PinInit ==
    /\ u8 = 0 /\ u9 = 0 /\ u10 = 0 /\ u11 = 0 /\ u12 = 0
    /\ \/ part = "driven" /\ Driven!Init
       \/ part = "sensed" /\ Sensed!Init
       \/ part = "clocks" /\ Clocks!Init
       \/ part = "storage" /\ Storage!Init
       \/ part = "adc" /\ Adc!Init
       \/ part = "dac" /\ Dac!Init

MediaInit ==
    /\ u8 = 0 /\ u9 = 0 /\ u10 = 0 /\ u11 = 0 /\ u12 = 0
    /\ \/ part = "screen" /\ Screen!Init
       \/ part = "banked" /\ Banked!Init
       \/ part = "network" /\ Network!Init
       \/ part = "sdcard" /\ SdCard!Init

CryptoInit ==
    /\ u7 = 0 /\ u8 = 0 /\ u9 = 0 /\ u10 = 0 /\ u11 = 0 /\ u12 = 0
    /\ \/ part = "ciphers" /\ Ciphers!Init
       \/ part = "counters" /\ Counters!Init
       \/ part = "sums" /\ Sums!Init
       \/ part = "digests" /\ Digests!Init
       \/ part = "randoms" /\ Randoms!Init

Init ==
    /\ part \in Parts
    /\ TimerInit \/ CaptureInit \/ I2cInit \/ FlashInit \/ CanInit \/ SerialInit \/ PinInit \/ MediaInit \/ CryptoInit

TimerStep ==
    /\ \/ part = "tim" /\ Tim!Next
       \/ part = "prescaled" /\ Prescaled!Next
       \/ part = "window" /\ Window!Next
       \/ part = "independent" /\ Independent!Next
       \/ part = "rtc" /\ Rtc!Next
    /\ UNCHANGED <<part, u12>>

CaptureStep ==
    /\ \/ part = "camera" /\ Filmed!Next
       \/ part = "copies" /\ Copies!Next
       \/ part = "aliased" /\ Aliased!Next
    /\ UNCHANGED part

I2cStep ==
    /\ \/ part = "eeprom" /\ Eeprom!Next
       \/ part = "regfile" /\ Regfile!Next
       \/ part = "tap" /\ Tap!Next
    /\ UNCHANGED <<part, u10, u11, u12>>

FlashStep ==
    /\ \/ part = "w25q" /\ W25q!Next
       \/ part = "quad" /\ Quad!Next
    /\ UNCHANGED <<part, u8, u9, u10, u11, u12>>

CanStep ==
    /\ \/ part = "filtered" /\ Filtered!Next
       \/ part = "contended" /\ Contended!Next
    /\ UNCHANGED <<part, u10, u11, u12>>

SerialStep ==
    /\ \/ part = "spi" /\ Spi!Next
       \/ part = "soft" /\ Soft!Next
       \/ part = "uart" /\ Uart!Next
       \/ part = "i2s" /\ I2s!Next
       \/ part = "sai" /\ Sai!Next
    /\ UNCHANGED <<part, u9, u10, u11, u12>>

PinStep ==
    /\ \/ part = "driven" /\ Driven!Next
       \/ part = "sensed" /\ Sensed!Next
       \/ part = "clocks" /\ Clocks!Next
       \/ part = "storage" /\ Storage!Next
       \/ part = "adc" /\ Adc!Next
       \/ part = "dac" /\ Dac!Next
    /\ UNCHANGED <<part, u8, u9, u10, u11, u12>>

MediaStep ==
    /\ \/ part = "screen" /\ Screen!Next
       \/ part = "banked" /\ Banked!Next
       \/ part = "network" /\ Network!Next
       \/ part = "sdcard" /\ SdCard!Next
    /\ UNCHANGED <<part, u8, u9, u10, u11, u12>>

CryptoStep ==
    /\ \/ part = "ciphers" /\ Ciphers!Next
       \/ part = "counters" /\ Counters!Next
       \/ part = "sums" /\ Sums!Next
       \/ part = "digests" /\ Digests!Next
       \/ part = "randoms" /\ Randoms!Next
    /\ UNCHANGED <<part, u7, u8, u9, u10, u11, u12>>

Next ==
    \/ TimerStep \/ CaptureStep \/ I2cStep \/ FlashStep \/ CanStep
    \/ SerialStep \/ PinStep \/ MediaStep \/ CryptoStep

Spec == Init /\ [][Next]_vars

-----------------------------------------------------------------------------
(* The properties, each of the instances it is about; the module of a part   *)
(* says what it means.                                                       *)

\* Timers, watchdogs, the clock, pins, the units of the board and the display are where
\* the time that passed and the levels that were driven make them, up to the rests and
\* the caps of the looks that their modules' properties name.
SnapshotKept ==
    /\ part = "tim" => Tim!TimersAgree
    /\ part = "prescaled" => Prescaled!TimersAgree
    /\ part = "window" => Window!TimersAgree
    /\ part = "independent" => Independent!TimersAgree
    /\ part = "rtc" => Rtc!TimersAgree
    /\ part = "driven" => Driven!BoardAgrees
    /\ part = "sensed" => Sensed!BoardAgrees
    /\ part = "clocks" => Clocks!BoardAgrees
    /\ part = "storage" => Storage!BoardAgrees
    /\ part = "adc" => Adc!BoardAgrees
    /\ part = "dac" => Dac!BoardAgrees
    /\ part = "screen" => Screen!MediaAgree
    /\ part = "banked" => Banked!MediaAgree
    /\ part = "network" => Network!MediaAgree
    /\ part = "sdcard" => SdCard!MediaAgree

\* What programs, devices and the page send each other arrives, once and in order.
SnapshotDelivers ==
    /\ part = "camera" => Filmed!CaptureAgrees
    /\ part = "copies" => Copies!CaptureAgrees
    /\ part = "aliased" => Aliased!CaptureAgrees
    /\ part = "eeprom" => Eeprom!I2cAgrees
    /\ part = "regfile" => Regfile!I2cAgrees
    /\ part = "tap" => Tap!I2cAgrees
    /\ part = "w25q" => W25q!FlashesAgree
    /\ part = "quad" => Quad!FlashesAgree
    /\ part = "filtered" => Filtered!CanAgrees
    /\ part = "contended" => Contended!CanAgrees
    /\ part = "spi" => Spi!SerialAgrees
    /\ part = "soft" => Soft!SerialAgrees
    /\ part = "uart" => Uart!SerialAgrees
    /\ part = "i2s" => I2s!SerialAgrees
    /\ part = "sai" => Sai!SerialAgrees
    /\ part = "ciphers" => Ciphers!CryptoAgrees
    /\ part = "counters" => Counters!CryptoAgrees
    /\ part = "sums" => Sums!CryptoAgrees
    /\ part = "digests" => Digests!CryptoAgrees
    /\ part = "randoms" => Randoms!CryptoAgrees

\* A transfer that ends has brought what it was to bring, and of the CAN frames that
\* contend the wire takes the most urgent.
SnapshotEnds ==
    [][/\ part = "camera" => Filmed!Landed
       /\ part = "copies" => Copies!Landed
       /\ part = "aliased" => Aliased!Landed
       /\ part = "filtered" => Filtered!InOrder
       /\ part = "contended" => Contended!InOrder]_vars
=============================================================================
