SPECIFICATION SerialSpec
CONSTANTS
  Parts = {"i2c", "sd", "canfifo", "canbox", "canerr", "usbtx", "usbrx", "usbhost", "sci", "ssi"}
  Channel = {1}
  Host = 1
  Block = {0, 1}
  Argument = {0, 1, 2}
  BlockSize = 1
  CrcSize = 1
  Command = {0, 17, 24, 41, 55}
  DataByte = {0, 1}
  SpiRude = {}
  Riic = {0, 1}
  RomAddress = 1
  Master = {1}
  Exposed = 1
  Iccr1 <- Enabled
  Sar <- Addresses
  AddressByte = {0, 2, 3, 5, 6}
  IicByte = {1}
  RomSize = 2
  MaxBytes = 2
  Flags = {"nackf"}
  Rude = {}
INVARIANTS
  BusInStep
  CardFaithful
PROPERTIES
  FramesAccounted
  BytesArrive
  InputKept
  TransactionsEnd
CHECK_DEADLOCK FALSE
