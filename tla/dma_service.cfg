SPECIFICATION PartSpec
CONSTANTS
  Parts = {"lines", "channels"}
  Chan = {0}
  Irq = {0}
  Timer = {87}
  Plain = {5}
  Delsr = {87}
  Ielsr <- ToDtc
  Settings <- RepeatOrNormal
  Sources = {0, 1}
  UnitEvents = {87}
  DtcEvents = {87}
  Ops = {"reset", "api"}
  Taken = {}
  MaxUnits = 2
  MaxSlice = 0
  MaxPending = 1
  Room = 3
INVARIANTS
  OutstandingAgree
  GateOpen
  AreaHonoured
PROPERTIES
  IsService
  AllServed
  EndReported
CHECK_DEADLOCK FALSE
