SPECIFICATION DeviceSpec
CONSTANTS
  Parts = {"gpt", "gptlinks", "agt", "rtc", "rtclate", "flash", "pins", "ram", "sized",
           "watchdog", "systick", "cycles", "touch", "converters", "outputs"}
  Channel = {1}
  Mask = 2
  Period = {1}
  Compare = {1, 2}
  Count = {1}
  Enable = {{"A"}}
  MaxLag = 3
  Div = 2
  AgtCount = {0, 1, 3}
  AgtMaxLag = 5
  Wrap = 3
  Ops = {"start", "stop", "clear", "gtior", "gtccr", "gtpr", "gtst", "gtcnt", "buffer", "gtber"}
  Size = 4
  BlockSize = 2
  Bits = {0}
  FlashData = {{}, {0}}
  MaxBytes = 2
  FlashRude = {}
  Pin = {0, 1}
  Tx = 0
  Rx = 1
  Pwm = {0}
  Half = {{}, {0}}
INVARIANTS
  DutyHonoured
  ClockKept
  BytesLand
  PinsAgree
PROPERTIES
  IsTicking
  IsCounting
  Measured
  StoresKept
CHECK_DEADLOCK FALSE
