SPECIFICATION Spec
CONSTANTS
  Parts = {"tim", "prescaled", "window", "independent", "rtc", "camera", "copies", "aliased", "eeprom", "regfile", "tap", "w25q", "quad", "filtered", "contended", "spi", "soft", "uart", "i2s", "sai", "driven", "sensed", "clocks", "storage", "adc", "dac", "screen", "banked", "network", "sdcard", "ciphers", "counters", "sums", "digests", "randoms"}
INVARIANTS
  SnapshotKept
  SnapshotDelivers
PROPERTIES
  SnapshotEnds
CHECK_DEADLOCK FALSE
