SPECIFICATION ProcessorSpec
CONSTANTS
  Parts = {"nested", "switched", "core", "blocks", "arith", "halves", "dsp", "memory", "flow", "special", "converted", "moved"}
  Tasks = 0
  MaxDepth = 2
  MaxPush = 1
  Region = 22
  Lazy = FALSE
  StkAlign = FALSE
  Ops = {"hpush", "it", "chain", "fpu", "hfpu", "control"}
INVARIANTS
  StateOwned
  StackIntact
  ContextRestored
  ThreadsKept
PROPERTY
  IsThumb
CHECK_DEADLOCK FALSE
