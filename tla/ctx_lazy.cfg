SPECIFICATION Spec
CONSTANTS
    Tasks = 0
    MaxDepth = 1
    MaxPush = 0
    Region = 16
    Lazy = TRUE
    StkAlign = TRUE
    Ops = {"fpu"}
INVARIANT
    SFileOwned
CHECK_DEADLOCK FALSE
