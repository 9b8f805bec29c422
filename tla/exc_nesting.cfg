SPECIFICATION Spec
CONSTANTS
    ExtIRQ = {0, 1}
    PrioWrites <- NestingPriorities
    BasePri = {}
    PriGroup = {0, 1}
    FlagWrites = {}
    GuestOps = {"iser", "prio", "fpu", "icsr"}
    DriverOps = {}
    MaxFrames = 8
INVARIANTS
    TypeOK
    StrictNesting
    ReturnLinkage
PROPERTIES
    UrgentFirst
    IsPreemptive
CHECK_DEADLOCK FALSE
