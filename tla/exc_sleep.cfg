SPECIFICATION FairSpec
CONSTANTS
    ExtIRQ = {0}
    PrioWrites <- LinePriorities
    BasePri = {}
    PriGroup = {0}
    FlagWrites = {"SLEEPONEXIT", "SEVONPEND"}
    GuestOps = {"nop", "iser", "sleep", "fpu", "flags", "prio"}
    DriverOps = {"wake"}
    MaxFrames = 6
PROPERTY
    DeliveryNotDelayed
CHECK_DEADLOCK FALSE
