SPECIFICATION Spec
CONSTANTS
    ExtIRQ = {0}
    PrioWrites <- MaskingPriorities
    BasePri = {0, 4}
    PriGroup = {0}
    FlagWrites = {}
    GuestOps = {"iser", "prio", "basepri", "basepri_max", "mask", "svc", "usage", "stir", "ispr"}
    DriverOps = {"reset", "takenext"}
    MaxFrames = 2
INVARIANT
    PendingAgree
PROPERTIES
    NoLostInterrupt
    MaskHonoured
CHECK_DEADLOCK FALSE
