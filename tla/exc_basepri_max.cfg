SPECIFICATION Spec
CONSTANTS
    ExtIRQ = {0}
    PrioWrites <- LinePriorities
    BasePri = {4, 8}
    PriGroup = {0}
    FlagWrites = {}
    GuestOps = {"prio", "basepri", "basepri_max"}
    DriverOps = {}
    MaxFrames = 6
PROPERTY
    BasepriMaxRaisesOnly
CHECK_DEADLOCK FALSE
