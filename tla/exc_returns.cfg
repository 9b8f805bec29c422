SPECIFICATION Spec
CONSTANTS
    ExtIRQ = {0}
    PrioWrites <- LinePriorities
    BasePri = {}
    PriGroup = {0}
    FlagWrites = {"NONBASETHRDENA", "USGFAULTENA"}
    GuestOps = {"iser", "forge", "flags", "control", "halt", "abort", "fetchfault"}
    DriverOps = {"deliver"}
    MaxFrames = 2
INVARIANTS
    ActiveAgree
    ModeAgree
    FramesCover
CHECK_DEADLOCK FALSE
