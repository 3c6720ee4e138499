CONSTANTS
    PCBs = {b1, b2, b3, b4}
    NULL = NULL
    Kernel = Kernel
    R3Count = 1
    MaxAlarms = 0
    DayLength = 1
    LastDay = 0
    DaysAhead = {}
    Levels = {}
    Commands = {"block", "unblock", "other", "exit"}
SPECIFICATION Spec
SYMMETRY Addresses
INVARIANTS
    HaltsOnlyAfterExit
