CONSTANTS
    PCBs = {b1, b2, b3, b4}
    NULL = NULL
    Kernel = Kernel
    R3Count = 1
    MaxAlarms = 2
    DayLength = 3
    LastDay = 1
    DaysAhead = {28}
    Levels = {}
    Commands = {"load_process", "alarm", "other"}
SPECIFICATION Spec
SYMMETRY Addresses
INVARIANTS
    AlarmHasOwnData
