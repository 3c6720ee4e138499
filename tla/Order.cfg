CONSTANTS
    PCBs = {b1, b2, b3, b4}
    NULL = NULL
    Kernel = Kernel
    R3Count = 3
    MaxAlarms = 0
    DayLength = 1
    LastDay = 0
    DaysAhead = {}
    Levels = {0, 2}
    Commands = {"delete_pcb", "block", "unblock", "loadr3",
        "loadr3_suspended", "load_process", "set_priority", "suspend",
        "resume", "exit", "other"}
SPECIFICATION Spec
SYMMETRY Addresses
INVARIANTS
    ReadySorted
PROPERTIES
    NoOvertaking
