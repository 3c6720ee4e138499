CONSTANTS
    PCBs = {b1, b2, b3, b4}
    NULL = NULL
    Kernel = Kernel
    R3Count = 1
    MaxAlarms = 1
    DayLength = 1
    LastDay = 0
    DaysAhead = {}
    Levels = {0, 2}
    Commands = {"delete_pcb", "block", "unblock", "loadr3_suspended",
        "load_process", "resume_all", "set_priority", "resume",
        "alarm", "exit", "other"}
SPECIFICATION FairSpec
PROPERTIES
    CommhandReturns
    ExitHalts
    PassedOverOrServed
