CONSTANTS
    PCBs = {b1, b2, b3, b4}
    NULL = NULL
    Kernel = Kernel
    R3Count = 1
    MaxAlarms = 3
    DayLength = 2
    LastDay = 1
    DaysAhead = {28}
    Levels = {}
    Commands = {"delete_pcb", "load_process", "suspend", "resume",
        "alarm", "set_time", "set_date", "exit", "other"}
SPECIFICATION Spec
SYMMETRY Addresses
INVARIANTS
    NamesUnique
    LastAlarmHasOwnData
PROPERTIES
    AlarmEarlyOnlyAtMidnight
