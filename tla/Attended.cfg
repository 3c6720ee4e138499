CONSTANTS
    PCBs = {b1, b2, b3, b4}
    NULL = NULL
    Kernel = Kernel
    R3Count = 1
    MaxAlarms = 2
    DayLength = 2
    LastDay = 1
    DaysAhead = {28, 365}
    Levels = {}
    Commands = {"load_process", "loadr3_suspended", "resume_all",
        "alarm", "other", "exit"}
SPECIFICATION AttendedSpec
PROPERTIES
    AlarmRings
