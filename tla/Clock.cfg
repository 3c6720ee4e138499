CONSTANTS
    Moments <- MCMoments
    Dates <- MCDates
    Times <- MCTimes
    AlarmTimes <- MCAlarmTimes
    MaxTicks = 3
SPECIFICATION Spec
INVARIANTS
    TypeOK
    ReadsWithinACarry
PROPERTIES
    SetsWithinACarry
    AlarmWithinADay
    RingsWhenDue
