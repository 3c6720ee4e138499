--------------------------- MODULE RealTimeClock ---------------------------
(***************************************************************************)
(* The clock as the processes use it, one register access at a time, while *)
(* it goes on ticking: set_time, set_date, and an alarm that is created    *)
(* and looks at the clock until it rings.  Nothing holds the clock still,  *)
(* so that what is read or written is torn when a carry comes between.     *)
(***************************************************************************)
EXTENDS Calendar

CONSTANTS
    Moments,    \* what the clock may show at first
    Dates,      \* the dates typed: records of month, day and (full) year
    Times,      \* the times typed for set_time
    AlarmTimes, \* the times typed for an alarm, character by character
    MaxTicks    \* bound: ticks in one run

(***************************************************************************)
(* What a clock can show.                                                  *)
(***************************************************************************)
Showable(m) ==
    /\ m.second \in 0 .. 59 /\ m.minute \in 0 .. 59 /\ m.hour \in 0 .. 23
    /\ m.day \in 1 .. 31 /\ m.month \in 1 .. 12
    /\ m.year \in 0 .. 99 /\ m.century \in 0 .. 99

ASSUME MomentsAssumption == \A m \in Moments : Showable(m)
ASSUME TypedAssumption ==
    /\ Dates \subseteq [month : Int, day : Int, year : Int]
    /\ Times \subseteq [hour : Int, minute : Int, second : Int]
    /\ AlarmTimes \subseteq Seq(Int)
ASSUME TicksAssumption == MaxTicks \in Nat

VARIABLES
    register,   \* the seven registers, in BCD
    ticks,      \* how often the clock has ticked
    op,         \* the operation that is at work, "none" between two
    todo,       \* the registers it still has to access, in order
    value,      \* what it is to write, or has read
    alarm,      \* the alarm: the time typed, the date it waits for; or None
    began,      \* auxiliary: the registers when the operation began
    torn,       \* auxiliary: the clock has ticked since
    due         \* auxiliary: the moment the alarm's strings stand for

vars == <<register, ticks, op, todo, value, alarm, began, torn, due>>

Registers == {"second", "minute", "hour", "day", "month", "year", "century"}

None    == [time |-> <<>>, date |-> <<>>]
Nothing == [r \in Registers |-> 0]

Shown(regs) == [r \in Registers |-> bcd_to_i(regs[r])]

Init ==
    /\ register \in {[r \in Registers |-> i_to_bcd(m[r])] : m \in Moments}
    /\ ticks = 0
    /\ op = "none" /\ todo = <<>> /\ value = Nothing
    /\ alarm = None
    /\ began = Nothing /\ torn = FALSE /\ due = Nothing
-----------------------------------------------------------------------------
(***************************************************************************)
(* The hardware.  An operation takes microseconds: at most one tick comes  *)
(* while it is at work.                                                    *)
(***************************************************************************)
NextDay(m) ==
    IF m.day < MonthLength(m.month, FullYear(m)) THEN [m EXCEPT !.day = @ + 1]
    ELSE IF m.month < 12 THEN [m EXCEPT !.day = 1, !.month = @ + 1]
    ELSE [m EXCEPT !.day = 1, !.month = 1, !.year = (@ + 1) % 100,
                   !.century = IF m.year = 99 THEN (@ + 1) % 100 ELSE @]

NextSecond(m) ==
    IF m.second < 59 THEN [m EXCEPT !.second = @ + 1]
    ELSE IF m.minute < 59 THEN [m EXCEPT !.second = 0, !.minute = @ + 1]
    ELSE IF m.hour < 23 THEN [m EXCEPT !.second = 0, !.minute = 0, !.hour = @ + 1]
    ELSE NextDay([m EXCEPT !.second = 0, !.minute = 0, !.hour = 0])

Tick ==
    /\ ticks < MaxTicks /\ ~ torn
    /\ register' = [r \in Registers |-> i_to_bcd(NextSecond(Shown(register))[r])]
    /\ ticks' = ticks + 1
    /\ torn' = (op # "none")
    /\ UNCHANGED <<op, todo, value, alarm, began, due>>
-----------------------------------------------------------------------------
(***************************************************************************)
(* The drivers of kernel/rtc.c: the registers each of them accesses, in    *)
(* order.                                                                  *)
(***************************************************************************)
(* Mutants: the smallest unit first. *)
SecondsWrittenFirst == <<"second", "minute", "hour">>

YearReadFirst == <<"century", "year", "month", "day">>

rtc_set_time == <<"hour", "minute", "second">>
rtc_set_date == <<"year", "century", "month", "day">>
rtc_get_time == <<"hour", "minute", "second">>
rtc_get_date == <<"day", "month", "year", "century">>

Starts(operation, accesses, v) ==
    /\ op = "none"
    /\ op' = operation /\ todo' = accesses /\ value' = v
    /\ began' = register
    /\ UNCHANGED <<register, ticks, torn>>

Ends ==
    /\ op' = "none" /\ todo' = <<>> /\ value' = Nothing
    /\ began' = Nothing /\ torn' = FALSE

set_time ==
    \E t \in Times :
       /\ TimeAccepted(t)
       /\ Starts("set_time", rtc_set_time,
                 [Nothing EXCEPT !.hour = t.hour, !.minute = t.minute, !.second = t.second])
       /\ UNCHANGED <<alarm, due>>

set_date ==
    \E d \in Dates :
       /\ DateAccepted(d.month, d.day, d.year)
       /\ Starts("set_date", rtc_set_date,
                 [Nothing EXCEPT !.month = d.month, !.day = d.day, !.year = d.year % 100,
                    !.century = IF d.year \div 100 = 0 THEN 20 ELSE d.year \div 100])
       /\ UNCHANGED <<alarm, due>>

Writes ==
    /\ op \in {"set_time", "set_date"}
    /\ register' = [register EXCEPT ![Head(todo)] = i_to_bcd(value[Head(todo)])]
    /\ IF Len(todo) = 1 THEN Ends
       ELSE todo' = Tail(todo) /\ UNCHANGED <<op, value, began, torn>>
    /\ UNCHANGED <<ticks, alarm, due>>

Reads ==
    /\ op \in {"create_alarm_process", "alarm_process"} /\ todo # <<>>
    /\ LET r == Head(todo)
           v == bcd_to_i(register[r])
       IN  value' = [value EXCEPT ![r] = IF r = "century" /\ v = 0 THEN 20 ELSE v]
    /\ todo' = Tail(todo)
    /\ UNCHANGED <<register, ticks, op, alarm, began, torn, due>>
-----------------------------------------------------------------------------
(***************************************************************************)
(* The alarm: what is typed is kept as it is, and the date is computed.    *)
(***************************************************************************)
create_alarm_starts ==
    \E typed \in AlarmTimes :
       /\ alarm = None
       /\ AlarmTimeAccepted(typed)
       /\ Starts("create_alarm_process", rtc_get_time \o rtc_get_date, Nothing)
       /\ alarm' = [None EXCEPT !.time = typed]
       /\ UNCHANGED due

create_alarm_process ==
    /\ op = "create_alarm_process" /\ todo = <<>>
    /\ LET time == Numbers(alarm.time)
           date == AlarmDate(time, value)
       IN  /\ alarm' = [alarm EXCEPT !.date = DateString(date)]
           /\ due' = [r \in Registers |-> IF r \in DOMAIN time THEN time[r] ELSE date[r]]
    /\ Ends
    /\ UNCHANGED <<register, ticks>>

alarm_process_looks ==
    /\ alarm # None
    /\ Starts("alarm_process", rtc_get_time \o rtc_get_date, Nothing)
    /\ UNCHANGED <<alarm, due>>

Reached ==
    LET dates == strcmp(DateString(value), alarm.date)
    IN  \/ dates > 0
        \/ dates = 0 /\ strcmp(TimeString(value), alarm.time) >= 0

alarm_process ==
    /\ op = "alarm_process" /\ todo = <<>>
    /\ IF Reached THEN alarm' = None /\ due' = Nothing ELSE UNCHANGED <<alarm, due>>
    /\ Ends
    /\ UNCHANGED <<register, ticks>>

Next ==
    \/ Tick \/ set_time \/ set_date \/ Writes \/ Reads
    \/ create_alarm_starts \/ create_alarm_process
    \/ alarm_process_looks \/ alarm_process

Spec == Init /\ [][Next]_vars
-----------------------------------------------------------------------------
(* Every register holds a BCD byte of its range. *)
TypeOK ==
    /\ \A r \in Registers : register[r] \in 0 .. 255
    /\ Showable(Shown(register))
    /\ ticks \in 0 .. MaxTicks
    /\ op \in {"none", "set_time", "set_date", "create_alarm_process", "alarm_process"}

Day == 24 * 3600

(* What set_time and set_date leave is what was asked for, or off by one   *)
(* carry that came between two writes: by a minute or an hour; by a month  *)
(* or a year, and a carry out of year 99 may be lost to the century that   *)
(* is written after it.  The order of the writes keeps it from being more. *)
SetsWithinACarry ==
    [][/\ op = "set_time" /\ op' = "none" =>
            (Seconds(Shown(register')) - Seconds(value)) % Day \in
                {0} \cup IF torn THEN {60, 3600} ELSE {}
       /\ op = "set_date" /\ op' = "none" =>
            LET m == Shown(register')
                MonthIs(v) == \A r \in {"month", "year", "century"} : m[r] = v[r]
            IN  /\ m.day = value.day
                /\ \/ MonthIs(value)
                   \/ torn /\ MonthIs(NextDay([value EXCEPT !.day = 31]))
                   \/ torn /\ \E c \in {value.century, (value.century + 1) % 100} :
                          MonthIs([value EXCEPT !.year = (@ + 1) % 100, !.century = c])
      ]_vars

(* What TAOS takes for granted of a reading: it is the clock's when it was *)
(* begun or ended; or a carry tore it, and then the time is not later than *)
(* it was, by less than an hour on one day, and a date that is neither day *)
(* is at least four weeks ahead, which takes midnight at the end of a      *)
(* month.  Left out are the years whose century the clock shows as 0, as   *)
(* it does after 9999, and the drivers read as 20.                         *)
ReadingDone == op \in {"create_alarm_process", "alarm_process"} /\ todo = <<>>

WeeksAhead == 28

ReadsWithinACarry ==
    LET first == Shown(began)
        last  == Shown(register)
        SameDay(m) == \A r \in {"day", "month", "year", "century"} : value[r] = m[r]
    IN  ReadingDone /\ 0 \notin {first.century, last.century} =>
           \/ value = last
           \/ /\ torn
              /\ Seconds(value) \in Seconds(first) - 3600 .. Seconds(first)
              /\ \/ SameDay(first) \/ SameDay(last)
                 \/ /\ first.month # last.month
                    /\ DayNumber(value) >= DayNumber(first) + WeeksAhead

(* Read without a carry, an alarm is due at the time typed, on a day of    *)
(* the calendar, after the moment of its creation and within a day, at any *)
(* end of a month, a year, a century.                                      *)
AlarmWithinADay ==
    [][op = "create_alarm_process" /\ op' = "none" /\ ~ torn /\ RealDate(value) =>
          /\ RealDate(due')
          /\ Day * (DayNumber(due') - DayNumber(value)) + Seconds(due') - Seconds(value)
                \in 1 .. Day]_vars

(* The strings are compared as the moments they stand for, when what was   *)
(* typed are digits: an alarm rings if and only if its moment has come on  *)
(* the clock as it was read.                                               *)
DateOrder(m) == 12 * 31 * FullYear(m) + 31 * m.month + m.day

Digits(s) == \A k \in DOMAIN s : s[k] \in 0 .. 9 \/ k \in {3, 6}

RingsWhenDue ==
    [][op = "alarm_process" /\ op' = "none" /\ Digits(alarm.time) =>
          (alarm' = None) = \/ DateOrder(value) > DateOrder(due)
                            \/ /\ DateOrder(value) = DateOrder(due)
                               /\ Seconds(value) >= Seconds(due)]_vars
=============================================================================
