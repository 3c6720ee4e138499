------------------------------ MODULE Calendar ------------------------------
(***************************************************************************)
(* Dates and times as the clock's drivers and the alarms compute with      *)
(* them, and the calendar they should agree with.  A date has a month, a   *)
(* day, a century and a year of it; a time an hour, a minute, a second;    *)
(* what a clock shows has all seven.                                       *)
(***************************************************************************)
EXTENDS Integers, Sequences

(***************************************************************************)
(* lib/stdlib.c, for the numbers of two digits that fit a register.        *)
(***************************************************************************)
i_to_bcd(num) == 16 * (num \div 10) + (num % 10)

bcd_to_i(bcd) ==
    IF bcd % 16 > 9 \/ bcd \div 16 > 9 THEN -1
    ELSE 10 * (bcd \div 16) + (bcd % 16)

FullYear(date) == 100 * date.century + date.year
-----------------------------------------------------------------------------
(***************************************************************************)
(* What set_date accepts of a month, a day and a year that were typed, and *)
(* what set_time does.                                                     *)
(***************************************************************************)
day_max(month, year) ==
    CASE month \in {4, 6, 9, 11} -> 30
      [] month = 2 -> IF year % 4 = 0 THEN 29 ELSE 28
      [] OTHER -> 31

DateAccepted(month, day, year) ==
    month \in 1 .. 12 /\ day \in 1 .. day_max(month, year) /\ year \in 0 .. 9999

(* Mutant: one hour too many. *)
Accepts24(time) ==
    time.hour \in 0 .. 24 /\ time.minute \in 0 .. 59 /\ time.second \in 0 .. 59

TimeAccepted(time) ==
    time.hour \in 0 .. 23 /\ time.minute \in 0 .. 59 /\ time.second \in 0 .. 59

(***************************************************************************)
(* The day after, as create_alarm_process finds it.                        *)
(***************************************************************************)
(* Mutant: the rule of set_date. *)
FourYearLeaps(date) == day_max(date.month, FullYear(date))

days_in_month(date) ==
    CASE date.month \in {4, 6, 9, 11} -> 30
      [] date.month = 2 -> IF /\ FullYear(date) % 4 = 0
                              /\ FullYear(date) % 100 # 0 \/ FullYear(date) % 400 = 0
                           THEN 29 ELSE 28
      [] OTHER -> 31

OnDay(month, day, century, year) ==
    [month |-> month, day |-> day, century |-> century, year |-> year]

NextDate(date) ==
    IF date.day + 1 <= days_in_month(date)
    THEN OnDay(date.month, date.day + 1, date.century, date.year)
    ELSE IF date.month < 12 THEN OnDay(date.month + 1, 1, date.century, date.year)
    ELSE IF date.year < 99  THEN OnDay(1, 1, date.century, date.year + 1)
    ELSE OnDay(1, 1, date.century + 1, 0)

Seconds(time) == 3600 * time.hour + 60 * time.minute + time.second

(***************************************************************************)
(* The date of an alarm for the given time, when the clock is read as now. *)
(***************************************************************************)
AlarmDate(time, now) ==
    IF Seconds(time) <= Seconds(now) THEN NextDate(now) ELSE now
-----------------------------------------------------------------------------
(***************************************************************************)
(* Strings.  A character is its distance from '0'.                         *)
(***************************************************************************)
Slash == -1
Colon == 10

(* Mutant: the date as it is typed and shown, the year last. *)
DateAsShown(date) ==
    <<date.month \div 10, date.month % 10, Slash, date.day \div 10, date.day % 10, Slash,
      FullYear(date) \div 1000, (FullYear(date) \div 100) % 10,
      (FullYear(date) \div 10) % 10, FullYear(date) % 10>>

DateString(date) ==
    <<FullYear(date) \div 1000, (FullYear(date) \div 100) % 10,
      (FullYear(date) \div 10) % 10, FullYear(date) % 10, Slash,
      date.month \div 10, date.month % 10, Slash, date.day \div 10, date.day % 10>>

TimeString(time) ==
    <<time.hour \div 10, time.hour % 10, Colon, time.minute \div 10, time.minute % 10,
      Colon, time.second \div 10, time.second % 10>>

(***************************************************************************)
(* The sign of strcmp on two strings of one length.                        *)
(***************************************************************************)
strcmp(s, t) ==
    LET Differ == {k \in DOMAIN s : s[k] # t[k]}
    IN  IF Differ = {} THEN 0
        ELSE LET first == CHOOSE k \in Differ : \A j \in Differ : k <= j
             IN  IF s[first] > t[first] THEN 1 ELSE -1

(***************************************************************************)
(* A time typed for an alarm: only its colons are looked at as characters. *)
(***************************************************************************)
Numbers(typed) ==
    [hour |-> 10 * typed[1] + typed[2], minute |-> 10 * typed[4] + typed[5],
     second |-> 10 * typed[7] + typed[8]]

AlarmTimeAccepted(typed) ==
    Len(typed) = 8 /\ typed[3] = Colon /\ typed[6] = Colon /\ TimeAccepted(Numbers(typed))
-----------------------------------------------------------------------------
(***************************************************************************)
(* The reference: the Gregorian calendar, and the number of days up to a   *)
(* date.  A day past the end of its month counts on into the next.         *)
(***************************************************************************)
Leap(y) == y % 4 = 0 /\ (y % 100 # 0 \/ y % 400 = 0)

MonthLength(m, y) ==
    IF m = 2 THEN (IF Leap(y) THEN 29 ELSE 28)
    ELSE IF m \in {4, 6, 9, 11} THEN 30 ELSE 31

Date == [month : 1 .. 12, day : 1 .. 31, century : 0 .. 99, year : 0 .. 99]

RealDate(date) ==
    date.day <= MonthLength(date.month, FullYear(date))

(***************************************************************************)
(* 367 * m \div 12 counts the days of the months with February as long as  *)
(* the others.                                                             *)
(***************************************************************************)
DayNumber(date) ==
    LET y == FullYear(date)
        m == date.month
        p == y + 399    \* y - 1 in the cycle before, not below zero
    IN  365 * y + (p \div 4 - p \div 100 + p \div 400) + (367 * m - 362) \div 12
        + (IF m <= 2 THEN 0 ELSE IF Leap(y) THEN -1 ELSE -2) + date.day
=============================================================================
