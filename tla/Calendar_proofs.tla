-------------------------- MODULE Calendar_proofs --------------------------
(***************************************************************************)
(* What the calendar of the alarms computes, for every date, and what is   *)
(* read from and written to a clock that ticks meanwhile.                  *)
(***************************************************************************)
EXTENDS RealTimeClock, Lists_proofs

(* A number of two digits goes through a register of the clock unchanged.  *)
THEOREM BCDRoundTrip ==
    ASSUME NEW n \in 0 .. 99
    PROVE  bcd_to_i(i_to_bcd(n)) = n
<1> DEFINE t == n \div 10
           u == n % 10
<1>1. t \in 0 .. 9 /\ u \in 0 .. 9 /\ n = 10 * t + u
  OBVIOUS
<1>2. i_to_bcd(n) = 16 * t + u
  BY DEF i_to_bcd
<1> HIDE DEF t, u
<1>3. (16 * t + u) % 16 = u /\ (16 * t + u) \div 16 = t
  BY <1>1
<1> QED BY <1>1, <1>2, <1>3 DEF bcd_to_i

(* The leap days before a year, the days before a month within its year,   *)
(* and the number of a day from both.                                      *)
LeapDays(y) == (y + 399) \div 4 - (y + 399) \div 100 + (y + 399) \div 400

DaysBefore(m, y) ==
    (367 * m - 362) \div 12 + (IF m <= 2 THEN 0 ELSE IF Leap(y) THEN -1 ELSE -2)

Days(m, k, y) == 365 * y + LeapDays(y) + DaysBefore(m, y) + k

LEMMA CountsTyped ==
    ASSUME NEW m \in 1 .. 12, NEW y \in Nat
    PROVE  /\ LeapDays(y) \in Int /\ DaysBefore(m, y) \in Int
           /\ MonthLength(m, y) \in 28 .. 31
<1>1. LeapDays(y) \in Int
  BY DEF LeapDays
<1>2. DaysBefore(m, y) \in Int
  BY DEF DaysBefore
<1>3. MonthLength(m, y) \in 28 .. 31
  BY DEF MonthLength
<1> QED BY <1>1, <1>2, <1>3

LEMMA LeapYears ==
    ASSUME NEW y \in Nat
    PROVE  /\ LeapDays(y) \in Int
           /\ LeapDays(y + 1) = LeapDays(y) + (IF Leap(y) THEN 1 ELSE 0)
<1> DEFINE p == y + 399
           q == y + 1 + 399
<1>1. q \div 4 = p \div 4 + (IF y % 4 = 0 THEN 1 ELSE 0)
  OBVIOUS
<1>2. q \div 100 = p \div 100 + (IF y % 100 = 0 THEN 1 ELSE 0)
  OBVIOUS
<1>3. q \div 400 = p \div 400 + (IF y % 400 = 0 THEN 1 ELSE 0)
  OBVIOUS
<1>4. (y % 400 = 0 => y % 100 = 0) /\ (y % 100 = 0 => y % 4 = 0)
  OBVIOUS
<1>5. /\ p \div 4 \in Int /\ p \div 100 \in Int /\ p \div 400 \in Int
  OBVIOUS
<1>6. /\ LeapDays(y) = p \div 4 - p \div 100 + p \div 400
      /\ LeapDays(y + 1) = q \div 4 - q \div 100 + q \div 400
  BY DEF LeapDays
<1> HIDE DEF p, q
<1> QED BY <1>1, <1>2, <1>3, <1>4, <1>5, <1>6 DEF Leap

LEMMA MonthStep ==
    ASSUME NEW y \in Nat, NEW m \in 1 .. 11
    PROVE  DaysBefore(m + 1, y) = DaysBefore(m, y) + MonthLength(m, y)
<1>1. CASE m = 1 BY <1>1 DEF DaysBefore, MonthLength
<1>2. CASE m = 2 BY <1>2 DEF DaysBefore, MonthLength
<1>3. CASE m \in {3, 4, 5, 6} BY <1>3 DEF DaysBefore, MonthLength
<1>4. CASE m \in {7, 8, 9, 10, 11} BY <1>4 DEF DaysBefore, MonthLength
<1> QED BY <1>1, <1>2, <1>3, <1>4

(* The number of days grows by one with the day, over the end of a month,  *)
(* and over the end of a year.                                             *)
LEMMA WithinAMonth ==
    ASSUME NEW m \in 1 .. 12, NEW k \in Int, NEW y \in Nat
    PROVE  Days(m, k + 1, y) = Days(m, k, y) + 1
<1> DEFINE l == LeapDays(y)
           b == DaysBefore(m, y)
<1>1. l \in Int /\ b \in Int
  BY CountsTyped
<1>2. Days(m, k, y) = 365 * y + l + b + k /\ Days(m, k + 1, y) = 365 * y + l + b + (k + 1)
  BY DEF Days
<1> HIDE DEF l, b
<1> QED BY <1>1, <1>2

LEMMA OverAMonth ==
    ASSUME NEW m \in 1 .. 11, NEW y \in Nat
    PROVE  Days(m + 1, 1, y) = Days(m, MonthLength(m, y), y) + 1
<1> DEFINE l == LeapDays(y)
           b == DaysBefore(m, y)
           n == MonthLength(m, y)
<1>1. l \in Int /\ b \in Int /\ n \in Int
  <2>1. m \in 1 .. 12
    OBVIOUS
  <2>2. l \in Int /\ b \in Int /\ n \in 28 .. 31
    BY <2>1, CountsTyped
  <2> HIDE DEF n
  <2> QED BY <2>2
<1>2. Days(m, n, y) = 365 * y + l + b + n
  BY DEF Days
<1>3. Days(m + 1, 1, y) = 365 * y + l + (b + n) + 1
  BY MonthStep DEF Days
<1> HIDE DEF l, b, n
<1>4. Days(m + 1, 1, y) = Days(m, n, y) + 1
  BY <1>1, <1>2, <1>3
<1> QED BY <1>4 DEF n

LEMMA OverAYear ==
    ASSUME NEW y \in Nat
    PROVE  Days(1, 1, y + 1) = Days(12, 31, y) + 1
<1> DEFINE l == LeapDays(y)
           extra == IF Leap(y) THEN 1 ELSE 0
<1>1. l \in Int /\ extra \in Int
  BY LeapYears
<1>2. DaysBefore(1, y + 1) = 0 /\ DaysBefore(12, y) = 334 + extra
  BY DEF DaysBefore
<1>3. Days(1, 1, y + 1) = 365 * (y + 1) + (l + extra) + 0 + 1
  BY <1>2, LeapYears DEF Days
<1>4. Days(12, 31, y) = 365 * y + l + (334 + extra) + 31
  BY <1>2 DEF Days
<1> HIDE DEF l, extra
<1> QED BY <1>1, <1>3, <1>4

(* The two rules for the length of a month agree.                          *)
LEMMA MonthsAgree ==
    ASSUME NEW d, NEW m \in 1 .. 12, NEW y \in Nat, d.month = m, FullYear(d) = y
    PROVE  days_in_month(d) = MonthLength(m, y)
<1>1. CASE m \in {4, 6, 9, 11}
  BY <1>1 DEF days_in_month, MonthLength
<1>2. CASE m = 2
  BY <1>2 DEF days_in_month, MonthLength, Leap
<1>3. CASE m \notin {2, 4, 6, 9, 11}
  BY <1>3 DEF days_in_month, MonthLength
<1> QED BY <1>1, <1>2, <1>3

(* A date, its parts, and its number from them.                            *)
LEMMA DateParts ==
    ASSUME NEW d \in Date
    PROVE  /\ d.month \in 1 .. 12 /\ d.day \in 1 .. 31
           /\ d.century \in 0 .. 99 /\ d.year \in 0 .. 99
  BY DEF Date

LEMMA NumberCounts ==
    ASSUME NEW d, NEW m \in 1 .. 12, NEW k \in Int, NEW y \in Nat,
           d.month = m, d.day = k, FullYear(d) = y
    PROVE  DayNumber(d) = Days(m, k, y)
<1>1. DayNumber(d) = 365 * y + LeapDays(y) + (367 * m - 362) \div 12
        + (IF m <= 2 THEN 0 ELSE IF Leap(y) THEN -1 ELSE -2) + k
  BY DEF DayNumber, LeapDays
<1>2. LeapDays(y) \in Int
  BY CountsTyped
<1> QED BY <1>1, <1>2 DEF Days, DaysBefore

(* The date an alarm gets when its time has passed today is the one after  *)
(* today, at every end of a month, a year and a century.                   *)
Later == [month : 1 .. 12, day : 1 .. 31, century : 0 .. 100, year : 0 .. 99]

EndsOnly(d, e) ==
    e.century = 100 => d.month = 12 /\ d.day = 31 /\ d.century = 99 /\ d.year = 99

LEMMA DayAfter ==
    ASSUME NEW d, NEW m \in 1 .. 12, NEW k \in 1 .. 31, NEW c \in 0 .. 99, NEW z \in 0 .. 99,
           d.month = m, d.day = k, d.century = c, d.year = z, RealDate(d)
    PROVE  /\ RealDate(NextDate(d))
           /\ DayNumber(NextDate(d)) = DayNumber(d) + 1
           /\ NextDate(d) \in Later
           /\ EndsOnly(d, NextDate(d))
<1> DEFINE y == FullYear(d)
           n == days_in_month(d)
           e == NextDate(d)
           last == e.century = 100 => m = 12 /\ k = 31 /\ c = 99 /\ z = 99
<1>1. m \in 1 .. 12 /\ k \in 1 .. 31 /\ c \in 0 .. 99 /\ z \in 0 .. 99
  OBVIOUS
<1>2. y = 100 * c + z
  BY DEF FullYear
<1>3. e = IF k + 1 <= n THEN OnDay(m, k + 1, c, z)
          ELSE IF m < 12 THEN OnDay(m + 1, 1, c, z)
          ELSE IF z < 99 THEN OnDay(1, 1, c, z + 1) ELSE OnDay(1, 1, c + 1, 0)
  BY DEF NextDate
<1>4. k <= MonthLength(m, y)
  BY DEF RealDate
<1>5. d.month = m /\ d.day = k /\ FullYear(d) = y /\ days_in_month(d) = n
  OBVIOUS
<1> SUFFICES /\ RealDate(e) /\ DayNumber(e) = DayNumber(d) + 1
             /\ e \in Later /\ last
  BY DEF EndsOnly
<1> HIDE DEF y, n, e
<1> USE DEF last
<1>6. y \in Nat
  BY <1>1, <1>2
<1>7. n = MonthLength(m, y) /\ DayNumber(d) = Days(m, k, y)
  BY <1>1, <1>5, <1>6, MonthsAgree, NumberCounts
<1>8. n \in 28 .. 31 /\ k <= n
  BY <1>1, <1>4, <1>6, <1>7, CountsTyped
<1>9. CASE k < n
  <2> DEFINE j == k + 1
  <2>1. j \in 1 .. 31 /\ j <= n /\ k \in Int
    BY <1>1, <1>8, <1>9
  <2>2. e = OnDay(m, j, c, z)
    BY <1>3, <2>1
  <2>3. Days(m, j, y) = Days(m, k, y) + 1
    BY <1>1, <1>6, <2>1, WithinAMonth
  <2> HIDE DEF j
  <2>4. e.month = m /\ e.day = j /\ FullYear(e) = y
    BY <1>1, <1>2, <2>1, <2>2 DEF OnDay, FullYear
  <2>5. RealDate(e)
    BY <1>7, <2>1, <2>4 DEF RealDate
  <2>6. DayNumber(e) = Days(m, j, y)
    BY <1>1, <1>6, <2>1, <2>4, NumberCounts
  <2>7. e \in Later /\ last
    <3>1. c \in 0 .. 100 /\ c # 100
      BY <1>1
    <3>2. e \in Later /\ e.century = c
      BY <1>1, <2>1, <2>2, <3>1 DEF Later, OnDay
    <3> QED BY <3>1, <3>2
  <2> QED BY <1>1, <1>7, <2>1, <2>3, <2>5, <2>6, <2>7
<1>10. CASE k = n /\ m < 12
  <2> DEFINE i == m + 1
  <2>1. i \in 1 .. 12 /\ m \in 1 .. 11 /\ 1 \in 1 .. 31 /\ ~ (k + 1 <= n)
    BY <1>1, <1>8, <1>10
  <2>2. e = OnDay(i, 1, c, z)
    BY <1>3, <1>10, <2>1
  <2>3. Days(i, 1, y) = Days(m, k, y) + 1
    BY <1>6, <1>7, <1>10, <2>1, OverAMonth
  <2> HIDE DEF i
  <2>4. e.month = i /\ e.day = 1 /\ FullYear(e) = y
    BY <1>1, <1>2, <2>1, <2>2 DEF OnDay, FullYear
  <2> DEFINE o == MonthLength(i, y)
  <2>5. o \in 28 .. 31
    BY <1>6, <2>1, CountsTyped
  <2>6. RealDate(e) <=> 1 <= o
    BY <2>4 DEF RealDate
  <2> HIDE DEF o
  <2>7. RealDate(e)
    BY <2>5, <2>6
  <2>8. DayNumber(e) = Days(i, 1, y)
    BY <1>6, <2>1, <2>4, NumberCounts
  <2>9. e \in Later /\ last
    <3>1. c \in 0 .. 100 /\ c # 100
      BY <1>1
    <3>2. e \in Later /\ e.century = c
      BY <1>1, <2>1, <2>2, <3>1 DEF Later, OnDay
    <3> QED BY <3>1, <3>2
  <2> QED BY <1>1, <1>7, <2>1, <2>3, <2>7, <2>8, <2>9
<1>11. CASE k = n /\ m = 12
  <2>1. n = 31 /\ ~ (k + 1 <= n) /\ ~ (m < 12)
    BY <1>7, <1>8, <1>11 DEF MonthLength
  <2> DEFINE x == y + 1
  <2>2. Days(1, 1, x) = Days(m, k, y) + 1
    BY <1>6, <1>11, <2>1, OverAYear
  <2>3. x \in Nat /\ x = y + 1
    BY <1>6
  <2>4. RealDate(e) <=> e.day <= MonthLength(e.month, FullYear(e))
    BY DEF RealDate
  <2>5. MonthLength(1, x) = 31
    BY DEF MonthLength
  <2> HIDE DEF x
  <2>6. /\ e.month = 1 /\ e.day = 1 /\ FullYear(e) = x
        /\ e \in Later /\ last
    <3>1. CASE z < 99
      <4> DEFINE w == z + 1
      <4>1. w \in 0 .. 99 /\ x = 100 * c + w /\ c \in 0 .. 100 /\ c # 100
        BY <1>1, <1>2, <2>3, <3>1
      <4>2. e = OnDay(1, 1, c, w)
        BY <1>3, <2>1, <3>1
      <4> HIDE DEF w
      <4>3. e \in Later /\ e.century = c
        BY <4>1, <4>2 DEF Later, OnDay
      <4>5. last
        BY <4>1, <4>3
      <4>6. e.month = 1 /\ e.day = 1 /\ FullYear(e) = x
        BY <4>1, <4>2 DEF OnDay, FullYear
      <4> QED BY <4>3, <4>5, <4>6
    <3>2. CASE z = 99
      <4> DEFINE b == c + 1
      <4>1. b \in 0 .. 100 /\ x = 100 * b + 0 /\ (b = 100 => c = 99)
        BY <1>1, <1>2, <1>11, <2>1, <2>3, <3>2
      <4>2. e = OnDay(1, 1, b, 0)
        BY <1>3, <2>1, <3>2
      <4> HIDE DEF b
      <4>3. e \in Later /\ e.century = b
        BY <4>1, <4>2 DEF Later, OnDay
      <4>5. last
        BY <1>1, <1>11, <2>1, <3>2, <4>1, <4>3
      <4>4. e.month = 1 /\ e.day = 1 /\ FullYear(e) = x
        BY <4>1, <4>2 DEF OnDay, FullYear
      <4> QED BY <4>3, <4>4, <4>5
    <3> QED BY <1>1, <3>1, <3>2
  <2>7. RealDate(e)
    BY <2>4, <2>5, <2>6
  <2>8. DayNumber(e) = Days(1, 1, x)
    BY <2>3, <2>6, NumberCounts
  <2> QED BY <1>1, <1>7, <2>2, <2>6, <2>7, <2>8
<1>12. k < n \/ (k = n /\ m < 12) \/ (k = n /\ m = 12)
  BY <1>1, <1>8
<1> QED BY <1>9, <1>10, <1>11, <1>12

(* The last day that a year of four digits can name.                       *)
EndOfTime(d) == d.month = 12 /\ d.day = 31 /\ FullYear(d) = 9999

(* It is a day of the calendar as long as the year has four digits.        *)
THEOREM NextDateFollows ==
    ASSUME NEW d \in Date, RealDate(d), ~ EndOfTime(d)
    PROVE  /\ NextDate(d) \in Date
           /\ RealDate(NextDate(d))
           /\ DayNumber(NextDate(d)) = DayNumber(d) + 1
<1>1. /\ d.month \in 1 .. 12 /\ d.day \in 1 .. 31
      /\ d.century \in 0 .. 99 /\ d.year \in 0 .. 99
  BY DateParts, Zenon
<1>2. PICK m \in 1 .. 12, k \in 1 .. 31, c \in 0 .. 99, z \in 0 .. 99 :
         d.month = m /\ d.day = k /\ d.century = c /\ d.year = z
  BY ONLY <1>1, Zenon
<1>3. /\ RealDate(NextDate(d)) /\ DayNumber(NextDate(d)) = DayNumber(d) + 1
      /\ NextDate(d) \in Later
      /\ EndsOnly(d, NextDate(d))
  BY ONLY <1>2, RealDate(d), m \in 1 .. 12, k \in 1 .. 31, c \in 0 .. 99, z \in 0 .. 99,
          DayAfter, ZenonT(60)
<1>4. NextDate(d).century # 100
  BY <1>3 DEF EndOfTime, EndsOnly, FullYear
<1> QED BY <1>3, <1>4 DEF Later, Date
-----------------------------------------------------------------------------
(***************************************************************************)
(* The ticking clock.                                                      *)
(***************************************************************************)
Moment(m) == m \in [Registers -> Int] /\ Showable(m)

Holds(m, s, mi, h, d, mo, y, c) ==
    /\ m = [r \in Registers |-> m[r]]
    /\ m.second = s /\ m.minute = mi /\ m.hour = h
    /\ m.day = d /\ m.month = mo /\ m.year = y /\ m.century = c

LEMMA HeldMoment ==
    ASSUME NEW m, m = [r \in Registers |-> m[r]], Showable(m)
    PROVE  Moment(m)
<1>1. \A r \in Registers : m[r] \in Int
  BY DEF Showable, Registers
<1>2. m = [r \in Registers |-> m[r]]
  OBVIOUS
<1> QED BY ONLY <1>1, <1>2, Showable(m) DEF Moment

(* A moment that the registers hold is the moment they show.               *)
LEMMA Encoded ==
    ASSUME NEW m, Showable(m)
    PROVE  LET regs == [r \in Registers |-> i_to_bcd(m[r])]
           IN  /\ regs \in [Registers -> 0 .. 255]
               /\ Shown(regs) = [r \in Registers |-> m[r]]
               /\ Moment(Shown(regs))
<1> DEFINE regs == [r \in Registers |-> i_to_bcd(m[r])]
           s == [r \in Registers |-> m[r]]
<1>1. \A r \in Registers : m[r] \in 0 .. 99
  BY DEF Showable, Registers
<1>2. \A n \in 0 .. 99 : i_to_bcd(n) \in 0 .. 255
  BY DEF i_to_bcd
<1>3. \A r \in Registers : bcd_to_i(i_to_bcd(m[r])) = m[r]
  BY <1>1, BCDRoundTrip
<1>4. regs \in [Registers -> 0 .. 255]
  <2>1. \A r \in Registers : i_to_bcd(m[r]) \in 0 .. 255
    BY <1>1, <1>2
  <2> QED BY <2>1
<1>5. Shown(regs) = s
  BY <1>3 DEF Shown
<1>6. Showable(s) /\ s \in [Registers -> Int]
  BY <1>1 DEF Showable, Registers
<1> QED BY <1>4, <1>5, <1>6, ZenonT(60) DEF Moment

(* How far a tick carries.                                                 *)
SameMonth(m, n) == n.month = m.month /\ n.year = m.year /\ n.century = m.century

DayCarries(m, n) ==
    \/ m.day < 31 /\ n.day = m.day + 1 /\ SameMonth(m, n)
    \/ /\ m.day >= 28 /\ n.day = 1
       /\ m.month < 12 /\ n.month = m.month + 1 /\ n.year = m.year /\ n.century = m.century
    \/ /\ m.day = 31 /\ n.day = 1 /\ m.month = 12 /\ n.month = 1
       /\ \/ m.year < 99 /\ n.year = m.year + 1 /\ n.century = m.century
          \/ m.year = 99 /\ n.year = 0 /\ m.century < 99 /\ n.century = m.century + 1
          \/ m.year = 99 /\ n.year = 0 /\ m.century = 99 /\ n.century = 0

Carries(m, n) ==
    \/ /\ m.second < 59 /\ n.second = m.second + 1 /\ n.minute = m.minute /\ n.hour = m.hour
       /\ n.day = m.day /\ SameMonth(m, n)
    \/ /\ m.second = 59 /\ m.minute < 59
       /\ n.second = 0 /\ n.minute = m.minute + 1 /\ n.hour = m.hour
       /\ n.day = m.day /\ SameMonth(m, n)
    \/ /\ m.second = 59 /\ m.minute = 59 /\ m.hour < 23
       /\ n.second = 0 /\ n.minute = 0 /\ n.hour = m.hour + 1
       /\ n.day = m.day /\ SameMonth(m, n)
    \/ /\ m.second = 59 /\ m.minute = 59 /\ m.hour = 23
       /\ n.second = 0 /\ n.minute = 0 /\ n.hour = 0
       /\ DayCarries(m, n)

LEMMA NextDayCarries ==
    ASSUME NEW m, Moment(m)
    PROVE  /\ Moment(NextDay(m)) /\ DayCarries(m, NextDay(m))
           /\ \A r \in {"second", "minute", "hour"} : NextDay(m)[r] = m[r]
<1> DEFINE y == FullYear(m)
           l == MonthLength(m.month, y)
           n == NextDay(m)
<1>1. /\ m \in [Registers -> Int]
      /\ m.second \in 0 .. 59 /\ m.minute \in 0 .. 59 /\ m.hour \in 0 .. 23
      /\ m.day \in 1 .. 31 /\ m.month \in 1 .. 12
      /\ m.year \in 0 .. 99 /\ m.century \in 0 .. 99
  BY DEF Moment, Showable
<1>2. m.month \in 1 .. 12 /\ y \in Nat
  <2>1. y = 100 * m.century + m.year
    BY Zenon DEF FullYear
  <2>2. PICK c \in 0 .. 99, z \in 0 .. 99 : c = m.century /\ z = m.year
    BY ONLY <1>1, Zenon
  <2>3. y = 100 * c + z
    BY <2>1, <2>2
  <2> HIDE DEF y
  <2>4. y \in Nat
    BY ONLY <2>3, c \in 0 .. 99, z \in 0 .. 99
  <2>5. m.month \in 1 .. 12
    BY <1>1
  <2> QED BY ONLY <2>4, <2>5
<1>3. l \in 28 .. 31 /\ (m.month = 12 => l = 31)
  BY <1>2, CountsTyped DEF MonthLength
<1>4. n = IF m.day < l THEN [m EXCEPT !.day = @ + 1]
          ELSE IF m.month < 12 THEN [m EXCEPT !.day = 1, !.month = @ + 1]
          ELSE [m EXCEPT !.day = 1, !.month = 1, !.year = (@ + 1) % 100,
                         !.century = IF m.year = 99 THEN (@ + 1) % 100 ELSE @]
  BY DEF NextDay
<1> HIDE DEF y, l, n
<1>5. CASE m.day < l
  <2>1. Holds(n, m.second, m.minute, m.hour, m.day + 1, m.month, m.year, m.century)
    BY <1>1, <1>4, <1>5 DEF Holds, Registers
  <2>2. Moment(n)
    BY <1>1, <1>3, <1>5, <2>1, HeldMoment DEF Holds, Showable
  <2> QED BY <1>1, <1>3, <1>5, <2>1, <2>2 DEF Holds, DayCarries, SameMonth, n
<1>6. CASE ~ (m.day < l) /\ m.month < 12
  <2>1. Holds(n, m.second, m.minute, m.hour, 1, m.month + 1, m.year, m.century)
    BY <1>1, <1>4, <1>6 DEF Holds, Registers
  <2>2. Moment(n)
    BY <1>1, <1>3, <1>6, <2>1, HeldMoment DEF Holds, Showable
  <2> QED BY <1>1, <1>3, <1>6, <2>1, <2>2 DEF Holds, DayCarries, SameMonth, n
<1>7. CASE ~ (m.day < l) /\ ~ (m.month < 12)
  <2>1. \A i \in 0 .. 99 : /\ i = 99 => (i + 1) % 100 = 0
                           /\ i < 99 => (i + 1) % 100 = i + 1
    OBVIOUS
  <2> DEFINE y2 == IF m.year = 99 THEN 0 ELSE m.year + 1
             c2 == IF m.year # 99 THEN m.century ELSE IF m.century = 99 THEN 0 ELSE m.century + 1
  <2>2. y2 \in 0 .. 99 /\ c2 \in 0 .. 99
    BY <1>1
  <2>3. y2 = (m.year + 1) % 100
    BY <1>1, <2>1
  <2>4. c2 = IF m.year = 99 THEN (m.century + 1) % 100 ELSE m.century
    BY <1>1, <2>1
  <2>5. n = [m EXCEPT !.day = 1, !.month = 1, !.year = y2, !.century = c2]
    BY <1>1, <1>4, <1>7, <2>3, <2>4, ZenonT(60) DEF Registers
  <2>6. Holds(n, m.second, m.minute, m.hour, 1, 1, y2, c2)
    <3> HIDE DEF y2, c2
    <3> QED BY <1>1, <2>2, <2>5 DEF Holds, Registers
  <2>7. m.month = 12 /\ m.day = 31
    BY <1>1, <1>3, <1>7
  <2>8. DayCarries(m, n)
    BY <1>1, <2>6, <2>7 DEF Holds, DayCarries, SameMonth
  <2>9. Moment(n) /\ \A r \in {"second", "minute", "hour"} : n[r] = m[r]
    <3> HIDE DEF y2, c2
    <3>1. Moment(n)
      BY <1>1, <2>2, <2>6, HeldMoment DEF Holds, Showable
    <3> QED BY <2>6, <3>1 DEF Holds
  <2> QED BY <2>8, <2>9 DEF n
<1> QED BY <1>5, <1>6, <1>7

LEMMA NextSecondCarries ==
    ASSUME NEW m, Moment(m)
    PROVE  Moment(NextSecond(m)) /\ Carries(m, NextSecond(m))
<1> DEFINE n == NextSecond(m)
           o == [m EXCEPT !.second = 0, !.minute = 0, !.hour = 0]
<1>1. /\ m \in [Registers -> Int]
      /\ m.second \in 0 .. 59 /\ m.minute \in 0 .. 59 /\ m.hour \in 0 .. 23
      /\ m.day \in 1 .. 31 /\ m.month \in 1 .. 12
      /\ m.year \in 0 .. 99 /\ m.century \in 0 .. 99
  BY DEF Moment, Showable
<1>2. n = IF m.second < 59 THEN [m EXCEPT !.second = @ + 1]
          ELSE IF m.minute < 59 THEN [m EXCEPT !.second = 0, !.minute = @ + 1]
          ELSE IF m.hour < 23 THEN [m EXCEPT !.second = 0, !.minute = 0, !.hour = @ + 1]
          ELSE NextDay(o)
  BY DEF NextSecond
<1> SUFFICES Moment(n) /\ Carries(m, n)
  OBVIOUS
<1> HIDE DEF n, o
<1>3. CASE m.second < 59
  <2>1. Holds(n, m.second + 1, m.minute, m.hour, m.day, m.month, m.year, m.century)
    BY <1>1, <1>2, <1>3 DEF Holds, Registers
  <2>2. Moment(n)
    BY <1>1, <1>3, <2>1, HeldMoment DEF Holds, Showable
  <2> QED BY <1>1, <1>3, <2>1, <2>2 DEF Holds, Carries, SameMonth
<1>4. CASE ~ (m.second < 59) /\ m.minute < 59
  <2>1. Holds(n, 0, m.minute + 1, m.hour, m.day, m.month, m.year, m.century)
    BY <1>1, <1>2, <1>4 DEF Holds, Registers
  <2>2. Moment(n)
    BY <1>1, <1>4, <2>1, HeldMoment DEF Holds, Showable
  <2> QED BY <1>1, <1>4, <2>1, <2>2 DEF Holds, Carries, SameMonth
<1>5. CASE ~ (m.second < 59) /\ ~ (m.minute < 59) /\ m.hour < 23
  <2>1. Holds(n, 0, 0, m.hour + 1, m.day, m.month, m.year, m.century)
    BY <1>1, <1>2, <1>5, ZenonT(60) DEF Holds, Registers
  <2>2. Moment(n)
    BY <1>1, <1>5, <2>1, HeldMoment DEF Holds, Showable
  <2> QED BY <1>1, <1>5, <2>1, <2>2 DEF Holds, Carries, SameMonth
<1>6. CASE ~ (m.second < 59) /\ ~ (m.minute < 59) /\ ~ (m.hour < 23)
  <2>1. Holds(o, 0, 0, 0, m.day, m.month, m.year, m.century)
    BY <1>1 DEF Holds, Registers, o
  <2>2. Moment(o)
    BY <1>1, <2>1, HeldMoment DEF Holds, Showable
  <2>3. /\ Moment(n) /\ DayCarries(o, n) /\ n = NextDay(o)
        /\ \A r \in {"second", "minute", "hour"} : n[r] = o[r]
    BY <1>2, <1>6, <2>2, NextDayCarries
  <2>4. DayCarries(m, n)
    BY <2>1, <2>3 DEF Holds, DayCarries, SameMonth
  <2>5. n.second = 0 /\ n.minute = 0 /\ n.hour = 0
    BY <2>1, <2>3 DEF Holds
  <2>6. m.second = 59 /\ m.minute = 59 /\ m.hour = 23
    BY <1>1, <1>6
  <2> QED BY <2>3, <2>4, <2>5, <2>6 DEF Carries
<1> QED BY <1>3, <1>4, <1>5, <1>6
-----------------------------------------------------------------------------
(***************************************************************************)
(* What is known while an operation is at work.  A reading accesses the    *)
(* registers in the order of their places: what it has read up to a place  *)
(* c is from before the tick, the rest from after it.                      *)
(***************************************************************************)
Reading == {"create_alarm_process", "alarm_process"}

Place(r) ==
    IF r = "hour" THEN 1 ELSE IF r = "minute" THEN 2 ELSE IF r = "second" THEN 3
    ELSE IF r = "day" THEN 4 ELSE IF r = "month" THEN 5 ELSE IF r = "year" THEN 6 ELSE 7

ToRead(k) ==
    IF k = 0 THEN <<"hour", "minute", "second", "day", "month", "year", "century">>
    ELSE IF k = 1 THEN <<"minute", "second", "day", "month", "year", "century">>
    ELSE IF k = 2 THEN <<"second", "day", "month", "year", "century">>
    ELSE IF k = 3 THEN <<"day", "month", "year", "century">>
    ELSE IF k = 4 THEN <<"month", "year", "century">>
    ELSE IF k = 5 THEN <<"year", "century">>
    ELSE IF k = 6 THEN <<"century">>
    ELSE <<>>

ReadAs(shown, r) == IF r = "century" /\ shown[r] = 0 THEN 20 ELSE shown[r]

ReadSoFar(first, last, v, k, c) ==
    \A r \in Registers :
       Place(r) <= k => v[r] = ReadAs(IF Place(r) <= c THEN first ELSE last, r)

ReadInOrder ==
    op \in Reading =>
       /\ Moment(Shown(began)) /\ value \in [Registers -> Int]
       /\ IF torn THEN Shown(register) = NextSecond(Shown(began)) ELSE register = began
       /\ \E k \in 0 .. 7, c \in 0 .. 7 :
             c <= k /\ todo = ToRead(k) /\ ReadSoFar(Shown(began), Shown(register), value, k, c)

(* The hour, and the minute of the day, that are on the clock once they    *)
(* are written: a tick may have carried one minute, or an hour.            *)
TimeWritten(m, v, left, carried) ==
    \/ left = <<"hour", "minute", "second">>
    \/ /\ left = <<"minute", "second">>
       /\ m.hour = v.hour \/ (carried /\ m.hour \in {v.hour + 1, v.hour - 23})
    \/ /\ left = <<"second">>
       /\ \E d \in {0, 1, 60} :
             /\ d # 0 => carried
             /\ (60 * m.hour + m.minute) - (60 * v.hour + v.minute) \in {d, d - 1440}

TimeToSet(v) == v.hour \in 0 .. 23 /\ v.minute \in 0 .. 59 /\ v.second \in 0 .. 59

TimeWrittenInOrder ==
    op = "set_time" => TimeToSet(value) /\ TimeWritten(Shown(register), value, todo, torn)

(* The year, the century and the month likewise.                           *)
MonthIs(m, v) == m.month = v.month /\ m.year = v.year /\ m.century = v.century

MonthAfter(v) == NextDay([v EXCEPT !.day = 31])

YearAfter(m, v) ==
    m.year = (v.year + 1) % 100 /\ m.century \in {v.century, (v.century + 1) % 100}

DateWritten(m, v, left, carried) ==
    \/ left = <<"year", "century", "month", "day">>
    \/ /\ left = <<"century", "month", "day">>
       /\ m.year = v.year \/ (carried /\ m.year = (v.year + 1) % 100)
    \/ /\ left = <<"month", "day">>
       /\ (m.year = v.year /\ m.century = v.century) \/ (carried /\ YearAfter(m, v))
    \/ /\ left = <<"day">>
       /\ \/ MonthIs(m, v)
          \/ carried /\ MonthIs(m, MonthAfter(v))
          \/ carried /\ m.month = v.month /\ YearAfter(m, v)

DateWrittenInOrder ==
    op = "set_date" => Moment(value) /\ DateWritten(Shown(register), value, todo, torn)

(* The alarm that waits has the strings of the moment it is due.           *)
Dated(m) == m.month \in 1 .. 12 /\ m.day \in 1 .. 31 /\ m.year \in 0 .. 99 /\ m.century \in 0 .. 100

AlarmKept ==
    /\ alarm = [time |-> alarm.time, date |-> alarm.date]
    /\ alarm # None \/ op \in Reading =>
          AlarmTimeAccepted(alarm.time) /\ alarm.time \in Seq(Int)
    /\ alarm # None /\ op # "create_alarm_process" =>
          /\ alarm.date = DateString(due) /\ Dated(due)
          /\ due.hour = Numbers(alarm.time).hour /\ due.minute = Numbers(alarm.time).minute
          /\ due.second = Numbers(alarm.time).second

Registered ==
    /\ register \in [Registers -> 0 .. 255] /\ Moment(Shown(register))
    /\ ticks \in 0 .. MaxTicks /\ torn \in BOOLEAN
    /\ op \in {"none", "set_time", "set_date"} \cup Reading
    /\ op = "none" => ~ torn

ClockInv == Registered /\ ReadInOrder /\ TimeWrittenInOrder /\ DateWrittenInOrder /\ AlarmKept

LEMMA ReadingOrder ==
    /\ rtc_get_time \o rtc_get_date = ToRead(0)
    /\ \A r \in Registers : Place(r) \in 1 .. 7
    /\ \A k \in 0 .. 7 : ToRead(k) = <<>> <=> k = 7
    /\ \A k \in 0 .. 6 : /\ Head(ToRead(k)) \in Registers
                         /\ Place(Head(ToRead(k))) = k + 1
                         /\ \A r \in Registers : Place(r) = k + 1 => r = Head(ToRead(k))
                         /\ Tail(ToRead(k)) = ToRead(k + 1)
<1>1. rtc_get_time \o rtc_get_date = ToRead(0)
  <2> DEFINE a == rtc_get_time
             b == rtc_get_date
             c == ToRead(0)
  <2>1. /\ a \in Seq(Registers) /\ b \in Seq(Registers) /\ c \in Seq(Registers)
        /\ Len(a) = 3 /\ Len(b) = 4 /\ Len(c) = 7
        /\ \A i \in 1 .. 3 : a[i] = c[i]
        /\ \A i \in 1 .. 4 : b[i] = c[i + 3]
    <3>1. /\ a \in Seq(Registers) /\ Len(a) = 3
          /\ a[1] = "hour" /\ a[2] = "minute" /\ a[3] = "second"
      BY DEF Registers, rtc_get_time
    <3>2. /\ b \in Seq(Registers) /\ Len(b) = 4
          /\ b[1] = "day" /\ b[2] = "month" /\ b[3] = "year" /\ b[4] = "century"
      BY DEF Registers, rtc_get_date
    <3>3. /\ c \in Seq(Registers) /\ Len(c) = 7
          /\ c[1] = "hour" /\ c[2] = "minute" /\ c[3] = "second"
          /\ c[4] = "day" /\ c[5] = "month" /\ c[6] = "year" /\ c[7] = "century"
      BY DEF Registers, ToRead
    <3> HIDE DEF a, b, c
    <3> QED BY <3>1, <3>2, <3>3
  <2> HIDE DEF a, b, c
  <2>2. /\ a \o b \in Seq(Registers) /\ Len(a \o b) = 7
        /\ \A i \in 1 .. 7 : (a \o b)[i] = IF i <= 3 THEN a[i] ELSE b[i - 3]
    <3>1. /\ a \o b \in Seq(Registers) /\ Len(a \o b) = Len(a) + Len(b)
          /\ \A i \in 1 .. Len(a) + Len(b) :
                (a \o b)[i] = IF i <= Len(a) THEN a[i] ELSE b[i - Len(a)]
      <4>1. a \in Seq(Registers) /\ b \in Seq(Registers)
        BY <2>1
      <4> QED BY ONLY <4>1, ConcatProperties
    <3>2. Len(a) = 3 /\ Len(a) + Len(b) = 7
      BY <2>1
    <3> QED BY <3>1, <3>2
  <2>3. ASSUME NEW i \in 1 .. 7 PROVE (a \o b)[i] = c[i]
    <3>1. CASE i <= 3
      <4>1. i \in 1 .. 3
        BY <3>1
      <4>2. (a \o b)[i] = a[i]
        BY <2>2, <3>1
      <4> QED BY <2>1, <4>1, <4>2
    <3>2. CASE ~ (i <= 3)
      <4> DEFINE j == i - 3
      <4>1. j \in 1 .. 4 /\ i = j + 3
        BY <3>2
      <4>2. (a \o b)[i] = b[j]
        BY <2>2, <3>2
      <4> HIDE DEF j
      <4> QED BY <2>1, <4>1, <4>2
    <3> QED BY <3>1, <3>2
  <2>4. a \o b = c
    BY <2>1, <2>2, <2>3, SeqEqual
  <2> QED BY <2>4 DEF a, b, c
<1>2. \A r \in Registers : Place(r) \in 1 .. 7
  BY DEF Place, Registers
<1>3. \A k \in 0 .. 7 : ToRead(k) = <<>> <=> k = 7
  <2>1. \A k \in 0 .. 6 : Len(ToRead(k)) = 7 - k
    BY DEF ToRead
  <2>2. Len(<<>>) = 0 /\ ToRead(7) = <<>>
    BY DEF ToRead
  <2> QED BY <2>1, <2>2, SMTT(60)
<1>4. ASSUME NEW k \in 0 .. 6
      PROVE  Head(ToRead(k)) \in Registers /\ Place(Head(ToRead(k))) = k + 1
             /\ Tail(ToRead(k)) = ToRead(k + 1)
  <2>1. CASE k = 0 BY <2>1 DEF ToRead, Place, Registers
  <2>2. CASE k = 1 BY <2>2 DEF ToRead, Place, Registers
  <2>3. CASE k = 2 BY <2>3 DEF ToRead, Place, Registers
  <2>4. CASE k = 3 BY <2>4 DEF ToRead, Place, Registers
  <2>5. CASE k = 4 BY <2>5 DEF ToRead, Place, Registers
  <2>6. CASE k = 5 BY <2>6 DEF ToRead, Place, Registers
  <2>7. CASE k = 6 BY <2>7 DEF ToRead, Place, Registers
  <2> QED BY <2>1, <2>2, <2>3, <2>4, <2>5, <2>6, <2>7
<1>5. \A r, q \in Registers : Place(r) = Place(q) => r = q
  BY DEF Place, Registers
<1> QED BY <1>1, <1>2, <1>3, <1>4, <1>5

(* A register that is written shows what was written, the others what they *)
(* showed.                                                                 *)
LEMMA WriteShows ==
    ASSUME NEW regs \in [Registers -> 0 .. 255], NEW r \in Registers, NEW n \in 0 .. 99
    PROVE  LET after == [regs EXCEPT ![r] = i_to_bcd(n)]
           IN  /\ after \in [Registers -> 0 .. 255]
               /\ Shown(after) = [Shown(regs) EXCEPT ![r] = n]
<1> DEFINE after == [regs EXCEPT ![r] = i_to_bcd(n)]
<1>1. i_to_bcd(n) \in 0 .. 255 /\ bcd_to_i(i_to_bcd(n)) = n
  BY BCDRoundTrip DEF i_to_bcd
<1>2. after \in [Registers -> 0 .. 255]
  BY <1>1
<1>3. \A q \in Registers : bcd_to_i(after[q]) = IF q = r THEN n ELSE bcd_to_i(regs[q])
  BY <1>1
<1>4. Shown(after) = [q \in Registers |-> IF q = r THEN n ELSE bcd_to_i(regs[q])]
  BY <1>3 DEF Shown
<1>5. [Shown(regs) EXCEPT ![r] = n]
        = [q \in Registers |-> IF q = r THEN n ELSE bcd_to_i(regs[q])]
  BY DEF Shown
<1> QED BY <1>2, <1>4, <1>5

(* What a tick carries into the hour and the minute of the day, and into   *)
(* the month and the year.                                                 *)
LEMMA CarriesTime ==
    ASSUME NEW m, NEW n, Moment(m), Moment(n), Carries(m, n)
    PROVE  /\ n.hour = m.hour \/ n.hour \in {m.hour + 1, m.hour - 23}
           /\ \E d \in {0, 1} : (60 * n.hour + n.minute) - (60 * m.hour + m.minute) \in {d, d - 1440}
<1>1. m.hour \in 0 .. 23 /\ n.hour \in 0 .. 23 /\ m.minute \in 0 .. 59 /\ n.minute \in 0 .. 59
  BY DEF Moment, Showable
<1>2. PICK h \in 0 .. 23, i \in 0 .. 59, g \in 0 .. 23, j \in 0 .. 59 :
         m.hour = h /\ m.minute = i /\ n.hour = g /\ n.minute = j
  BY ONLY <1>1, Zenon
<1>3. \/ g = h /\ j = i
      \/ g = h /\ j = i + 1
      \/ g = h + 1 /\ i = 59 /\ j = 0
      \/ h = 23 /\ g = 0 /\ i = 59 /\ j = 0
  BY <1>2 DEF Carries
<1>4. g = h \/ g = h + 1 \/ g = h - 23
  BY ONLY <1>3, h \in 0 .. 23, g \in 0 .. 23
<1>5. \E d \in {0, 1} : (60 * g + j) - (60 * h + i) \in {d, d - 1440}
  BY ONLY <1>3, h \in 0 .. 23, i \in 0 .. 59, g \in 0 .. 23, j \in 0 .. 59
<1> QED BY ONLY <1>2, <1>4, <1>5

LEMMA MonthAfterIs ==
    ASSUME NEW v, Moment(v)
    PROVE  LET n == MonthAfter(v)
           IN  \/ /\ v.month < 12 /\ n.month = v.month + 1
                  /\ n.year = v.year /\ n.century = v.century
               \/ /\ v.month = 12 /\ n.month = 1
                  /\ n.year = (v.year + 1) % 100
                  /\ n.century = IF v.year = 99 THEN (v.century + 1) % 100 ELSE v.century
<1> DEFINE o == [v EXCEPT !.day = 31]
           n == MonthAfter(v)
<1>1. v \in [Registers -> Int] /\ Showable(v)
  BY DEF Moment
<1>2. /\ o = [r \in Registers |-> o[r]] /\ o.day = 31
      /\ \A r \in {"second", "minute", "hour", "month", "year", "century"} : o[r] = v[r]
  BY <1>1 DEF Registers
<1> SUFFICES \/ /\ v.month < 12 /\ n.month = v.month + 1
                /\ n.year = v.year /\ n.century = v.century
             \/ /\ v.month = 12 /\ n.month = 1
                /\ n.year = (v.year + 1) % 100
                /\ n.century = IF v.year = 99 THEN (v.century + 1) % 100 ELSE v.century
  OBVIOUS
<1>3. n = NextDay(o)
  BY DEF MonthAfter
<1> HIDE DEF o, n
<1>4. Showable(o)
  BY <1>1, <1>2 DEF Showable
<1>5. Moment(o)
  BY <1>2, <1>4, HeldMoment
<1>6. DayCarries(o, n)
  BY <1>3, <1>5, NextDayCarries
<1>7. \A i \in 0 .. 99 : /\ i = 99 => (i + 1) % 100 = 0
                         /\ i < 99 => (i + 1) % 100 = i + 1
  OBVIOUS
<1> QED BY <1>1, <1>2, <1>6, <1>7 DEF DayCarries, Showable, SameMonth

LEMMA CarriesMonth ==
    ASSUME NEW m, NEW n, Moment(m), Carries(m, n)
    PROVE  MonthIs(n, m) \/ MonthIs(n, MonthAfter(m))
<1> DEFINE w == MonthAfter(m)
<1>1. \/ /\ m.month < 12 /\ w.month = m.month + 1
         /\ w.year = m.year /\ w.century = m.century
      \/ /\ m.month = 12 /\ w.month = 1
         /\ w.year = (m.year + 1) % 100
         /\ w.century = IF m.year = 99 THEN (m.century + 1) % 100 ELSE m.century
  BY MonthAfterIs
<1> HIDE DEF w
<1>2. m.month \in 1 .. 12 /\ m.year \in 0 .. 99 /\ m.century \in 0 .. 99
  BY DEF Moment, Showable
<1>3. \A i \in 0 .. 99 : /\ i = 99 => (i + 1) % 100 = 0
                         /\ i < 99 => (i + 1) % 100 = i + 1
  OBVIOUS
<1>4. MonthIs(n, m) \/ MonthIs(n, w)
  BY <1>1, <1>2, <1>3 DEF Carries, DayCarries, SameMonth, MonthIs
<1> QED BY <1>4 DEF w
-----------------------------------------------------------------------------
(***************************************************************************)
(* Every step keeps it.                                                    *)
(***************************************************************************)
LEMMA ClockStarts == Init => ClockInv
<1> SUFFICES ASSUME Init PROVE ClockInv
  OBVIOUS
<1>1. PICK m \in Moments : register = [r \in Registers |-> i_to_bcd(m[r])]
  BY DEF Init
<1>2. Showable(m)
  BY MomentsAssumption
<1>3. register \in [Registers -> 0 .. 255] /\ Moment(Shown(register))
  BY <1>1, <1>2, Encoded, ZenonT(60)
<1>4. /\ ticks = 0 /\ op = "none" /\ torn = FALSE /\ alarm = None
  BY DEF Init
<1>5. ticks \in 0 .. MaxTicks
  BY <1>4, TicksAssumption
<1>6. Registered
  BY <1>3, <1>4, <1>5 DEF Registered
<1>7. op \notin Reading /\ op # "set_time" /\ op # "set_date"
  BY <1>4 DEF Reading
<1>8. alarm = [time |-> alarm.time, date |-> alarm.date]
  BY <1>4 DEF None
<1> QED BY <1>4, <1>6, <1>7, <1>8
        DEF ClockInv, ReadInOrder, TimeWrittenInOrder, DateWrittenInOrder, AlarmKept

(* A tick between two writes.                                              *)
LEMMA TickWhileTimeWritten ==
    ASSUME NEW m, NEW n, NEW v, NEW left, Moment(m), Moment(n), Carries(m, n),
           TimeToSet(v), TimeWritten(m, v, left, FALSE)
    PROVE  TimeWritten(n, v, left, TRUE)
<1>1. /\ n.hour = m.hour \/ n.hour \in {m.hour + 1, m.hour - 23}
      /\ \E d \in {0, 1} : (60 * n.hour + n.minute) - (60 * m.hour + m.minute) \in {d, d - 1440}
  BY CarriesTime
<1>2. /\ m.hour \in 0 .. 23 /\ n.hour \in 0 .. 23 /\ m.minute \in 0 .. 59 /\ n.minute \in 0 .. 59
      /\ v.hour \in 0 .. 23 /\ v.minute \in 0 .. 59
  BY DEF Moment, Showable, TimeToSet
<1>3. CASE left = <<"hour", "minute", "second">>
  BY <1>3 DEF TimeWritten
<1>4. CASE left = <<"minute", "second">> /\ m.hour = v.hour
  BY <1>1, <1>4 DEF TimeWritten
<1>5. CASE /\ left = <<"second">>
           /\ (60 * m.hour + m.minute) - (60 * v.hour + v.minute) \in {0, 0 - 1440}
  <2>1. \E d \in {0, 1} : (60 * n.hour + n.minute) - (60 * v.hour + v.minute) \in {d, d - 1440}
    <3>1. PICK h \in 0 .. 23, i \in 0 .. 59, g \in 0 .. 23, j \in 0 .. 59 :
             h = m.hour /\ i = m.minute /\ g = v.hour /\ j = v.minute
      BY ONLY <1>2, Zenon
    <3>2. (60 * h + i) - (60 * g + j) \in {0, 0 - 1440}
      BY <1>5, <3>1
    <3>3. 60 * h + i = 60 * g + j
      BY ONLY <3>2, h \in 0 .. 23, i \in 0 .. 59, g \in 0 .. 23, j \in 0 .. 59
    <3> QED BY ONLY <1>1, <3>1, <3>3
  <2> QED BY <1>5, <2>1 DEF TimeWritten
<1> QED BY <1>3, <1>4, <1>5 DEF TimeWritten

LEMMA TickWhileDateWritten ==
    ASSUME NEW m, NEW n, NEW v, NEW left, Moment(m), Moment(v), Carries(m, n),
           DateWritten(m, v, left, FALSE)
    PROVE  DateWritten(n, v, left, TRUE)
<1> DEFINE w == MonthAfter(m)
           x == MonthAfter(v)
<1>1. MonthIs(n, m) \/ MonthIs(n, w)
  BY CarriesMonth
<1>2. \/ /\ m.month < 12 /\ w.month = m.month + 1
         /\ w.year = m.year /\ w.century = m.century
      \/ /\ m.month = 12 /\ w.month = 1
         /\ w.year = (m.year + 1) % 100
         /\ w.century = IF m.year = 99 THEN (m.century + 1) % 100 ELSE m.century
  BY MonthAfterIs
<1>3. \/ /\ v.month < 12 /\ x.month = v.month + 1
         /\ x.year = v.year /\ x.century = v.century
      \/ /\ v.month = 12 /\ x.month = 1
         /\ x.year = (v.year + 1) % 100
         /\ x.century = IF v.year = 99 THEN (v.century + 1) % 100 ELSE v.century
  BY MonthAfterIs
<1> HIDE DEF w, x
<1>4. CASE left = <<"year", "century", "month", "day">>
  BY <1>4 DEF DateWritten
<1>5. CASE left = <<"century", "month", "day">> /\ m.year = v.year
  <2>1. n.year = v.year \/ n.year = (v.year + 1) % 100
    BY <1>1, <1>2, <1>5 DEF MonthIs
  <2> QED BY <1>5, <2>1 DEF DateWritten
<1>6. CASE left = <<"month", "day">> /\ m.year = v.year /\ m.century = v.century
  <2>1. (n.year = v.year /\ n.century = v.century) \/ YearAfter(n, v)
    BY <1>1, <1>2, <1>6 DEF MonthIs, YearAfter
  <2> QED BY <1>6, <2>1 DEF DateWritten
<1>7. CASE left = <<"day">> /\ MonthIs(m, v)
  <2>1. MonthIs(n, v) \/ MonthIs(n, x)
    BY <1>1, <1>2, <1>3, <1>7 DEF MonthIs
  <2> QED BY <1>7, <2>1 DEF DateWritten, x
<1> QED BY <1>4, <1>5, <1>6, <1>7 DEF DateWritten

LEMMA TickShows ==
    ASSUME ClockInv, Tick
    PROVE  /\ Registered' /\ Shown(register') = NextSecond(Shown(register))
           /\ Moment(Shown(register)) /\ Moment(Shown(register'))
           /\ Carries(Shown(register), Shown(register'))
<1> DEFINE m == Shown(register)
           n == NextSecond(m)
<1>1. /\ Moment(m) /\ ticks \in 0 .. MaxTicks
      /\ op \in {"none", "set_time", "set_date"} \cup Reading
  BY DEF ClockInv, Registered
<1>2. /\ register' = [r \in Registers |-> i_to_bcd(n[r])]
      /\ ticks < MaxTicks /\ ticks' = ticks + 1 /\ op' = op /\ torn' = (op # "none")
  BY DEF Tick
<1> HIDE DEF m, n
<1>3. Moment(n) /\ Carries(m, n)
  BY <1>1, NextSecondCarries DEF n
<1>4. n \in [Registers -> Int] /\ Showable(n)
  BY <1>3 DEF Moment
<1>5. /\ register' \in [Registers -> 0 .. 255]
      /\ Shown(register') = [r \in Registers |-> n[r]]
  BY <1>2, <1>4, Encoded
<1>6. Shown(register') = n
  BY <1>4, <1>5
<1>7. Registered'
  <2>1. ticks' \in 0 .. MaxTicks
    BY <1>1, <1>2, TicksAssumption
  <2>2. Moment(Shown(register))'
    BY <1>3, <1>6
  <2> QED BY <1>1, <1>2, <1>5, <2>1, <2>2 DEF Registered
<1> QED BY <1>1, <1>3, <1>6, <1>7 DEF m, n

LEMMA TickKeeps ==
    ASSUME ClockInv, Tick
    PROVE  ClockInv'
<1> DEFINE m == Shown(register)
           n == Shown(register')
<1>1. /\ Registered' /\ n = NextSecond(m) /\ Moment(m) /\ Moment(n) /\ Carries(m, n)
  BY TickShows
<1>2. /\ torn = FALSE /\ (op # "none" => torn' = TRUE)
      /\ UNCHANGED <<op, todo, value, alarm, began, due>>
  <2>1. torn \in BOOLEAN
    BY DEF ClockInv, Registered
  <2> QED BY <2>1, Zenon DEF Tick
<1>3. ReadInOrder'
  <2> SUFFICES ASSUME op \in Reading PROVE ReadInOrder'
    BY <1>2 DEF ReadInOrder
  <2>1. /\ Moment(Shown(began)) /\ value \in [Registers -> Int] /\ register = began
    BY <1>2 DEF ClockInv, ReadInOrder
  <2>2. PICK k \in 0 .. 7, c \in 0 .. 7 :
           c <= k /\ todo = ToRead(k) /\ ReadSoFar(Shown(began), m, value, k, c)
    BY DEF ClockInv, ReadInOrder
  <2>3. ReadSoFar(Shown(began), n, value, k, k)
    BY <2>1, <2>2 DEF ReadSoFar
  <2>4. k <= k /\ torn'
    BY <1>2 DEF Reading
  <2> QED BY <1>1, <1>2, <2>1, <2>2, <2>3, <2>4 DEF ReadInOrder
<1>4. TimeWrittenInOrder'
  <2> SUFFICES ASSUME op = "set_time" PROVE TimeWrittenInOrder'
    BY <1>2 DEF TimeWrittenInOrder
  <2>1. TimeToSet(value) /\ TimeWritten(m, value, todo, FALSE)
    BY <1>2, ZenonT(60) DEF ClockInv, TimeWrittenInOrder
  <2>2. TimeWritten(n, value, todo, TRUE)
    BY <1>1, <2>1, TickWhileTimeWritten, ZenonT(60)
  <2> QED BY <1>2, <2>1, <2>2, ZenonT(60) DEF TimeWrittenInOrder
<1>5. DateWrittenInOrder'
  <2> SUFFICES ASSUME op = "set_date" PROVE DateWrittenInOrder'
    BY <1>2 DEF DateWrittenInOrder
  <2>1. Moment(value) /\ DateWritten(m, value, todo, FALSE)
    BY <1>2, ZenonT(60) DEF ClockInv, DateWrittenInOrder
  <2>2. DateWritten(n, value, todo, TRUE)
    BY <1>1, <2>1, TickWhileDateWritten, ZenonT(60)
  <2> QED BY <1>2, <2>1, <2>2, ZenonT(60) DEF DateWrittenInOrder
<1>6. AlarmKept'
  BY <1>2 DEF ClockInv, AlarmKept
<1> QED BY <1>1, <1>3, <1>4, <1>5, <1>6 DEF ClockInv

(* A write, of the register that is next.                                  *)
TimeGoesOn(n, v, left, c) ==
    /\ Len(left) # 1 => TimeWritten(n, v, Tail(left), c)
    /\ Len(left) = 1 => (Seconds(n) - Seconds(v)) % Day \in {0} \cup IF c THEN {60, 3600} ELSE {}

DateGoesOn(n, v, left, c) ==
    /\ Len(left) # 1 => DateWritten(n, v, Tail(left), c)
    /\ Len(left) = 1 =>
          /\ n.day = v.day
          /\ \/ MonthIs(n, v)
             \/ c /\ MonthIs(n, MonthAfter(v))
             \/ c /\ n.month = v.month /\ YearAfter(n, v)

LEMMA WriteWhileTimeWritten ==
    ASSUME NEW m, NEW n, NEW v, NEW left, NEW c \in BOOLEAN, Moment(m),
           TimeToSet(v), TimeWritten(m, v, left, c),
           n = [m EXCEPT ![Head(left)] = v[Head(left)]]
    PROVE  /\ Head(left) \in Registers /\ v[Head(left)] \in 0 .. 99 /\ Moment(n)
           /\ TimeGoesOn(n, v, left, c)
<1>1. m \in [Registers -> Int] /\ Showable(m)
  BY DEF Moment
<1>2. v.hour \in 0 .. 23 /\ v.minute \in 0 .. 59 /\ v.second \in 0 .. 59
  BY DEF TimeToSet
<1>3. n = [r \in Registers |-> n[r]]
  BY <1>1
<1>4. CASE left = <<"hour", "minute", "second">>
  <2>1. Head(left) = "hour" /\ Tail(left) = <<"minute", "second">> /\ Len(left) # 1
    BY <1>4
  <2>2. /\ n.hour = v.hour
        /\ \A r \in Registers : r # "hour" => n[r] = m[r]
    BY <1>1, <2>1 DEF Registers
  <2>3. Showable(n)
    BY <1>1, <1>2, <2>2 DEF Showable, Registers
  <2>4. Moment(n)
    BY <1>3, <2>3, HeldMoment
  <2>5. TimeWritten(n, v, Tail(left), c)
    BY <2>1, <2>2 DEF TimeWritten
  <2> QED BY <1>2, <2>1, <2>4, <2>5 DEF Registers, TimeGoesOn
<1>5. CASE /\ left = <<"minute", "second">>
           /\ m.hour = v.hour \/ (c /\ m.hour \in {v.hour + 1, v.hour - 23})
  <2>1. Head(left) = "minute" /\ Tail(left) = <<"second">> /\ Len(left) # 1
    BY <1>5
  <2>2. /\ n.minute = v.minute /\ n.hour = m.hour
        /\ \A r \in Registers : r # "minute" => n[r] = m[r]
    BY <1>1, <2>1 DEF Registers
  <2>3. Showable(n)
    BY <1>1, <1>2, <2>2 DEF Showable, Registers
  <2>4. Moment(n)
    BY <1>3, <2>3, HeldMoment
  <2>5. /\ \E d \in {0, 60} :
              /\ d # 0 => c
              /\ (60 * n.hour + n.minute) - (60 * v.hour + v.minute) \in {d, d - 1440}
    <3>1. PICK h \in Int, i \in Int : h = v.hour /\ i = v.minute
      BY <1>2
    <3>2. n.minute = i /\ (n.hour = h \/ (c /\ n.hour \in {h + 1, h - 23}))
      BY <1>5, <2>2, <3>1
    <3>3. CASE n.hour = h
      BY <3>1, <3>2, <3>3
    <3>4. CASE c /\ n.hour = h + 1
      BY <3>1, <3>2, <3>4
    <3>5. CASE c /\ n.hour = h - 23
      BY <3>1, <3>2, <3>5
    <3> QED BY <3>2, <3>3, <3>4, <3>5
  <2>6. TimeWritten(n, v, Tail(left), c)
    BY <2>1, <2>5 DEF TimeWritten
  <2> QED BY <1>2, <2>1, <2>4, <2>6 DEF Registers, TimeGoesOn
<1>6. ASSUME left = <<"second">>, NEW d \in {0, 1, 60}, d # 0 => c,
             (60 * m.hour + m.minute) - (60 * v.hour + v.minute) \in {d, d - 1440}
      PROVE  /\ Head(left) \in Registers /\ v[Head(left)] \in 0 .. 99 /\ Moment(n)
             /\ TimeGoesOn(n, v, left, c)
  <2>1. Head(left) = "second" /\ Len(left) = 1
    BY <1>6
  <2>2. /\ n.second = v.second /\ n.hour = m.hour /\ n.minute = m.minute
        /\ \A r \in Registers : r # "second" => n[r] = m[r]
    BY <1>1, <2>1 DEF Registers
  <2>3. Showable(n)
    BY <1>1, <1>2, <2>2 DEF Showable, Registers
  <2>4. Moment(n)
    BY ONLY <1>3, <2>3, HeldMoment, Zenon
  <2>5. (Seconds(n) - Seconds(v)) % Day \in {0} \cup IF c THEN {60, 3600} ELSE {}
    <3>1. PICK h \in 0 .. 23, i \in 0 .. 59, s \in 0 .. 59 :
             h = v.hour /\ i = v.minute /\ s = v.second
      BY ONLY <1>2, ZenonT(60)
    <3>2. PICK g \in 0 .. 23, j \in 0 .. 59 : g = m.hour /\ j = m.minute
      BY <1>1 DEF Showable
    <3>3. Seconds(n) = 3600 * g + 60 * j + s /\ Seconds(v) = 3600 * h + 60 * i + s
      BY <2>2, <3>1, <3>2 DEF Seconds
    <3>4. (60 * g + j) - (60 * h + i) \in {d, d - 1440}
      BY <1>6, <3>1, <3>2
    <3>5. (3600 * g + 60 * j + s) - (3600 * h + 60 * i + s) \in {60 * d, 60 * d - 86400}
      BY ONLY <3>4, d \in {0, 1, 60}, h \in 0 .. 23, i \in 0 .. 59, s \in 0 .. 59,
              g \in 0 .. 23, j \in 0 .. 59
    <3>6. Day = 86400
      BY DEF Day
    <3>7. \A x \in {60 * d, 60 * d - 86400} : x % 86400 = 60 * d
      BY ONLY d \in {0, 1, 60}
    <3>8. (Seconds(n) - Seconds(v)) % Day = 60 * d
      BY <3>3, <3>5, <3>6, <3>7
    <3> QED BY <1>6, <3>8
  <2> QED BY <1>2, <2>1, <2>4, <2>5 DEF Registers, TimeGoesOn
<1> QED BY <1>4, <1>5, <1>6 DEF TimeWritten

LEMMA WriteWhileDateWritten ==
    ASSUME NEW m, NEW n, NEW v, NEW left, NEW c \in BOOLEAN, Moment(m),
           Moment(v), DateWritten(m, v, left, c),
           n = [m EXCEPT ![Head(left)] = v[Head(left)]]
    PROVE  /\ Head(left) \in Registers /\ v[Head(left)] \in 0 .. 99 /\ Moment(n)
           /\ DateGoesOn(n, v, left, c)
<1>1. m \in [Registers -> Int] /\ Showable(m)
  BY DEF Moment
<1>2. /\ v.day \in 1 .. 31 /\ v.month \in 1 .. 12
      /\ v.year \in 0 .. 99 /\ v.century \in 0 .. 99
  BY DEF Moment, Showable
<1>3. n = [r \in Registers |-> n[r]]
  BY <1>1
<1>4. CASE left = <<"year", "century", "month", "day">>
  <2>1. /\ Head(left) = "year" /\ Tail(left) = <<"century", "month", "day">>
        /\ Len(left) # 1
    BY <1>4
  <2>2. n.year = v.year /\ \A r \in Registers : r # "year" => n[r] = m[r]
    BY <1>1, <2>1 DEF Registers
  <2>3. Showable(n)
    BY <1>1, <1>2, <2>2 DEF Showable, Registers
  <2>4. Moment(n)
    BY <1>3, <2>3, HeldMoment
  <2>5. DateWritten(n, v, Tail(left), c)
    BY <2>1, <2>2 DEF DateWritten
  <2> QED BY <1>2, <2>1, <2>4, <2>5 DEF Registers, DateGoesOn
<1>5. CASE /\ left = <<"century", "month", "day">>
           /\ m.year = v.year \/ (c /\ m.year = (v.year + 1) % 100)
  <2>1. Head(left) = "century" /\ Tail(left) = <<"month", "day">> /\ Len(left) # 1
    BY <1>5
  <2>2. n.century = v.century /\ \A r \in Registers : r # "century" => n[r] = m[r]
    BY <1>1, <2>1 DEF Registers
  <2>3. Showable(n)
    BY <1>1, <1>2, <2>2 DEF Showable, Registers
  <2>4. Moment(n)
    BY <1>3, <2>3, HeldMoment
  <2>5. n.year = m.year
    BY <2>2 DEF Registers
  <2>6. DateWritten(n, v, Tail(left), c)
    BY <1>5, <2>1, <2>2, <2>5 DEF DateWritten, YearAfter
  <2> QED BY <1>2, <2>1, <2>4, <2>6 DEF Registers, DateGoesOn
<1>6. CASE /\ left = <<"month", "day">>
           /\ (m.year = v.year /\ m.century = v.century) \/ (c /\ YearAfter(m, v))
  <2>1. Head(left) = "month" /\ Tail(left) = <<"day">> /\ Len(left) # 1
    BY <1>6
  <2>2. n.month = v.month /\ \A r \in Registers : r # "month" => n[r] = m[r]
    BY <1>1, <2>1 DEF Registers
  <2>3. Showable(n)
    BY <1>1, <1>2, <2>2 DEF Showable, Registers
  <2>4. Moment(n)
    BY <1>3, <2>3, HeldMoment
  <2>5. n.year = m.year /\ n.century = m.century
    BY <2>2 DEF Registers
  <2>6. DateWritten(n, v, Tail(left), c)
    BY <1>6, <2>1, <2>2, <2>5 DEF DateWritten, YearAfter, MonthIs
  <2> QED BY <1>2, <2>1, <2>4, <2>6 DEF Registers, DateGoesOn
<1>7. CASE /\ left = <<"day">>
           /\ \/ MonthIs(m, v)
              \/ c /\ MonthIs(m, MonthAfter(v))
              \/ c /\ m.month = v.month /\ YearAfter(m, v)
  <2>1. Head(left) = "day" /\ Len(left) = 1
    BY <1>7
  <2>2. n.day = v.day /\ \A r \in Registers : r # "day" => n[r] = m[r]
    BY <1>1, <2>1 DEF Registers
  <2>3. Showable(n)
    BY <1>1, <1>2, <2>2 DEF Showable, Registers
  <2>4. Moment(n)
    BY <1>3, <2>3, HeldMoment
  <2>5. n.month = m.month /\ n.year = m.year /\ n.century = m.century
    BY <2>2 DEF Registers
  <2> DEFINE w == MonthAfter(v)
  <2>6. MonthIs(m, w) => MonthIs(n, w)
    BY <2>5 DEF MonthIs
  <2>7. MonthIs(m, v) => MonthIs(n, v)
    BY <2>5 DEF MonthIs
  <2>8. m.month = v.month /\ YearAfter(m, v) => n.month = v.month /\ YearAfter(n, v)
    BY <2>5 DEF YearAfter
  <2> QED BY <1>2, <1>7, <2>1, <2>2, <2>4, <2>6, <2>7, <2>8 DEF Registers, DateGoesOn
<1> QED BY <1>4, <1>5, <1>6, <1>7 DEF DateWritten

(* The steps that begin an operation, between two others.                  *)
LEMMA SetTimeStarts ==
    ASSUME ClockInv, set_time
    PROVE  ClockInv'
<1>1. PICK t \in Times :
         /\ TimeAccepted(t)
         /\ Starts("set_time", rtc_set_time,
                   [Nothing EXCEPT !.hour = t.hour, !.minute = t.minute, !.second = t.second])
         /\ UNCHANGED <<alarm, due>>
  BY ZenonT(60) DEF set_time
<1>2. /\ op = "none" /\ op' = "set_time" /\ todo' = rtc_set_time
      /\ value' = [Nothing EXCEPT !.hour = t.hour, !.minute = t.minute, !.second = t.second]
      /\ register' = register /\ ticks' = ticks /\ torn' = torn
      /\ alarm' = alarm /\ due' = due
  BY <1>1 DEF Starts
<1>3. Registered'
  BY <1>2 DEF ClockInv, Registered
<1>4. TimeToSet(value')
  BY <1>1, <1>2 DEF TimeToSet, TimeAccepted, Nothing, Registers
<1>5. TimeWrittenInOrder'
  BY <1>2, <1>4 DEF TimeWrittenInOrder, TimeWritten, rtc_set_time
<1>6. ReadInOrder' /\ DateWrittenInOrder' /\ AlarmKept'
  BY <1>2 DEF ClockInv, ReadInOrder, DateWrittenInOrder, AlarmKept, Reading
<1> QED BY <1>3, <1>5, <1>6 DEF ClockInv

LEMMA DateInRange ==
    ASSUME NEW m, NEW k, NEW y, DateAccepted(m, k, y)
    PROVE  m \in 1 .. 12 /\ k \in 1 .. 31 /\ y \in Nat /\ y < 10000
<1>1. m \in 1 .. 12 /\ k \in 1 .. day_max(m, y) /\ y \in 0 .. 9999
  BY DEF DateAccepted
<1>2. m \in 1 .. 12 /\ y \in Nat /\ y < 10000
  BY ONLY <1>1
<1>3. day_max(m, y) \in {28, 29, 30, 31}
  BY ONLY <1>2 DEF day_max
<1> QED BY ONLY <1>1, <1>2, <1>3, SMTT(60)

LEMMA SetDateStarts ==
    ASSUME ClockInv, set_date
    PROVE  ClockInv'
<1> DEFINE c(d) == IF d.year \div 100 = 0 THEN 20 ELSE d.year \div 100
           v(d) == [Nothing EXCEPT !.month = d.month, !.day = d.day, !.year = d.year % 100,
                                   !.century = c(d)]
<1>1. PICK d \in Dates :
         /\ DateAccepted(d.month, d.day, d.year)
         /\ Starts("set_date", rtc_set_date, v(d))
         /\ UNCHANGED <<alarm, due>>
  BY ZenonT(60) DEF set_date
<1>2. /\ op = "none" /\ op' = "set_date" /\ todo' = rtc_set_date /\ value' = v(d)
      /\ register' = register /\ ticks' = ticks /\ torn' = torn
      /\ alarm' = alarm /\ due' = due
  BY <1>1 DEF Starts
<1>3. Registered'
  BY <1>2 DEF ClockInv, Registered
<1>4. Moment(value')
  <2>1. d.month \in 1 .. 12 /\ d.day \in 1 .. 31
        /\ d.year \in Nat /\ d.year < 10000
    BY ONLY <1>1, DateInRange
  <2>3. d.year % 100 \in 0 .. 99 /\ c(d) \in 0 .. 99
    <3>1. PICK y \in Nat : d.year = y
      BY ONLY <2>1
    <3>2. y % 100 \in 0 .. 99
      BY ONLY y \in Nat
    <3>3. y \div 100 \in 0 .. 99
      <4>1. y < 10000
        BY ONLY <2>1, <3>1
      <4> QED BY ONLY <4>1, y \in Nat
    <3> QED BY ONLY <3>1, <3>2, <3>3 DEF c
  <2> DEFINE z == d.year % 100
             b == c(d)
             w == v(d)
  <2>4. w = [Nothing EXCEPT !.month = d.month, !.day = d.day, !.year = z, !.century = b]
    OBVIOUS
  <2>5. z \in 0 .. 99 /\ b \in 0 .. 99
    BY <2>3
  <2> HIDE DEF z, b, w
  <2>6. /\ w.month = d.month /\ w.day = d.day /\ w.year = z /\ w.century = b
        /\ w.hour = 0 /\ w.minute = 0 /\ w.second = 0
    BY <2>4 DEF Nothing, Registers
  <2>7. w = [r \in Registers |-> w[r]]
    BY <2>4 DEF Nothing
  <2>8. Showable(w)
    BY <2>1, <2>5, <2>6 DEF Showable
  <2>9. Moment(w)
    BY <2>7, <2>8, HeldMoment
  <2> QED BY <1>2, <2>9 DEF w
<1>5. DateWrittenInOrder'
  BY <1>2, <1>4 DEF DateWrittenInOrder, DateWritten, rtc_set_date
<1>6. ReadInOrder' /\ TimeWrittenInOrder' /\ AlarmKept'
  BY <1>2 DEF ClockInv, ReadInOrder, TimeWrittenInOrder, AlarmKept, Reading
<1> QED BY <1>3, <1>5, <1>6 DEF ClockInv

LEMMA WriteShown ==
    ASSUME ClockInv, Writes
    PROVE  LET r == Head(todo)
               m == Shown(register)
               n == Shown(register')
           IN  /\ n = [m EXCEPT ![r] = value[r]] /\ register' \in [Registers -> 0 .. 255]
               /\ Moment(m) /\ Moment(n) /\ torn \in BOOLEAN
               /\ op = "set_time" \/ op = "set_date"
               /\ op = "set_time" => TimeToSet(value) /\ TimeGoesOn(n, value, todo, torn)
               /\ op = "set_date" => Moment(value) /\ DateGoesOn(n, value, todo, torn)
<1> DEFINE r == Head(todo)
           m == Shown(register)
<1>1. /\ op \in {"set_time", "set_date"}
      /\ register' = [register EXCEPT ![r] = i_to_bcd(value[r])]
  BY DEF Writes
<1>2. register \in [Registers -> 0 .. 255] /\ Moment(m) /\ torn \in BOOLEAN
  BY DEF ClockInv, Registered
<1> DEFINE n == [m EXCEPT ![r] = value[r]]
<1>3. /\ op = "set_time" => TimeToSet(value) /\ TimeWritten(m, value, todo, torn)
      /\ op = "set_date" => Moment(value) /\ DateWritten(m, value, todo, torn)
  BY DEF ClockInv, TimeWrittenInOrder, DateWrittenInOrder
<1>4. /\ r \in Registers /\ value[r] \in 0 .. 99 /\ Moment(n)
      /\ op = "set_time" => TimeGoesOn(n, value, todo, torn)
      /\ op = "set_date" => DateGoesOn(n, value, todo, torn)
  <2>1. CASE op = "set_time"
    BY <1>2, <1>3, <2>1, WriteWhileTimeWritten
  <2>2. CASE op = "set_date"
    BY <1>2, <1>3, <2>2, WriteWhileDateWritten
  <2> QED BY <1>1, <2>1, <2>2
<1>5. register' \in [Registers -> 0 .. 255] /\ Shown(register') = n
  <2>1. PICK x \in 0 .. 99 : x = value[r]
    BY <1>4
  <2>2. register' = [register EXCEPT ![r] = i_to_bcd(x)] /\ n = [m EXCEPT ![r] = x]
    BY <1>1, <2>1
  <2>3. r \in Registers /\ register \in [Registers -> 0 .. 255]
    BY ONLY <1>2, <1>4, Zenon
  <2> HIDE DEF r
  <2>4. /\ [register EXCEPT ![r] = i_to_bcd(x)] \in [Registers -> 0 .. 255]
        /\ Shown([register EXCEPT ![r] = i_to_bcd(x)]) = [m EXCEPT ![r] = x]
    BY ONLY <2>3, x \in 0 .. 99, WriteShows, ZenonT(60)
  <2> QED BY <2>2, <2>4
<1> HIDE DEF n
<1>6. /\ Moment(Shown(register'))
      /\ op = "set_time" => TimeGoesOn(Shown(register'), value, todo, torn)
      /\ op = "set_date" => DateGoesOn(Shown(register'), value, todo, torn)
  BY <1>4, <1>5
<1>7. op = "set_time" \/ op = "set_date"
  BY <1>1
<1> QED BY <1>2, <1>3, <1>5, <1>6, <1>7 DEF n

LEMMA WriteKeeps ==
    ASSUME ClockInv, Writes
    PROVE  ClockInv'
<1> DEFINE m == Shown(register)
           n == Shown(register')
<1>1. /\ op \in {"set_time", "set_date"}
      /\ ticks' = ticks /\ alarm' = alarm /\ due' = due
  BY DEF Writes
<1>2. Len(todo) = 1 => op' = "none" /\ torn' = FALSE
  BY DEF Writes, Ends
<1>3. Len(todo) # 1 => todo' = Tail(todo) /\ op' = op /\ value' = value /\ torn' = torn
  BY DEF Writes
<1>4. /\ register' \in [Registers -> 0 .. 255] /\ Moment(n) /\ torn \in BOOLEAN
      /\ op = "set_time" => TimeToSet(value) /\ TimeGoesOn(n, value, todo, torn)
      /\ op = "set_date" => Moment(value) /\ DateGoesOn(n, value, todo, torn)
  BY WriteShown
<1>6. Moment(Shown(register))'
  BY <1>4
<1>7. Registered'
  <2>1. ticks' \in 0 .. MaxTicks
    BY <1>1 DEF ClockInv, Registered
  <2> QED BY <1>1, <1>2, <1>3, <1>4, <1>6, <2>1 DEF Registered
<1>8. op' \notin Reading /\ op \notin Reading
  BY <1>1, <1>2, <1>3 DEF Reading
<1>9. ReadInOrder' /\ AlarmKept'
  BY <1>1, <1>8 DEF ClockInv, ReadInOrder, AlarmKept, Reading
<1>10. TimeWrittenInOrder' /\ DateWrittenInOrder'
  <2>1. CASE Len(todo) = 1
    BY <1>2, <2>1 DEF TimeWrittenInOrder, DateWrittenInOrder
  <2>2. CASE Len(todo) # 1
    <3>1. op = "set_time" => TimeToSet(value) /\ TimeWritten(n, value, Tail(todo), torn)
      BY <1>4, <2>2 DEF TimeGoesOn
    <3>2. op = "set_date" => Moment(value) /\ DateWritten(n, value, Tail(todo), torn)
      BY <1>4, <2>2 DEF DateGoesOn
    <3>3. todo' = Tail(todo) /\ op' = op /\ value' = value /\ torn' = torn
      BY <1>3, <2>2
    <3> QED BY <3>1, <3>2, <3>3 DEF TimeWrittenInOrder, DateWrittenInOrder
  <2> QED BY <2>1, <2>2
<1> QED BY <1>7, <1>9, <1>10 DEF ClockInv

(* The alarm's steps.                                                      *)
LEMMA ReadingStarts ==
    ASSUME Registered, op = "none", op' \in Reading, UNCHANGED <<register, ticks, torn>>,
           todo' = rtc_get_time \o rtc_get_date, value' = Nothing, began' = register
    PROVE  Registered' /\ ReadInOrder' /\ TimeWrittenInOrder' /\ DateWrittenInOrder'
<1>1. Registered'
  BY DEF Registered, Reading
<1>2. ReadInOrder'
  <2>1. todo' = ToRead(0) /\ 0 \in 0 .. 7 /\ 0 <= 0
    BY ReadingOrder
  <2>2. \A r \in Registers : ~ (Place(r) <= 0)
    BY DEF Place
  <2>3. \A a, b, v : ReadSoFar(a, b, v, 0, 0)
    BY <2>2 DEF ReadSoFar
  <2>4. value' \in [Registers -> Int] /\ Moment(Shown(began))' /\ ~ torn'
    BY DEF Nothing, Registered
  <2> QED BY <2>1, <2>3, <2>4 DEF ReadInOrder
<1>3. TimeWrittenInOrder' /\ DateWrittenInOrder'
  BY DEF Reading, TimeWrittenInOrder, DateWrittenInOrder
<1> QED BY <1>1, <1>2, <1>3

LEMMA CreationStarts ==
    ASSUME ClockInv, create_alarm_starts
    PROVE  ClockInv'
<1>1. PICK typed \in AlarmTimes :
         /\ AlarmTimeAccepted(typed)
         /\ Starts("create_alarm_process", rtc_get_time \o rtc_get_date, Nothing)
         /\ alarm' = [None EXCEPT !.time = typed]
  BY DEF create_alarm_starts
<1>2. /\ op = "none" /\ op' = "create_alarm_process"
      /\ todo' = rtc_get_time \o rtc_get_date /\ value' = Nothing /\ began' = register
      /\ UNCHANGED <<register, ticks, torn>>
  BY <1>1 DEF Starts
<1>3. Registered' /\ ReadInOrder' /\ TimeWrittenInOrder' /\ DateWrittenInOrder'
  BY <1>2, ReadingStarts DEF ClockInv, Reading
<1>4. alarm'.time = typed /\ typed \in Seq(Int)
  BY <1>1, TypedAssumption DEF None
<1>5. alarm' = [time |-> alarm'.time, date |-> alarm'.date]
  BY <1>1 DEF None
<1>6. AlarmKept'
  BY <1>1, <1>2, <1>4, <1>5 DEF AlarmKept
<1> QED BY <1>3, <1>6 DEF ClockInv

LEMMA LookStarts ==
    ASSUME ClockInv, alarm_process_looks
    PROVE  ClockInv'
<1>1. /\ op = "none" /\ op' = "alarm_process" /\ alarm # None
      /\ todo' = rtc_get_time \o rtc_get_date /\ value' = Nothing /\ began' = register
      /\ UNCHANGED <<register, ticks, torn, alarm, due>>
  BY DEF alarm_process_looks, Starts
<1>2. Registered' /\ ReadInOrder' /\ TimeWrittenInOrder' /\ DateWrittenInOrder'
  BY <1>1, ReadingStarts DEF ClockInv, Reading
<1>3. AlarmKept'
  BY <1>1 DEF ClockInv, AlarmKept
<1> QED BY <1>2, <1>3 DEF ClockInv

LEMMA ReadKeeps ==
    ASSUME ClockInv, Reads
    PROVE  ClockInv'
<1> DEFINE f == Shown(began)
           l == Shown(register)
<1>1. /\ op \in Reading /\ todo # <<>> /\ todo' = Tail(todo)
      /\ value' = [value EXCEPT ![Head(todo)] =
                     IF Head(todo) = "century" /\ bcd_to_i(register[Head(todo)]) = 0
                     THEN 20 ELSE bcd_to_i(register[Head(todo)])]
      /\ UNCHANGED <<register, ticks, op, alarm, began, torn, due>>
  BY DEF Reads, Reading
<1>2. /\ Moment(f) /\ value \in [Registers -> Int] /\ Moment(l)
      /\ IF torn THEN l = NextSecond(f) ELSE register = began
  BY <1>1 DEF ClockInv, ReadInOrder, Registered
<1>3. PICK k \in 0 .. 7, c \in 0 .. 7 :
         c <= k /\ todo = ToRead(k) /\ ReadSoFar(f, l, value, k, c)
  BY <1>1 DEF ClockInv, ReadInOrder
<1>4. k \in 0 .. 6 /\ k + 1 \in 0 .. 7 /\ c <= k + 1
  <2>1. k # 7
    BY <1>1, <1>3, ReadingOrder
  <2> QED BY <1>3, <2>1
<1> DEFINE h == Head(ToRead(k))
<1>5. /\ h \in Registers /\ Place(h) = k + 1 /\ todo' = ToRead(k + 1)
      /\ \A r \in Registers : Place(r) \in 1 .. 7 /\ (Place(r) = k + 1 => r = h)
  BY <1>1, <1>3, <1>4, ReadingOrder
<1>6. value' = [value EXCEPT ![h] = ReadAs(l, h)]
  BY <1>1, <1>3, <1>5 DEF ReadAs, Shown
<1> HIDE DEF f, l, h
<1>7. ReadAs(l, h) \in Int
  BY <1>2, <1>5 DEF ReadAs, Moment
<1>8. value' \in [Registers -> Int] /\ value'[h] = ReadAs(l, h)
      /\ \A r \in Registers : r # h => value'[r] = value[r]
  BY <1>2, <1>5, <1>6, <1>7
<1>9. ReadSoFar(f, l, value', k + 1, c)
  <2> SUFFICES ASSUME NEW r \in Registers, Place(r) <= k + 1
               PROVE  value'[r] = ReadAs(IF Place(r) <= c THEN f ELSE l, r)
    BY DEF ReadSoFar
  <2>1. CASE r = h
    BY <1>3, <1>4, <1>5, <1>8, <2>1
  <2>2. CASE r # h
    <3>1. Place(r) <= k
      BY <1>5, <2>2
    <3> QED BY <1>3, <1>8, <2>2, <3>1 DEF ReadSoFar
  <2> QED BY <2>1, <2>2
<1>10. ReadInOrder'
  <2>1. f' = f /\ l' = l
    BY <1>1 DEF f, l, Shown
  <2> QED BY <1>1, <1>2, <1>4, <1>5, <1>8, <1>9, <2>1 DEF ReadInOrder, f, l
<1>11. Registered' /\ AlarmKept'
  BY <1>1 DEF ClockInv, Registered, AlarmKept
<1>12. TimeWrittenInOrder' /\ DateWrittenInOrder'
  BY <1>1 DEF Reading, TimeWrittenInOrder, DateWrittenInOrder
<1> QED BY <1>10, <1>11, <1>12 DEF ClockInv

(* What has been read when there is nothing left to read.                  *)
LEMMA AllRead ==
    ASSUME ClockInv, op \in Reading, todo = <<>>
    PROVE  /\ Moment(value)
           /\ \E c \in 0 .. 7 : \A r \in Registers :
                 value[r] = ReadAs(IF Place(r) <= c THEN Shown(began) ELSE Shown(register), r)
<1> DEFINE f == Shown(began)
           l == Shown(register)
<1>1. Moment(f) /\ value \in [Registers -> Int] /\ Moment(l)
  BY DEF ClockInv, ReadInOrder, Registered
<1>2. PICK k \in 0 .. 7, c \in 0 .. 7 : todo = ToRead(k) /\ ReadSoFar(f, l, value, k, c)
  BY DEF ClockInv, ReadInOrder
<1>3. k = 7
  BY <1>2, ReadingOrder
<1> HIDE DEF f, l
<1>4. \A r \in Registers : Place(r) <= 7
  BY DEF Place
<1>5. \A r \in Registers : value[r] = ReadAs(IF Place(r) <= c THEN f ELSE l, r)
  BY <1>2, <1>3, <1>4 DEF ReadSoFar
<1>6. \A r \in Registers : value[r] = ReadAs(f, r) \/ value[r] = ReadAs(l, r)
  BY <1>5
<1>7. Showable(f) /\ Showable(l)
  BY <1>1 DEF Moment
<1>8. Showable(value)
  <2>1. /\ \A r \in Registers : r # "century" => value[r] \in {f[r], l[r]}
        /\ value.century \in {f.century, l.century, 20}
    BY ONLY <1>6 DEF ReadAs, Registers
  <2>2. /\ value.second \in {f.second, l.second} /\ value.minute \in {f.minute, l.minute}
        /\ value.hour \in {f.hour, l.hour} /\ value.day \in {f.day, l.day}
        /\ value.month \in {f.month, l.month} /\ value.year \in {f.year, l.year}
    BY ONLY <2>1 DEF Registers
  <2>3. value.second \in 0 .. 59 /\ value.minute \in 0 .. 59 /\ value.hour \in 0 .. 23
    <3>1. /\ f.second \in 0 .. 59 /\ f.minute \in 0 .. 59 /\ f.hour \in 0 .. 23
          /\ l.second \in 0 .. 59 /\ l.minute \in 0 .. 59 /\ l.hour \in 0 .. 23
      BY ONLY <1>7, Zenon DEF Showable
    <3> HIDE DEF f, l
    <3> QED BY ONLY <2>2, <3>1
  <2>4. value.day \in 1 .. 31 /\ value.month \in 1 .. 12 /\ value.year \in 0 .. 99
    <3>1. /\ f.day \in 1 .. 31 /\ f.month \in 1 .. 12 /\ f.year \in 0 .. 99
          /\ l.day \in 1 .. 31 /\ l.month \in 1 .. 12 /\ l.year \in 0 .. 99
      BY ONLY <1>7, Zenon DEF Showable
    <3> HIDE DEF f, l
    <3> QED BY ONLY <2>2, <3>1
  <2>5. value.century \in 0 .. 99
    <3>1. f.century \in 0 .. 99 /\ l.century \in 0 .. 99 /\ 20 \in 0 .. 99
      BY <1>7 DEF Showable
    <3>2. value.century = f.century \/ value.century = l.century \/ value.century = 20
      BY <2>1
    <3> QED BY <3>1, <3>2
  <2> QED BY <2>3, <2>4, <2>5 DEF Showable
<1> QED BY <1>1, <1>5, <1>8 DEF Moment, f, l

LEMMA DaysInMonth ==
    ASSUME NEW d
    PROVE  days_in_month(d) \in {28, 29, 30, 31}
<1>1. CASE d.month \in {4, 6, 9, 11}
  BY <1>1 DEF days_in_month
<1>2. CASE d.month = 2
  BY <1>2 DEF days_in_month
<1>3. CASE d.month \notin {2, 4, 6, 9, 11}
  BY <1>3 DEF days_in_month
<1> QED BY <1>1, <1>2, <1>3

LEMMA AlarmDated ==
    ASSUME NEW v, Moment(v), NEW time
    PROVE  Dated(AlarmDate(time, v))
<1>1. /\ v.day \in 1 .. 31 /\ v.month \in 1 .. 12 /\ v.year \in 0 .. 99 /\ v.century \in 0 .. 99
  BY DEF Moment, Showable
<1>2. Dated(v)
  BY <1>1 DEF Dated
<1> DEFINE e == NextDate(v)
           n == days_in_month(v)
<1>3. n \in {28, 29, 30, 31}
  BY DaysInMonth
<1>4. e = IF v.day + 1 <= n THEN OnDay(v.month, v.day + 1, v.century, v.year)
          ELSE IF v.month < 12 THEN OnDay(v.month + 1, 1, v.century, v.year)
          ELSE IF v.year < 99 THEN OnDay(1, 1, v.century, v.year + 1)
          ELSE OnDay(1, 1, v.century + 1, 0)
  BY DEF NextDate
<1> HIDE DEF e, n
<1>5. Dated(e)
  <2>1. CASE v.day + 1 <= n
    BY <1>1, <1>3, <1>4, <2>1 DEF Dated, OnDay
  <2>2. CASE ~ (v.day + 1 <= n) /\ v.month < 12
    BY <1>1, <1>4, <2>2 DEF Dated, OnDay
  <2>3. CASE ~ (v.day + 1 <= n) /\ ~ (v.month < 12) /\ v.year < 99
    BY <1>1, <1>4, <2>3 DEF Dated, OnDay
  <2>4. CASE ~ (v.day + 1 <= n) /\ ~ (v.month < 12) /\ ~ (v.year < 99)
    BY <1>1, <1>4, <2>4 DEF Dated, OnDay
  <2> QED BY <2>1, <2>2, <2>3, <2>4
<1> QED BY <1>2, <1>5 DEF AlarmDate, e

LEMMA CreationEnds ==
    ASSUME ClockInv, create_alarm_process
    PROVE  /\ ClockInv' /\ Moment(value)
           /\ LET time == Numbers(alarm.time)
                  date == AlarmDate(time, value)
              IN  /\ due'.hour = time.hour /\ due'.minute = time.minute
                  /\ due'.second = time.second
                  /\ due'.month = date.month /\ due'.day = date.day
                  /\ due'.year = date.year /\ due'.century = date.century
                  /\ TimeAccepted(time)
<1> DEFINE time == Numbers(alarm.time)
           date == AlarmDate(time, value)
<1>1. /\ op = "create_alarm_process" /\ todo = <<>>
      /\ alarm' = [alarm EXCEPT !.date = DateString(date)]
      /\ due' = [r \in Registers |-> IF r \in DOMAIN time THEN time[r] ELSE date[r]]
      /\ op' = "none" /\ torn' = FALSE /\ UNCHANGED <<register, ticks>>
  BY DEF create_alarm_process, Ends
<1>2. Registered'
  BY <1>1 DEF ClockInv, Registered
<1>3. ReadInOrder' /\ TimeWrittenInOrder' /\ DateWrittenInOrder'
  BY <1>1 DEF Reading, ReadInOrder, TimeWrittenInOrder, DateWrittenInOrder
<1>4. /\ AlarmTimeAccepted(alarm.time) /\ alarm.time \in Seq(Int)
      /\ alarm = [time |-> alarm.time, date |-> alarm.date]
  BY <1>1 DEF ClockInv, AlarmKept, Reading
<1>5. Moment(value)
  BY <1>1, AllRead DEF Reading
<1>6. Dated(date)
  BY <1>5, AlarmDated
<1>7. DOMAIN time = {"hour", "minute", "second"}
  BY DEF Numbers
<1>8. alarm' = [time |-> alarm.time, date |-> DateString(date)]
  BY <1>1, <1>4
<1>9. TimeAccepted(time)
  BY <1>4 DEF AlarmTimeAccepted
<1> HIDE DEF time, date
<1>10. /\ due'.hour = time.hour /\ due'.minute = time.minute /\ due'.second = time.second
       /\ due'.month = date.month /\ due'.day = date.day
       /\ due'.year = date.year /\ due'.century = date.century
  BY <1>1, <1>7 DEF Registers
<1>11. DateString(due') = DateString(date)
  BY <1>10 DEF DateString, FullYear
<1>12. Dated(due')
  BY <1>6, <1>10 DEF Dated
<1>13. AlarmKept'
  BY <1>1, <1>4, <1>8, <1>10, <1>11, <1>12 DEF AlarmKept, time
<1> QED BY <1>2, <1>3, <1>5, <1>9, <1>10, <1>13 DEF ClockInv, time, date

LEMMA LookEnds ==
    ASSUME ClockInv, alarm_process
    PROVE  ClockInv'
<1>1. /\ op = "alarm_process" /\ op' = "none" /\ torn' = FALSE
      /\ UNCHANGED <<register, ticks>>
      /\ alarm' = None \/ (alarm' = alarm /\ due' = due)
  BY DEF alarm_process, Ends
<1>2. Registered'
  BY <1>1 DEF ClockInv, Registered
<1>3. ReadInOrder' /\ TimeWrittenInOrder' /\ DateWrittenInOrder'
  BY <1>1 DEF Reading, ReadInOrder, TimeWrittenInOrder, DateWrittenInOrder
<1>4. AlarmKept'
  <2>1. CASE alarm' = None
    <3>1. op' \notin Reading
      BY <1>1 DEF Reading
    <3>2. None = [time |-> None.time, date |-> None.date]
      BY DEF None
    <3> QED BY <2>1, <3>1, <3>2 DEF AlarmKept
  <2>2. CASE alarm' = alarm /\ due' = due
    BY <1>1, <2>2 DEF ClockInv, AlarmKept, Reading
  <2> QED BY <1>1, <2>1, <2>2
<1> QED BY <1>2, <1>3, <1>4 DEF ClockInv

LEMMA ClockSteps ==
    ASSUME ClockInv, [Next]_vars
    PROVE  ClockInv'
<1>1. CASE Tick BY <1>1, TickKeeps
<1>2. CASE set_time BY <1>2, SetTimeStarts
<1>3. CASE set_date BY <1>3, SetDateStarts
<1>4. CASE Writes BY <1>4, WriteKeeps
<1>5. CASE Reads BY <1>5, ReadKeeps
<1>6. CASE create_alarm_starts BY <1>6, CreationStarts
<1>7. CASE create_alarm_process BY <1>7, CreationEnds
<1>8. CASE alarm_process_looks BY <1>8, LookStarts
<1>9. CASE alarm_process BY <1>9, LookEnds
<1>10. CASE UNCHANGED vars
  <2> USE <1>10 DEF vars
  <2>1. Registered' /\ AlarmKept'
    BY DEF ClockInv, Registered, AlarmKept
  <2>2. ReadInOrder'
    BY DEF ClockInv, ReadInOrder, Shown
  <2>3. TimeWrittenInOrder' /\ DateWrittenInOrder'
    BY DEF ClockInv, TimeWrittenInOrder, DateWrittenInOrder
  <2> QED BY <2>1, <2>2, <2>3 DEF ClockInv
<1> QED BY <1>1, <1>2, <1>3, <1>4, <1>5, <1>6, <1>7, <1>8, <1>9, <1>10 DEF Next

LEMMA ClockInvariant == Spec => []ClockInv
<1>1. Init => ClockInv
  BY ClockStarts
<1>2. ClockInv /\ [Next]_vars => ClockInv'
  BY ClockSteps
<1> QED BY <1>1, <1>2, PTL DEF Spec

(* Every register of the clock always holds a BCD byte of its range, be it *)
(* counted up by the clock or written by set_time and set_date.            *)
THEOREM ClockTypeCorrect == Spec => []TypeOK
<1>1. ClockInv => TypeOK
  <2> SUFFICES ASSUME ClockInv PROVE TypeOK
    OBVIOUS
  <2>1. /\ register \in [Registers -> 0 .. 255] /\ Showable(Shown(register))
        /\ ticks \in 0 .. MaxTicks
        /\ op \in {"none", "set_time", "set_date", "create_alarm_process", "alarm_process"}
    BY DEF ClockInv, Registered, Moment, Reading
  <2> QED BY <2>1 DEF TypeOK
<1> QED BY <1>1, ClockInvariant, PTL
-----------------------------------------------------------------------------
(***************************************************************************)
(* What is read while the clock ticks.                                     *)
(***************************************************************************)
OnDate(m, v) == v.day = m.day /\ SameMonth(m, v)

TornDate(f, l, v) ==
    \/ OnDate(f, v) \/ OnDate(l, v)
    \/ f.month # l.month /\ DayNumber(v) >= DayNumber(f) + 28

LEMMA LaterNumber ==
    ASSUME NEW m \in 1 .. 12, NEW i \in 1 .. 12, NEW k \in 1 .. 31, NEW y \in Nat, NEW x \in Nat,
           \/ i = m + 1 /\ x = y
           \/ m = 12 /\ k = 31 /\ i = 1 /\ x = y + 1
           \/ m = 12 /\ k = 31 /\ i = 12 /\ x \in {y + 1, y + 100}
    PROVE  Days(i, k, x) >= Days(m, k, y) + 28
<1> DEFINE l == LeapDays(y)
           b == DaysBefore(m, y)
           n == MonthLength(m, y)
<1>1. l \in Int /\ b \in Int /\ n \in 28 .. 31
  BY CountsTyped
<1>2. Days(m, k, y) = 365 * y + l + b + k
  BY DEF Days
<1>3. CASE i = m + 1 /\ x = y
  <2>1. m \in 1 .. 11
    BY <1>3
  <2>2. DaysBefore(m + 1, y) = b + n
    BY <2>1, MonthStep
  <2>3. Days(i, k, x) = 365 * y + l + (b + n) + k
    BY <1>3, <2>2 DEF Days
  <2> HIDE DEF l, b, n
  <2> QED BY <1>1, <1>2, <2>3
<1>4. CASE m = 12 /\ k = 31 /\ i = 1 /\ x = y + 1
  <2> DEFINE z == Days(12, 31, y)
  <2>1. Days(1, 1, y + 1) = z + 1
    BY OverAYear
  <2>2. Days(1, 31, y + 1) = Days(1, 1, y + 1) + 30
    <3> DEFINE l1 == LeapDays(y + 1)
               b1 == DaysBefore(1, y + 1)
    <3>1. l1 \in Int /\ b1 \in Int
      BY CountsTyped
    <3>2. /\ Days(1, 1, y + 1) = 365 * (y + 1) + l1 + b1 + 1
          /\ Days(1, 31, y + 1) = 365 * (y + 1) + l1 + b1 + 31
      BY DEF Days
    <3> HIDE DEF l1, b1
    <3> QED BY <3>1, <3>2
  <2>3. z \in Int
    <3>1. z = 365 * y + l + b + 31
      BY <1>2, <1>4
    <3> HIDE DEF l, b, z
    <3> QED BY <1>1, <3>1
  <2>4. Days(i, k, x) = z + 31 /\ Days(m, k, y) = z
    <3> HIDE DEF z
    <3>1. Days(1, 31, y + 1) = z + 31
      BY <2>1, <2>2, <2>3
    <3> QED BY <1>4, <3>1 DEF z
  <2> HIDE DEF z
  <2> QED BY <2>3, <2>4
<1>5. ASSUME m = 12, k = 31, i = 12, x \in {y + 1, y + 100}
      PROVE  Days(i, k, x) >= Days(m, k, y) + 28
  <2> DEFINE lx == LeapDays(x)
             bx == DaysBefore(12, x)
  <2>1. lx \in Int /\ bx \in {334, 335} /\ b \in {334, 335}
    <3>1. DaysBefore(12, x) \in {334, 335} /\ DaysBefore(12, y) \in {334, 335}
      BY DEF DaysBefore
    <3> QED BY <1>5, <3>1, CountsTyped
  <2>2. lx >= l
    <3> DEFINE p == y + 399
               q == x + 399
    <3>1. q \in {p + 1, p + 100} /\ p \in Nat
      BY <1>5
    <3>2. lx = q \div 4 - q \div 100 + q \div 400 /\ l = p \div 4 - p \div 100 + p \div 400
      BY DEF LeapDays
    <3> HIDE DEF p, q, l, lx
    <3>3. CASE q = p + 100
      <4>1. /\ (p + 100) \div 4 = p \div 4 + 25
            /\ (p + 100) \div 100 = p \div 100 + 1
            /\ (p + 100) \div 400 >= p \div 400
        BY <3>1
      <4>2. p \div 4 \in Int /\ p \div 100 \in Int /\ p \div 400 \in Int
        BY <3>1
      <4>3. (p + 100) \div 400 \in Int
        BY <3>1
      <4> QED BY <3>2, <3>3, <4>1, <4>2, <4>3
    <3>4. CASE q = p + 1
      <4>1. x = y + 1
        BY <3>4 DEF p, q
      <4>2. LeapDays(y + 1) = LeapDays(y) + (IF Leap(y) THEN 1 ELSE 0) /\ LeapDays(y) \in Int
        BY LeapYears
      <4> QED BY <4>1, <4>2 DEF l, lx
    <3> QED BY <3>1, <3>3, <3>4
  <2>3. Days(i, k, x) = 365 * x + lx + bx + 31
    BY <1>5 DEF Days
  <2>4. x >= y + 1
    BY <1>5
  <2> HIDE DEF lx, bx, l, b
  <2> QED BY <1>1, <1>2, <1>5, <2>1, <2>2, <2>3, <2>4
<1> QED BY <1>3, <1>4, <1>5

(* Each register is read before the tick or after it, the later ones after *)
(* it once one is.                                                         *)
Mixed(f, l, v, c) ==
    /\ v.hour = (IF 1 <= c THEN f ELSE l).hour /\ v.minute = (IF 2 <= c THEN f ELSE l).minute
    /\ v.second = (IF 3 <= c THEN f ELSE l).second
    /\ v.day = (IF 4 <= c THEN f ELSE l).day /\ v.month = (IF 5 <= c THEN f ELSE l).month
    /\ v.year = (IF 6 <= c THEN f ELSE l).year /\ v.century = (IF 7 <= c THEN f ELSE l).century

LEMMA TimeTorn ==
    ASSUME NEW f, NEW l, NEW v, NEW c \in 0 .. 7, Moment(f), Moment(l), Moment(v),
           Carries(f, l), Mixed(f, l, v, c), v # l
    PROVE  Seconds(v) \in Seconds(f) - 3600 .. Seconds(f)
<1>1. PICK h \in 0 .. 23, i \in 0 .. 59, s \in 0 .. 59 :
         h = f.hour /\ i = f.minute /\ s = f.second
  <2>1. f.hour \in 0 .. 23 /\ f.minute \in 0 .. 59 /\ f.second \in 0 .. 59
    BY ONLY Moment(f), Zenon DEF Moment, Showable
  <2> QED BY ONLY <2>1, Zenon
<1>2. Seconds(f) = 3600 * h + 60 * i + s
  BY <1>1 DEF Seconds
<1>3. c # 0 /\ (c < 3 => l.minute # f.minute \/ l.hour # f.hour)
  <2>1. v \in [Registers -> Int] /\ l \in [Registers -> Int]
    BY DEF Moment
  <2>2. SUFFICES ASSUME c = 0 \/ (c < 3 /\ l.minute = f.minute /\ l.hour = f.hour)
                 PROVE  FALSE
    OBVIOUS
  <2>3. /\ v.hour = l.hour /\ v.minute = l.minute /\ v.second = l.second
        /\ v.day = l.day /\ v.month = l.month /\ v.year = l.year /\ v.century = l.century
    BY <2>2 DEF Mixed
  <2>4. \A r \in Registers : v[r] = l[r]
    BY <2>3 DEF Registers
  <2> QED BY <2>1, <2>4
<1>4. CASE c >= 3
  <2>1. v.hour = h /\ v.minute = i /\ v.second = s
    BY <1>1, <1>4 DEF Mixed
  <2>2. Seconds(v) = 3600 * h + 60 * i + s
    BY <2>1 DEF Seconds
  <2> QED BY <1>2, <2>2
<1>5. CASE c \in {1, 2}
  <2>1. s = 59 /\ l.second = 0
    BY <1>1, <1>3, <1>5 DEF Carries
  <2>2. v.second = 0 /\ v.hour = h
    BY <1>1, <1>5, <2>1 DEF Mixed
  <2>3. CASE c = 2
    <3>1. v.minute = i
      BY <1>1, <2>3 DEF Mixed
    <3>2. Seconds(v) = 3600 * h + 60 * i + 0
      BY <2>2, <3>1 DEF Seconds
    <3> QED BY <1>2, <2>1, <3>2
  <2>4. CASE c = 1 /\ i = 59
    <3>1. v.minute = 0
      <4>1. l.minute = 0
        BY <1>1, <2>1, <2>4 DEF Carries
      <4> QED BY <2>4, <4>1 DEF Mixed
    <3>2. Seconds(v) = 3600 * h + 60 * 0 + 0
      BY <2>2, <3>1 DEF Seconds
    <3> QED BY <1>2, <2>1, <2>4, <3>2
  <2>5. CASE c = 1 /\ i # 59
    <3>1. l.hour = h /\ l.minute = i + 1
      BY <1>1, <2>1, <2>5 DEF Carries
    <3>2. /\ v.hour = l.hour /\ v.minute = l.minute /\ v.second = l.second
          /\ v.day = l.day /\ v.month = l.month /\ v.year = l.year /\ v.century = l.century
      BY <1>1, <2>5, <3>1 DEF Mixed
    <3>3. \A r \in Registers : v[r] = l[r]
      BY <3>2 DEF Registers
    <3>4. v = l
      BY <3>3 DEF Moment
    <3> QED BY <3>4
  <2> QED BY <1>5, <2>3, <2>4, <2>5
<1> QED BY <1>3, <1>4, <1>5

LEMMA DateTorn ==
    ASSUME NEW f, NEW l, NEW v, NEW c \in 0 .. 7, Moment(f), Moment(l), Moment(v),
           Carries(f, l), Mixed(f, l, v, c), l.century # 0
    PROVE  TornDate(f, l, v)
<1>1. PICK k \in 1 .. 31, m \in 1 .. 12, z \in 0 .. 99, b \in 0 .. 99 :
         k = f.day /\ m = f.month /\ z = f.year /\ b = f.century
  <2>1. f.day \in 1 .. 31 /\ f.month \in 1 .. 12 /\ f.year \in 0 .. 99 /\ f.century \in 0 .. 99
    BY ONLY Moment(f), Zenon DEF Moment, Showable
  <2> QED BY ONLY <2>1, Zenon
<1> DEFINE y == 100 * b + z
<1>2. y \in Nat /\ FullYear(f) = y
  BY <1>1 DEF FullYear
<1>3. DayNumber(f) = Days(m, k, y)
  BY <1>1, <1>2, NumberCounts, SMTT(60)
<1> HIDE DEF y
<1>4. CASE c <= 3
  BY <1>4 DEF Mixed, TornDate, OnDate, SameMonth
<1>5. CASE c = 7
  BY <1>5 DEF Mixed, TornDate, OnDate, SameMonth
<1>6. CASE c \in {4, 5, 6} /\ SameMonth(f, l)
  BY <1>6 DEF Mixed, TornDate, OnDate, SameMonth
<1>7. ASSUME c \in {4, 5, 6}, ~ SameMonth(f, l) PROVE TornDate(f, l, v)
  <2>1. DayCarries(f, l)
    BY <1>7 DEF Carries
  <2>2. CASE m < 12
    <3>1. l.month = m + 1 /\ l.year = z /\ l.century = b
      BY <1>1, <1>7, <2>1, <2>2 DEF DayCarries, SameMonth
    <3>2. CASE c # 4
      BY <1>1, <1>7, <3>1, <3>2 DEF Mixed, TornDate, OnDate, SameMonth
    <3>3. CASE c = 4
      <4> DEFINE i == m + 1
      <4>1. i \in 1 .. 12 /\ i = m + 1
        BY <2>2
      <4>2. v.day = k /\ v.month = i /\ v.year = z /\ v.century = b
        BY <1>1, <3>1, <3>3 DEF Mixed
      <4> HIDE DEF i
      <4>3. FullYear(v) = y
        BY <4>2 DEF FullYear, y
      <4>4. DayNumber(v) = Days(i, k, y)
        BY <1>2, <4>1, <4>2, <4>3, NumberCounts
      <4>5. Days(i, k, y) >= Days(m, k, y) + 28
        BY <1>2, <4>1, LaterNumber
      <4>6. f.month # l.month
        BY <1>1, <3>1
      <4> QED BY <1>3, <4>4, <4>5, <4>6 DEF TornDate
    <3> QED BY <3>2, <3>3
  <2>3. CASE m = 12
    <3>1. /\ k = 31 /\ l.month = 1
          /\ \/ z < 99 /\ l.year = z + 1 /\ l.century = b
             \/ z = 99 /\ l.year = 0 /\ l.century = b + 1
      BY <1>1, <1>7, <2>1, <2>3 DEF DayCarries, SameMonth
    <3>2. CASE c = 6 /\ z < 99
      <4>1. v.day = f.day /\ v.month = f.month /\ v.year = f.year /\ v.century = l.century
        BY <3>2 DEF Mixed
      <4>2. l.century = f.century
        BY <1>1, <3>1, <3>2
      <4> QED BY <4>1, <4>2 DEF TornDate, OnDate, SameMonth
    <3>3. CASE ~ (c = 6 /\ z < 99)
      <4> DEFINE i == IF c = 4 THEN 1 ELSE 12
                 x == FullYear(v)
      <4>1. v.day = 31 /\ v.month = i /\ i \in {1, 12} /\ (c = 4 => i = 1) /\ (c # 4 => i = 12)
        <5>1. v.day = f.day /\ v.month = IF 5 <= c THEN f.month ELSE l.month
          BY <1>7 DEF Mixed
        <5>2. f.day = 31 /\ f.month = 12 /\ l.month = 1
          BY <1>1, <2>3, <3>1
        <5>3. v.day = 31 /\ v.month = i
          BY <1>7, <5>1, <5>2
        <5> QED BY <5>3
      <4>2. x = 100 * v.century + v.year
        BY DEF FullYear
      <4>3. x = IF c = 6 THEN y + 100 ELSE y + 1
        <5>1. CASE c = 6
          <6>1. v.year = 99 /\ v.century = b + 1 /\ z = 99
            BY <1>1, <3>1, <3>3, <5>1 DEF Mixed
          <6> QED BY <4>2, <5>1, <6>1 DEF y
        <5>2. CASE c # 6 /\ z < 99
          <6>1. v.year = z + 1 /\ v.century = b
            BY <1>1, <1>7, <3>1, <5>2 DEF Mixed
          <6> QED BY <4>2, <5>2, <6>1 DEF y
        <5>3. CASE c # 6 /\ z = 99
          <6>1. v.year = 0 /\ v.century = b + 1
            BY <1>1, <1>7, <3>1, <5>3 DEF Mixed
          <6> QED BY <4>2, <5>3, <6>1 DEF y
        <5> QED BY <5>1, <5>2, <5>3
      <4> HIDE DEF i, x
      <4>4. x \in Nat
        BY <1>2, <4>3
      <4>5. DayNumber(v) = Days(i, 31, x)
        BY <4>1, <4>4, NumberCounts DEF x
      <4>6. Days(i, 31, x) >= Days(m, 31, y) + 28
        <5>1. \/ m = 12 /\ 31 = 31 /\ i = 1 /\ x = y + 1
              \/ m = 12 /\ 31 = 31 /\ i = 12 /\ x \in {y + 1, y + 100}
          BY <2>3, <4>1, <4>3
        <5>2. i \in 1 .. 12 /\ 31 \in 1 .. 31
          BY <4>1
        <5> QED BY <1>2, <4>4, <5>1, <5>2, LaterNumber
      <4>7. f.month # l.month
        BY <1>1, <2>3, <3>1
      <4> QED BY <1>3, <3>1, <4>5, <4>6, <4>7 DEF TornDate
    <3> QED BY <3>2, <3>3
  <2> QED BY <2>2, <2>3
<1> QED BY <1>4, <1>5, <1>6, <1>7

(* A reading is the clock's when it was begun or ended; or a carry tore    *)
(* it, and then the time is by less than an hour too early on one day, and *)
(* a date that is neither day is four weeks ahead, at least.               *)
THEOREM ReadsCorrect == Spec => []ReadsWithinACarry
<1>1. ClockInv => ReadsWithinACarry
  <2> DEFINE f == Shown(began)
             l == Shown(register)
             v == value
  <2> SUFFICES ASSUME ClockInv, op \in Reading, todo = <<>>, f.century # 0, l.century # 0
               PROVE  \/ v = l
                      \/ /\ torn
                         /\ Seconds(v) \in Seconds(f) - 3600 .. Seconds(f)
                         /\ TornDate(f, l, v)
    BY DEF ReadsWithinACarry, ReadingDone, Reading, TornDate, OnDate, SameMonth, WeeksAhead
  <2>1. /\ Moment(f) /\ Moment(l) /\ torn \in BOOLEAN
        /\ IF torn THEN l = NextSecond(f) ELSE register = began
    BY DEF ClockInv, ReadInOrder, Registered
  <2>2. Moment(v)
    BY AllRead
  <2>3. PICK c \in 0 .. 7 : \A r \in Registers : v[r] = ReadAs(IF Place(r) <= c THEN f ELSE l, r)
    BY AllRead
  <2> HIDE DEF f, l, v
  <2>4. \A r \in Registers : v[r] = IF Place(r) <= c THEN f[r] ELSE l[r]
    BY <2>3 DEF ReadAs
  <2>5. CASE ~ torn
    <3>1. f = l
      BY <2>1, <2>5 DEF f, l
    <3>2. \A r \in Registers : v[r] = l[r]
      BY <2>4, <3>1
    <3>3. v = l
      BY <2>1, <2>2, <3>2 DEF Moment
    <3> QED BY <3>3
  <2>6. CASE torn
    <3>1. Carries(f, l)
      BY <2>1, <2>6, NextSecondCarries
    <3>2. Mixed(f, l, v, c)
      BY <2>4 DEF Mixed, Place, Registers
    <3>3. TornDate(f, l, v)
      BY <2>1, <2>2, <3>1, <3>2, DateTorn
    <3>4. v # l => Seconds(v) \in Seconds(f) - 3600 .. Seconds(f)
      BY <2>1, <2>2, <3>1, <3>2, TimeTorn
    <3> QED BY <2>6, <3>3, <3>4
  <2> QED BY <2>1, <2>5, <2>6
<1> QED BY <1>1, ClockInvariant, PTL

-----------------------------------------------------------------------------
(***************************************************************************)
(* What is written while the clock ticks.                                  *)
(***************************************************************************)
LEMMA EndsByWriting ==
    ASSUME [Next]_vars, op \in {"set_time", "set_date"}, op' = "none"
    PROVE  Writes /\ Len(todo) = 1
<1>1. CASE Tick BY <1>1 DEF Tick
<1>2. CASE set_time BY <1>2 DEF set_time, Starts
<1>3. CASE set_date BY <1>3 DEF set_date, Starts
<1>4. CASE Writes BY <1>4 DEF Writes
<1>5. CASE Reads BY <1>5 DEF Reads
<1>6. CASE create_alarm_starts BY <1>6 DEF create_alarm_starts, Starts
<1>7. CASE create_alarm_process BY <1>7 DEF create_alarm_process
<1>8. CASE alarm_process_looks BY <1>8 DEF alarm_process_looks, Starts
<1>9. CASE alarm_process BY <1>9 DEF alarm_process
<1>10. CASE UNCHANGED vars BY <1>10 DEF vars
<1> QED BY <1>1, <1>2, <1>3, <1>4, <1>5, <1>6, <1>7, <1>8, <1>9, <1>10 DEF Next

LEMMA TimeSet ==
    ASSUME ClockInv, [Next]_vars, op = "set_time", op' = "none"
    PROVE  (Seconds(Shown(register')) - Seconds(value)) % Day
              \in {0} \cup IF torn THEN {60, 3600} ELSE {}
<1> DEFINE n == Shown(register')
<1>1. Writes /\ Len(todo) = 1
  BY EndsByWriting
<1>2. TimeGoesOn(n, value, todo, torn)
  BY <1>1, WriteShown
<1> HIDE DEF n
<1> QED BY <1>1, <1>2 DEF n, TimeGoesOn

LEMMA DateSet ==
    ASSUME ClockInv, [Next]_vars, op = "set_date", op' = "none"
    PROVE  LET n == Shown(register')
           IN  /\ n.day = value.day /\ value \in [Registers -> Int]
               /\ \/ MonthIs(n, value)
                  \/ torn /\ MonthIs(n, MonthAfter(value))
                  \/ torn /\ n.month = value.month /\ YearAfter(n, value)
<1> DEFINE n == Shown(register')
<1>1. Writes /\ Len(todo) = 1
  BY EndsByWriting
<1>2. Moment(value) /\ DateGoesOn(n, value, todo, torn)
  BY <1>1, WriteShown
<1> HIDE DEF n
<1> QED BY <1>1, <1>2 DEF n, Moment, DateGoesOn

(* What set_time and set_date leave on the clock is what was asked for, or *)
(* off by one carry that came between two writes.                          *)
THEOREM SetsCorrect == Spec => SetsWithinACarry
<1> DEFINE Left ==
      /\ op = "set_time" /\ op' = "none" =>
            (Seconds(Shown(register')) - Seconds(value)) % Day \in
                {0} \cup IF torn THEN {60, 3600} ELSE {}
      /\ op = "set_date" /\ op' = "none" =>
            LET m == Shown(register')
                Agrees(v) == \A r \in {"month", "year", "century"} : m[r] = v[r]
            IN  /\ m.day = value.day
                /\ \/ Agrees(value)
                   \/ torn /\ Agrees(NextDay([value EXCEPT !.day = 31]))
                   \/ torn /\ \E c \in {value.century, (value.century + 1) % 100} :
                          Agrees([value EXCEPT !.year = (@ + 1) % 100, !.century = c])
<1>1. ASSUME ClockInv, [Next]_vars PROVE Left
  <2>1. op = "set_time" /\ op' = "none" =>
            (Seconds(Shown(register')) - Seconds(value)) % Day \in
                {0} \cup IF torn THEN {60, 3600} ELSE {}
    BY <1>1, TimeSet
  <2>2. ASSUME op = "set_date", op' = "none"
        PROVE  LET m == Shown(register')
                   Agrees(v) == \A r \in {"month", "year", "century"} : m[r] = v[r]
               IN  /\ m.day = value.day
                   /\ \/ Agrees(value)
                      \/ torn /\ Agrees(NextDay([value EXCEPT !.day = 31]))
                      \/ torn /\ \E c \in {value.century, (value.century + 1) % 100} :
                             Agrees([value EXCEPT !.year = (@ + 1) % 100, !.century = c])
    <3> DEFINE m == Shown(register')
               Agrees(v) == \A r \in {"month", "year", "century"} : m[r] = v[r]
               y == (value.year + 1) % 100
               c == m.century
               w == [value EXCEPT !.year = y, !.century = c]
    <3>1. /\ m.day = value.day /\ value \in [Registers -> Int]
          /\ \/ MonthIs(m, value)
             \/ torn /\ MonthIs(m, MonthAfter(value))
             \/ torn /\ m.month = value.month /\ YearAfter(m, value)
      BY <1>1, <2>2, DateSet
    <3> HIDE DEF m
    <3>2. MonthIs(m, value) => Agrees(value)
      BY DEF MonthIs
    <3>3. MonthIs(m, MonthAfter(value)) => Agrees(NextDay([value EXCEPT !.day = 31]))
      BY DEF MonthIs, MonthAfter
    <3>4. ASSUME m.month = value.month, YearAfter(m, value)
          PROVE  \E b \in {value.century, (value.century + 1) % 100} :
                     Agrees([value EXCEPT !.year = (@ + 1) % 100, !.century = b])
      <4>1. m.year = y /\ c \in {value.century, (value.century + 1) % 100}
        BY <3>4 DEF YearAfter
      <4>2. w = [value EXCEPT !.year = (@ + 1) % 100, !.century = c]
        BY <3>1 DEF Registers
      <4> HIDE DEF y
      <4>3. w.month = value.month /\ w.year = y /\ w.century = c
        BY <3>1 DEF Registers
      <4> HIDE DEF w
      <4>4. Agrees(w)
        BY <3>4, <4>1, <4>3
      <4> QED BY <4>1, <4>2, <4>4
    <3> QED BY <3>1, <3>2, <3>3, <3>4 DEF m
  <2> QED BY <2>1, <2>2
<1>2. [][Left]_vars => SetsWithinACarry
  BY PTL DEF SetsWithinACarry
<1> HIDE DEF Left
<1>3. ClockInv /\ [Next]_vars => [Left]_vars
  BY <1>1
<1> QED BY <1>2, <1>3, ClockInvariant, PTL DEF Spec
-----------------------------------------------------------------------------
(***************************************************************************)
(* The alarm.                                                              *)
(***************************************************************************)
LEMMA EndsByAlarm ==
    ASSUME [Next]_vars, op \in Reading, op' = "none"
    PROVE  /\ op = "create_alarm_process" => create_alarm_process
           /\ op = "alarm_process" => alarm_process
<1> USE DEF Reading
<1>1. CASE Tick BY <1>1 DEF Tick
<1>2. CASE set_time BY <1>2 DEF set_time, Starts
<1>3. CASE set_date BY <1>3 DEF set_date, Starts
<1>4. CASE Writes BY <1>4 DEF Writes
<1>5. CASE Reads BY <1>5 DEF Reads
<1>6. CASE create_alarm_starts BY <1>6 DEF create_alarm_starts, Starts
<1>7. CASE create_alarm_process BY <1>7 DEF create_alarm_process
<1>8. CASE alarm_process_looks BY <1>8 DEF alarm_process_looks, Starts
<1>9. CASE alarm_process BY <1>9 DEF alarm_process
<1>10. CASE UNCHANGED vars BY <1>10 DEF vars
<1> QED BY <1>1, <1>2, <1>3, <1>4, <1>5, <1>6, <1>7, <1>8, <1>9, <1>10 DEF Next

LEMMA SecondsOfDay ==
    ASSUME NEW h \in 0 .. 23, NEW i \in 0 .. 59, NEW s \in 0 .. 59, NEW t,
           t.hour = h, t.minute = i, t.second = s
    PROVE  Seconds(t) \in Int /\ 0 <= Seconds(t) /\ Seconds(t) < Day
<1>1. Seconds(t) = 3600 * h + 60 * i + s
  BY DEF Seconds
<1>2. Day = 86400
  BY DEF Day
<1> QED BY ONLY <1>1, <1>2, h \in 0 .. 23, i \in 0 .. 59, s \in 0 .. 59

LEMMA SameDayNumber ==
    ASSUME NEW d, NEW e, d.month \in 1 .. 12, d.day \in Int, FullYear(d) \in Nat,
           e.month = d.month, e.day = d.day, e.year = d.year, e.century = d.century
    PROVE  DayNumber(e) = DayNumber(d) /\ DayNumber(d) \in Int /\ (RealDate(e) <=> RealDate(d))
<1>1. PICK m \in 1 .. 12, k \in Int, y \in Nat : m = d.month /\ k = d.day /\ y = FullYear(d)
  OBVIOUS
<1>2. FullYear(e) = y
  BY <1>1 DEF FullYear
<1>3. DayNumber(d) = Days(m, k, y) /\ DayNumber(e) = Days(m, k, y)
  BY <1>1, <1>2, NumberCounts
<1>4. Days(m, k, y) \in Int
  <2> DEFINE l == LeapDays(y)
             b == DaysBefore(m, y)
  <2>1. l \in Int /\ b \in Int
    BY CountsTyped
  <2>2. Days(m, k, y) = 365 * y + l + b + k
    BY DEF Days
  <2> HIDE DEF l, b
  <2> QED BY <2>1, <2>2
<1>5. RealDate(e) <=> RealDate(d)
  BY <1>1, <1>2 DEF RealDate
<1> QED BY <1>3, <1>4, <1>5

LEMMA AlarmFollows ==
    ASSUME NEW v, NEW time, Moment(v), RealDate(v), NEW date, date = AlarmDate(time, v)
    PROVE  /\ RealDate(date)
           /\ Seconds(time) <= Seconds(v) => DayNumber(date) = DayNumber(v) + 1
           /\ ~ (Seconds(time) <= Seconds(v)) => DayNumber(date) = DayNumber(v)
           /\ date.month \in 1 .. 12 /\ date.day \in Int /\ FullYear(date) \in Nat
<1>0. /\ v.day \in 1 .. 31 /\ v.month \in 1 .. 12
      /\ v.year \in 0 .. 99 /\ v.century \in 0 .. 99
  BY ONLY Moment(v), Zenon DEF Moment, Showable
<1>1. PICK k \in 1 .. 31, m \in 1 .. 12, z \in 0 .. 99, b \in 0 .. 99 :
         v.day = k /\ v.month = m /\ v.year = z /\ v.century = b
  BY ONLY <1>0, Zenon
<1>2. FullYear(v) \in Nat
  <2>1. FullYear(v) = 100 * b + z
    BY ONLY <1>1, Zenon DEF FullYear
  <2> QED BY ONLY <2>1, b \in 0 .. 99, z \in 0 .. 99
<1>3. CASE Seconds(time) <= Seconds(v)
  <2>1. date = NextDate(v)
    BY <1>3, Zenon DEF AlarmDate
  <2>2. RealDate(date) /\ DayNumber(date) = DayNumber(v) + 1 /\ date \in Later
    <3>1. m \in 1 .. 12 /\ k \in 1 .. 31 /\ b \in 0 .. 99 /\ z \in 0 .. 99
      OBVIOUS
    <3> QED BY ONLY <1>1, <2>1, <3>1, RealDate(v), DayAfter, ZenonT(60)
  <2>7. date.century \in 0 .. 100 /\ date.year \in 0 .. 99
    BY ONLY <2>2 DEF Later
  <2>3. PICK c \in 0 .. 100, u \in 0 .. 99 : date.century = c /\ date.year = u
    BY ONLY <2>7, Zenon
  <2>4. FullYear(date) = 100 * c + u
    BY ONLY <2>3, Zenon DEF FullYear
  <2>5. FullYear(date) \in Nat
    BY ONLY <2>4, c \in 0 .. 100, u \in 0 .. 99
  <2>6. date.month \in 1 .. 12 /\ date.day \in Int
    BY ONLY <2>2 DEF Later
  <2> QED BY ONLY <1>3, <2>2, <2>5, <2>6
<1>4. CASE ~ (Seconds(time) <= Seconds(v))
  <2>1. date = v
    BY <1>4, Zenon DEF AlarmDate
  <2>2. v.month \in 1 .. 12 /\ v.day \in Int
    BY ONLY <1>0
  <2> QED BY ONLY <1>2, <1>4, <2>1, <2>2, RealDate(v)
<1> QED BY ONLY <1>3, <1>4

LEMMA WithinADay ==
    ASSUME NEW v, NEW time, Moment(v), RealDate(v), TimeAccepted(time),
           NEW date, date = AlarmDate(time, v), NEW e,
           e.hour = time.hour, e.minute = time.minute, e.second = time.second,
           e.month = date.month, e.day = date.day, e.year = date.year, e.century = date.century
    PROVE  /\ RealDate(e)
           /\ Day * (DayNumber(e) - DayNumber(v)) + Seconds(e) - Seconds(v) \in 1 .. Day
<1>1. /\ RealDate(date)
      /\ Seconds(time) <= Seconds(v) => DayNumber(date) = DayNumber(v) + 1
      /\ ~ (Seconds(time) <= Seconds(v)) => DayNumber(date) = DayNumber(v)
      /\ date.month \in 1 .. 12 /\ date.day \in Int /\ FullYear(date) \in Nat
  BY AlarmFollows, Zenon
<1>2. RealDate(e) /\ DayNumber(e) = DayNumber(date)
  BY <1>1, SameDayNumber, Zenon
<1>3. Seconds(e) = Seconds(time)
  <2>1. e.hour = time.hour /\ e.minute = time.minute /\ e.second = time.second
    BY Zenon
  <2> QED BY ONLY <2>1 DEF Seconds
<1>4. PICK x \in Int : x = Seconds(time) /\ 0 <= x /\ x < Day
  <2>1. time.hour \in 0 .. 23 /\ time.minute \in 0 .. 59 /\ time.second \in 0 .. 59
    BY ONLY TimeAccepted(time), Zenon DEF TimeAccepted
  <2> QED BY ONLY <2>1, SecondsOfDay, Zenon
<1>5. PICK y \in Int : y = Seconds(v) /\ 0 <= y /\ y < Day
  <2>1. v.hour \in 0 .. 23 /\ v.minute \in 0 .. 59 /\ v.second \in 0 .. 59
    BY ONLY Moment(v), Zenon DEF Moment, Showable
  <2> QED BY ONLY <2>1, SecondsOfDay, Zenon
<1>6. PICK n \in Int : n = DayNumber(v)
  <2>1. v.month \in 1 .. 12 /\ v.day \in Int /\ FullYear(v) \in Nat
    <3>0. /\ v.day \in 1 .. 31 /\ v.month \in 1 .. 12
          /\ v.year \in 0 .. 99 /\ v.century \in 0 .. 99
      BY ONLY Moment(v), Zenon DEF Moment, Showable
    <3>1. PICK z \in 0 .. 99, b \in 0 .. 99 : v.year = z /\ v.century = b
      BY ONLY <3>0, Zenon
    <3>2. FullYear(v) = 100 * b + z
      BY ONLY <3>1, Zenon DEF FullYear
    <3>3. FullYear(v) \in Nat
      BY ONLY <3>2, b \in 0 .. 99, z \in 0 .. 99
    <3> QED BY ONLY <3>0, <3>3
  <2> QED BY ONLY <2>1, SameDayNumber, Zenon
<1>7. Day = 86400
  BY DEF Day
<1>10. Day \in Int
  BY ONLY <1>7
<1>8. CASE x <= y
  <2>1. DayNumber(e) = n + 1
    BY ONLY <1>1, <1>2, <1>4, <1>5, <1>6, <1>8
  <2>2. DayNumber(e) - n = 1
    BY ONLY <2>1, n \in Int
  <2>3. 1 <= Day * 1 + x - y /\ Day * 1 + x - y <= Day
    BY ONLY <1>4, <1>5, <1>7, <1>8, x \in Int, y \in Int
  <2>5. Day * 1 + x - y \in 1 .. Day
    BY ONLY <1>10, <2>3, x \in Int, y \in Int
  <2>4. Day * (DayNumber(e) - n) + x - y \in 1 .. Day
    BY ONLY <2>2, <2>5, Zenon
  <2> QED BY ONLY <1>2, <1>3, <1>4, <1>5, <1>6, <2>4, Zenon
<1>9. CASE ~ (x <= y)
  <2>1. DayNumber(e) = n
    BY ONLY <1>1, <1>2, <1>4, <1>5, <1>6, <1>9
  <2>2. DayNumber(e) - n = 0
    BY ONLY <2>1, n \in Int
  <2>3. 1 <= Day * 0 + x - y /\ Day * 0 + x - y <= Day
    BY ONLY <1>4, <1>5, <1>7, <1>9, x \in Int, y \in Int
  <2>5. Day * 0 + x - y \in 1 .. Day
    BY ONLY <1>10, <2>3, x \in Int, y \in Int
  <2>4. Day * (DayNumber(e) - n) + x - y \in 1 .. Day
    BY ONLY <2>2, <2>5, Zenon
  <2> QED BY ONLY <1>2, <1>3, <1>4, <1>5, <1>6, <2>4, Zenon
<1> QED BY ONLY <1>8, <1>9

(* An alarm created without a carry is due at the time typed, on a day of  *)
(* the calendar, within a day, at any end of a month, a year, a century.   *)
THEOREM DueCorrect == Spec => AlarmWithinADay
<1> DEFINE Due ==
      op = "create_alarm_process" /\ op' = "none" /\ ~ torn /\ RealDate(value) =>
          /\ RealDate(due')
          /\ Day * (DayNumber(due') - DayNumber(value)) + Seconds(due') - Seconds(value)
                \in 1 .. Day
<1>1. ASSUME ClockInv, [Next]_vars PROVE Due
  <2> SUFFICES ASSUME op = "create_alarm_process", op' = "none", RealDate(value)
               PROVE  /\ RealDate(due')
                      /\ Day * (DayNumber(due') - DayNumber(value)) + Seconds(due')
                            - Seconds(value) \in 1 .. Day
    OBVIOUS
  <2>1. create_alarm_process
    BY <1>1, EndsByAlarm DEF Reading
  <2> DEFINE time == Numbers(alarm.time)
             date == AlarmDate(time, value)
             e == due'
  <2>2. /\ Moment(value) /\ TimeAccepted(time)
        /\ e.hour = time.hour /\ e.minute = time.minute /\ e.second = time.second
        /\ e.month = date.month /\ e.day = date.day
        /\ e.year = date.year /\ e.century = date.century
    BY <1>1, <2>1, CreationEnds
  <2>3. date = AlarmDate(time, value) /\ RealDate(value)
    OBVIOUS
  <2> HIDE DEF time, date, e
  <2>4. /\ RealDate(e)
        /\ Day * (DayNumber(e) - DayNumber(value)) + Seconds(e) - Seconds(value) \in 1 .. Day
    BY ONLY <2>2, <2>3, WithinADay
  <2> QED BY <2>4 DEF e
<1>2. [][Due]_vars => AlarmWithinADay
  BY PTL DEF AlarmWithinADay
<1> HIDE DEF Due
<1>3. ClockInv /\ [Next]_vars => [Due]_vars
  BY <1>1
<1> QED BY <1>2, <1>3, ClockInvariant, PTL DEF Spec
-----------------------------------------------------------------------------
(***************************************************************************)
(* The comparison of strings.                                              *)
(***************************************************************************)
FirstDifference(s, t, k) == s[k] # t[k] /\ \A j \in 1 .. k - 1 : s[j] = t[j]

(* Strings that have no first difference among eight characters, or among  *)
(* ten, have none.                                                         *)
LEMMA SomeDifference ==
    ASSUME NEW s, NEW t, NEW n \in {8, 10},
           \A k \in 1 .. n : ~ FirstDifference(s, t, k)
    PROVE  \A k \in 1 .. n : s[k] = t[k]
<1>1. \A k \in 1 .. n : (\A j \in 1 .. k - 1 : s[j] = t[j]) => s[k] = t[k]
  BY DEF FirstDifference
<1>2. s[1] = t[1]
  BY <1>1
<1>3. s[2] = t[2]
  BY <1>1, <1>2
<1>4. s[3] = t[3] /\ s[4] = t[4]
  <2>1. s[3] = t[3]
    BY <1>1, <1>2, <1>3
  <2> QED BY <1>1, <1>2, <1>3, <2>1
<1>5. s[5] = t[5] /\ s[6] = t[6]
  <2>1. s[5] = t[5]
    BY <1>1, <1>2, <1>3, <1>4
  <2> QED BY <1>1, <1>2, <1>3, <1>4, <2>1
<1>6. s[7] = t[7] /\ s[8] = t[8]
  <2>1. s[7] = t[7]
    BY <1>1, <1>2, <1>3, <1>4, <1>5
  <2> QED BY <1>1, <1>2, <1>3, <1>4, <1>5, <2>1
<1>7. n = 10 => s[9] = t[9] /\ s[10] = t[10]
  <2> SUFFICES ASSUME n = 10 PROVE s[9] = t[9] /\ s[10] = t[10]
    OBVIOUS
  <2>1. s[9] = t[9]
    BY <1>1, <1>2, <1>3, <1>4, <1>5, <1>6
  <2> QED BY <1>1, <1>2, <1>3, <1>4, <1>5, <1>6, <2>1
<1> QED BY <1>2, <1>3, <1>4, <1>5, <1>6, <1>7

(* The sign of strcmp is that of the first difference.                     *)
LEMMA ComparedAt ==
    ASSUME NEW s, NEW t, NEW n \in Nat, DOMAIN s = 1 .. n,
           NEW k \in 1 .. n, FirstDifference(s, t, k)
    PROVE  strcmp(s, t) = IF s[k] > t[k] THEN 1 ELSE -1
<1> DEFINE Differ == {i \in DOMAIN s : s[i] # t[i]}
           first == CHOOSE i \in Differ : \A j \in Differ : i <= j
<1>1. k \in Differ /\ \A j \in Differ : k <= j
  BY DEF FirstDifference
<1>2. first \in Differ /\ \A j \in Differ : first <= j
  <2>1. \E i \in Differ : \A j \in Differ : i <= j
    BY <1>1
  <2> HIDE DEF Differ
  <2> QED BY <2>1
<1>3. first = k
  <2>1. first <= k /\ k <= first /\ first \in 1 .. n
    BY <1>1, <1>2
  <2> HIDE DEF first
  <2> QED BY <2>1
<1>4. strcmp(s, t) = IF s[first] > t[first] THEN 1 ELSE -1
  <2>1. Differ # {}
    BY <1>1
  <2> QED BY <2>1 DEF strcmp
<1> HIDE DEF first
<1> QED BY <1>3, <1>4

LEMMA ComparedEqual ==
    ASSUME NEW s, NEW t, NEW n \in Nat, DOMAIN s = 1 .. n, \A k \in 1 .. n : s[k] = t[k]
    PROVE  strcmp(s, t) = 0
<1>1. {k \in DOMAIN s : s[k] # t[k]} = {}
  OBVIOUS
<1> QED BY <1>1 DEF strcmp

(* Either the strings are equal, or they differ first at some character.   *)
LEMMA Compared ==
    ASSUME NEW s, NEW t, NEW n \in {8, 10}, DOMAIN s = 1 .. n
    PROVE  \/ strcmp(s, t) = 0 /\ \A k \in 1 .. n : s[k] = t[k]
           \/ \E k \in 1 .. n : /\ FirstDifference(s, t, k)
                                /\ strcmp(s, t) = IF s[k] > t[k] THEN 1 ELSE -1
<1>0. n \in Nat
  OBVIOUS
<1>1. CASE \A k \in 1 .. n : ~ FirstDifference(s, t, k)
  <2>1. \A k \in 1 .. n : s[k] = t[k]
    BY ONLY <1>1, n \in {8, 10}, SomeDifference
  <2>2. strcmp(s, t) = 0
    BY ONLY <1>0, <2>1, DOMAIN s = 1 .. n, ComparedEqual
  <2> QED BY <2>1, <2>2
<1>2. ASSUME NEW k \in 1 .. n, FirstDifference(s, t, k)
      PROVE  strcmp(s, t) = IF s[k] > t[k] THEN 1 ELSE -1
  BY ONLY <1>0, <1>2, DOMAIN s = 1 .. n, ComparedAt
<1> QED BY <1>1, <1>2

(* Two digits count as the numbers they are of; a later pair decides only  *)
(* where the earlier ones are equal.                                       *)
Digit(d) == d \in 0 .. 9

LEMMA TimesCompared ==
    ASSUME NEW s, NEW t, DOMAIN s = 1 .. 8,
           \A k \in {1, 2, 4, 5, 7, 8} : Digit(s[k]) /\ Digit(t[k]),
           s[3] = t[3], s[6] = t[6],
           TimeAccepted(Numbers(s)), TimeAccepted(Numbers(t))
    PROVE  strcmp(s, t) >= 0 <=> Seconds(Numbers(s)) >= Seconds(Numbers(t))
<1>1. PICK a \in 0 .. 9, b \in 0 .. 9, c \in 0 .. 9, d \in 0 .. 9, e \in 0 .. 9, f \in 0 .. 9 :
        a = s[1] /\ b = s[2] /\ c = s[4] /\ d = s[5] /\ e = s[7] /\ f = s[8]
  <2>1. /\ s[1] \in 0 .. 9 /\ s[2] \in 0 .. 9 /\ s[4] \in 0 .. 9
        /\ s[5] \in 0 .. 9 /\ s[7] \in 0 .. 9 /\ s[8] \in 0 .. 9
    BY DEF Digit
  <2> QED BY ONLY <2>1, Zenon
<1>2. PICK g \in 0 .. 9, h \in 0 .. 9, i \in 0 .. 9, j \in 0 .. 9, l \in 0 .. 9, m \in 0 .. 9 :
        g = t[1] /\ h = t[2] /\ i = t[4] /\ j = t[5] /\ l = t[7] /\ m = t[8]
  <2>1. /\ t[1] \in 0 .. 9 /\ t[2] \in 0 .. 9 /\ t[4] \in 0 .. 9
        /\ t[5] \in 0 .. 9 /\ t[7] \in 0 .. 9 /\ t[8] \in 0 .. 9
    BY DEF Digit
  <2> QED BY ONLY <2>1, Zenon
<1>3. /\ Seconds(Numbers(s)) = 3600 * (10 * a + b) + 60 * (10 * c + d) + (10 * e + f)
      /\ 10 * c + d <= 59 /\ 10 * e + f <= 59
  <2>1. /\ Numbers(s).hour = 10 * a + b /\ Numbers(s).minute = 10 * c + d
        /\ Numbers(s).second = 10 * e + f
    BY <1>1 DEF Numbers
  <2>2. Numbers(s).minute \in 0 .. 59 /\ Numbers(s).second \in 0 .. 59
    BY DEF TimeAccepted
  <2>3. Seconds(Numbers(s)) = 3600 * (10 * a + b) + 60 * (10 * c + d) + (10 * e + f)
    BY <2>1 DEF Seconds
  <2> QED BY ONLY <2>1, <2>2, <2>3
<1>4. /\ Seconds(Numbers(t)) = 3600 * (10 * g + h) + 60 * (10 * i + j) + (10 * l + m)
      /\ 10 * i + j <= 59 /\ 10 * l + m <= 59
  <2>1. /\ Numbers(t).hour = 10 * g + h /\ Numbers(t).minute = 10 * i + j
        /\ Numbers(t).second = 10 * l + m
    BY <1>2 DEF Numbers
  <2>2. Numbers(t).minute \in 0 .. 59 /\ Numbers(t).second \in 0 .. 59
    BY DEF TimeAccepted
  <2>3. Seconds(Numbers(t)) = 3600 * (10 * g + h) + 60 * (10 * i + j) + (10 * l + m)
    BY <2>1 DEF Seconds
  <2> QED BY ONLY <2>1, <2>2, <2>3
<1>5. CASE strcmp(s, t) = 0 /\ \A k \in 1 .. 8 : s[k] = t[k]
  <2>1. a = g /\ b = h /\ c = i /\ d = j /\ e = l /\ f = m
    BY <1>1, <1>2, <1>5
  <2> QED BY <1>3, <1>4, <1>5, <2>1
<1>6. ASSUME NEW k \in 1 .. 8, FirstDifference(s, t, k),
             strcmp(s, t) = IF s[k] > t[k] THEN 1 ELSE -1
      PROVE  strcmp(s, t) >= 0 <=> Seconds(Numbers(s)) >= Seconds(Numbers(t))
  <2>0. s[k] # t[k] /\ \A n \in 1 .. k - 1 : s[n] = t[n]
    BY <1>6 DEF FirstDifference
  <2>1. k \notin {3, 6}
    BY <2>0
  <2>2. CASE k = 1
    <3>1. a # g /\ (strcmp(s, t) >= 0 <=> a > g)
      BY <1>1, <1>2, <1>6, <2>0, <2>2
    <3> QED BY ONLY <1>3, <1>4, <3>1
  <2>3. CASE k = 2
    <3>1. a = g /\ b # h /\ (strcmp(s, t) >= 0 <=> b > h)
      BY <1>1, <1>2, <1>6, <2>0, <2>3
    <3> QED BY ONLY <1>3, <1>4, <3>1
  <2>4. CASE k = 4
    <3>1. a = g /\ b = h /\ c # i /\ (strcmp(s, t) >= 0 <=> c > i)
      BY <1>1, <1>2, <1>6, <2>0, <2>4
    <3> QED BY ONLY <1>3, <1>4, <3>1
  <2>5. CASE k = 5
    <3>1. a = g /\ b = h /\ c = i /\ d # j /\ (strcmp(s, t) >= 0 <=> d > j)
      BY <1>1, <1>2, <1>6, <2>0, <2>5
    <3> QED BY ONLY <1>3, <1>4, <3>1
  <2>6. CASE k = 7
    <3>1. a = g /\ b = h /\ c = i /\ d = j /\ e # l /\ (strcmp(s, t) >= 0 <=> e > l)
      BY <1>1, <1>2, <1>6, <2>0, <2>6
    <3> QED BY ONLY <1>3, <1>4, <3>1
  <2>7. CASE k = 8
    <3>1. /\ a = g /\ b = h /\ c = i /\ d = j /\ e = l
          /\ f # m /\ (strcmp(s, t) >= 0 <=> f > m)
      BY <1>1, <1>2, <1>6, <2>0, <2>7
    <3> QED BY ONLY <1>3, <1>4, <3>1
  <2> QED BY <2>1, <2>2, <2>3, <2>4, <2>5, <2>6, <2>7
<1>7. \/ strcmp(s, t) = 0 /\ \A k \in 1 .. 8 : s[k] = t[k]
      \/ \E k \in 1 .. 8 : /\ FirstDifference(s, t, k)
                           /\ strcmp(s, t) = IF s[k] > t[k] THEN 1 ELSE -1
  BY ONLY DOMAIN s = 1 .. 8, 8 \in {8, 10}, Compared
<1> QED BY <1>5, <1>6, <1>7

(* The ten characters of a date, and what they count as.                   *)
Years == 0 .. 10099

YearOf(y, a, b, c, d) ==
    /\ a = y \div 1000 /\ b = (y \div 100) % 10 /\ c = (y \div 10) % 10 /\ d = y % 10
    /\ y = 1000 * a + 100 * b + 10 * c + d

LEMMA YearDigits ==
    ASSUME NEW y \in Years
    PROVE  \E a \in 0 .. 10, b \in 0 .. 9, c \in 0 .. 9, d \in 0 .. 9 :
              YearOf(y, a, b, c, d)
<1> DEFINE p == y \div 10
           q == y \div 100
           r == y \div 1000
<1>1. y = 10 * p + (y % 10) /\ y % 10 \in 0 .. 9 /\ p \in 0 .. 1009
  BY DEF Years
<1>2. q = p \div 10 /\ r = q \div 10
  BY DEF Years
<1> HIDE DEF p, q, r
<1>3. p = 10 * q + (p % 10) /\ p % 10 \in 0 .. 9 /\ q \in 0 .. 100
  BY ONLY <1>1, <1>2
<1>4. q = 10 * r + (q % 10) /\ q % 10 \in 0 .. 9 /\ r \in 0 .. 10
  BY ONLY <1>2, <1>3, SMTT(60)
<1>5. y = 1000 * r + 100 * (q % 10) + 10 * (p % 10) + (y % 10)
  BY ONLY <1>1, <1>3, <1>4
<1>6. /\ r \in 0 .. 10 /\ q % 10 \in 0 .. 9 /\ p % 10 \in 0 .. 9 /\ y % 10 \in 0 .. 9
  BY ONLY <1>1, <1>3, <1>4
<1>7. r = y \div 1000 /\ q = y \div 100 /\ p = y \div 10
  BY DEF p, q, r
<1>8. YearOf(y, r, q % 10, p % 10, y % 10)
  BY ONLY <1>5, <1>7, Zenon DEF YearOf
<1> QED BY ONLY <1>6, <1>8, Zenon

DateOf(s, order, a, b, c, d, e, f, g, h) ==
    /\ DOMAIN s = 1 .. 10
    /\ s[1] = a /\ s[2] = b /\ s[3] = c /\ s[4] = d /\ s[5] = Slash
    /\ s[6] = e /\ s[7] = f /\ s[8] = Slash /\ s[9] = g /\ s[10] = h
    /\ 10 * e + f \in 1 .. 12 /\ 10 * g + h \in 1 .. 31
    /\ order = 372 * (1000 * a + 100 * b + 10 * c + d) + 31 * (10 * e + f) + (10 * g + h)

LEMMA DateDigits ==
    ASSUME NEW d, Dated(d)
    PROVE  \E a \in 0 .. 10, b, c, x, e, f, g, h \in 0 .. 9 :
              DateOf(DateString(d), DateOrder(d), a, b, c, x, e, f, g, h)
<1>1. PICK m \in 1 .. 12, k \in 1 .. 31, z \in 0 .. 99, w \in 0 .. 100 :
        m = d.month /\ k = d.day /\ z = d.year /\ w = d.century
  <2>1. d.month \in 1 .. 12 /\ d.day \in 1 .. 31 /\ d.year \in 0 .. 99 /\ d.century \in 0 .. 100
    BY DEF Dated
  <2> QED BY ONLY <2>1, Zenon
<1>2. PICK y \in Years : y = FullYear(d)
  <2>1. FullYear(d) = 100 * w + z
    BY <1>1, Zenon DEF FullYear
  <2> QED BY <2>1 DEF Years
<1>3. PICK a \in 0 .. 10, b \in 0 .. 9, c \in 0 .. 9, x \in 0 .. 9 :
        YearOf(y, a, b, c, x)
  BY ONLY y \in Years, YearDigits, Zenon
<1>4. PICK e \in 0 .. 9, f \in 0 .. 9 : e = m \div 10 /\ f = m % 10 /\ m = 10 * e + f
  BY ONLY m \in 1 .. 12
<1>5. PICK g \in 0 .. 9, h \in 0 .. 9 : g = k \div 10 /\ h = k % 10 /\ k = 10 * g + h
  BY ONLY k \in 1 .. 31
<1>6. DateString(d) = <<a, b, c, x, Slash, e, f, Slash, g, h>>
  <2>1. DateString(d) = <<y \div 1000, (y \div 100) % 10, (y \div 10) % 10, y % 10, Slash,
                          m \div 10, m % 10, Slash, k \div 10, k % 10>>
    BY ONLY <1>1, <1>2 DEF DateString, Years
  <2>2. /\ a = y \div 1000 /\ b = (y \div 100) % 10 /\ c = (y \div 10) % 10 /\ x = y % 10
    BY <1>3 DEF YearOf
  <2> QED BY ONLY <1>4, <1>5, <2>1, <2>2, SMTT(60)
<1>7. DateOrder(d) = 372 * y + 31 * m + k
  BY ONLY <1>1, <1>2 DEF DateOrder, Years
<1>8. /\ 10 * e + f \in 1 .. 12 /\ 10 * g + h \in 1 .. 31
      /\ DateOrder(d) = 372 * (1000 * a + 100 * b + 10 * c + x)
                        + 31 * (10 * e + f) + (10 * g + h)
  <2>1. y = 1000 * a + 100 * b + 10 * c + x /\ m = 10 * e + f /\ k = 10 * g + h
    BY <1>3, <1>4, <1>5 DEF YearOf
  <2>2. 10 * e + f \in 1 .. 12 /\ 10 * g + h \in 1 .. 31
    BY ONLY <2>1, m \in 1 .. 12, k \in 1 .. 31
  <2> QED BY ONLY <1>7, <2>1, <2>2
<1>9. DateOf(DateString(d), DateOrder(d), a, b, c, x, e, f, g, h)
  BY ONLY <1>6, <1>8 DEF DateOf
<1> QED BY <1>9, Zenon

(* Of two dates the greater is the one whose string is.                    *)
LEMMA DatesCompared ==
    ASSUME NEW d, NEW e, Dated(d), Dated(e)
    PROVE  LET c == strcmp(DateString(d), DateString(e))
           IN  /\ c > 0 <=> DateOrder(d) > DateOrder(e)
               /\ c = 0 <=> DateOrder(d) = DateOrder(e)
<1> DEFINE s == DateString(d)
           t == DateString(e)
           x == DateOrder(d)
           y == DateOrder(e)
<1>1. PICK a1 \in 0 .. 10, a2, a3, a4, a5, a6, a7, a8 \in 0 .. 9 :
        DateOf(s, x, a1, a2, a3, a4, a5, a6, a7, a8)
  BY DateDigits, Zenon
<1>2. PICK b1 \in 0 .. 10, b2, b3, b4, b5, b6, b7, b8 \in 0 .. 9 :
        DateOf(t, y, b1, b2, b3, b4, b5, b6, b7, b8)
  BY DateDigits, Zenon
<1> HIDE DEF s, t, x, y
<1>3. /\ DOMAIN s = 1 .. 10
      /\ s[1] = a1 /\ s[2] = a2 /\ s[3] = a3 /\ s[4] = a4
      /\ s[6] = a5 /\ s[7] = a6 /\ s[9] = a7 /\ s[10] = a8
      /\ t[1] = b1 /\ t[2] = b2 /\ t[3] = b3 /\ t[4] = b4
      /\ t[6] = b5 /\ t[7] = b6 /\ t[9] = b7 /\ t[10] = b8
      /\ s[5] = t[5] /\ s[8] = t[8]
  BY <1>1, <1>2 DEF DateOf
<1>4. /\ 10 * a5 + a6 \in 1 .. 12 /\ 10 * a7 + a8 \in 1 .. 31
      /\ x = 372 * (1000 * a1 + 100 * a2 + 10 * a3 + a4)
             + 31 * (10 * a5 + a6) + (10 * a7 + a8)
      /\ 10 * b5 + b6 \in 1 .. 12 /\ 10 * b7 + b8 \in 1 .. 31
      /\ y = 372 * (1000 * b1 + 100 * b2 + 10 * b3 + b4)
             + 31 * (10 * b5 + b6) + (10 * b7 + b8)
  BY <1>1, <1>2 DEF DateOf
<1>5. \/ strcmp(s, t) = 0 /\ \A k \in 1 .. 10 : s[k] = t[k]
      \/ \E k \in 1 .. 10 : /\ FirstDifference(s, t, k)
                            /\ strcmp(s, t) = IF s[k] > t[k] THEN 1 ELSE -1
  BY ONLY <1>3, 10 \in {8, 10}, Compared
<1>6. CASE strcmp(s, t) = 0 /\ \A k \in 1 .. 10 : s[k] = t[k]
  <2>1. /\ a1 = b1 /\ a2 = b2 /\ a3 = b3 /\ a4 = b4
        /\ a5 = b5 /\ a6 = b6 /\ a7 = b7 /\ a8 = b8
    BY <1>3, <1>6
  <2>2. x = y /\ x \in Int
    BY ONLY <1>4, <2>1
  <2>3. (strcmp(s, t) > 0 <=> x > y) /\ (strcmp(s, t) = 0 <=> x = y)
    BY ONLY <1>6, <2>2
  <2> QED BY ONLY <2>3 DEF s, t, x, y
<1>7. ASSUME NEW k \in 1 .. 10, FirstDifference(s, t, k),
             strcmp(s, t) = IF s[k] > t[k] THEN 1 ELSE -1
      PROVE  (strcmp(s, t) > 0 <=> x > y) /\ (strcmp(s, t) = 0 <=> x = y)
  <2> DEFINE c == strcmp(s, t)
  <2>0. s[k] # t[k] /\ \A n \in 1 .. k - 1 : s[n] = t[n]
    BY <1>7 DEF FirstDifference
  <2>1. k \notin {5, 8}
    BY <2>0, <1>3
  <2>2. CASE k = 1
    <3>1. /\ a1 # b1 /\ c # 0 /\ (c > 0 <=> a1 > b1)
      BY <1>3, <1>7, <2>0, <2>2
    <3> HIDE DEF c
    <3>2. x # y /\ (x > y <=> a1 > b1)
      BY ONLY <1>4, <3>1
    <3> QED BY ONLY <3>1, <3>2 DEF c
  <2>3. CASE k = 2
    <3>1. /\ a1 = b1
          /\ a2 # b2 /\ c # 0 /\ (c > 0 <=> a2 > b2)
      BY <1>3, <1>7, <2>0, <2>3
    <3> HIDE DEF c
    <3>2. x # y /\ (x > y <=> a2 > b2)
      BY ONLY <1>4, <3>1
    <3> QED BY ONLY <3>1, <3>2 DEF c
  <2>4. CASE k = 3
    <3>1. /\ a1 = b1 /\ a2 = b2
          /\ a3 # b3 /\ c # 0 /\ (c > 0 <=> a3 > b3)
      BY <1>3, <1>7, <2>0, <2>4
    <3> HIDE DEF c
    <3>2. x # y /\ (x > y <=> a3 > b3)
      BY ONLY <1>4, <3>1
    <3> QED BY ONLY <3>1, <3>2 DEF c
  <2>5. CASE k = 4
    <3>1. /\ a1 = b1 /\ a2 = b2 /\ a3 = b3
          /\ a4 # b4 /\ c # 0 /\ (c > 0 <=> a4 > b4)
      BY <1>3, <1>7, <2>0, <2>5
    <3> HIDE DEF c
    <3>2. x # y /\ (x > y <=> a4 > b4)
      BY ONLY <1>4, <3>1
    <3> QED BY ONLY <3>1, <3>2 DEF c
  <2>6. CASE k = 6
    <3>1. /\ a1 = b1 /\ a2 = b2 /\ a3 = b3 /\ a4 = b4
          /\ a5 # b5 /\ c # 0 /\ (c > 0 <=> a5 > b5)
      BY <1>3, <1>7, <2>0, <2>6
    <3> HIDE DEF c
    <3>2. x # y /\ (x > y <=> a5 > b5)
      BY ONLY <1>4, <3>1
    <3> QED BY ONLY <3>1, <3>2 DEF c
  <2>7. CASE k = 7
    <3>1. /\ a1 = b1 /\ a2 = b2 /\ a3 = b3 /\ a4 = b4 /\ a5 = b5
          /\ a6 # b6 /\ c # 0 /\ (c > 0 <=> a6 > b6)
      BY <1>3, <1>7, <2>0, <2>7
    <3> HIDE DEF c
    <3>2. x # y /\ (x > y <=> a6 > b6)
      BY ONLY <1>4, <3>1
    <3> QED BY ONLY <3>1, <3>2 DEF c
  <2>8. CASE k = 9
    <3>1. /\ a1 = b1 /\ a2 = b2 /\ a3 = b3 /\ a4 = b4 /\ a5 = b5 /\ a6 = b6
          /\ a7 # b7 /\ c # 0 /\ (c > 0 <=> a7 > b7)
      BY <1>3, <1>7, <2>0, <2>8
    <3> HIDE DEF c
    <3>2. x # y /\ (x > y <=> a7 > b7)
      BY ONLY <1>4, <3>1
    <3> QED BY ONLY <3>1, <3>2 DEF c
  <2>9. CASE k = 10
    <3>1. /\ a1 = b1 /\ a2 = b2 /\ a3 = b3 /\ a4 = b4 /\ a5 = b5 /\ a6 = b6 /\ a7 = b7
          /\ a8 # b8 /\ c # 0 /\ (c > 0 <=> a8 > b8)
      BY <1>3, <1>7, <2>0, <2>9
    <3> HIDE DEF c
    <3>2. x # y /\ (x > y <=> a8 > b8)
      BY ONLY <1>4, <3>1
    <3> QED BY ONLY <3>1, <3>2 DEF c
  <2> QED BY <2>1, <2>2, <2>3, <2>4, <2>5, <2>6, <2>7, <2>8, <2>9
<1> QED BY <1>5, <1>6, <1>7 DEF s, t, x, y

(* When an alarm's process has read the clock, the strings compare as the  *)
(* moments do.                                                             *)
LEMMA ReachedWhenDue ==
    ASSUME ClockInv, alarm_process, Digits(alarm.time)
    PROVE  /\ alarm # None
           /\ Reached <=> \/ DateOrder(value) > DateOrder(due)
                          \/ /\ DateOrder(value) = DateOrder(due)
                             /\ Seconds(value) >= Seconds(due)
<1> DEFINE typed == alarm.time
           shown == TimeString(value)
<1>1. op \in Reading /\ op # "create_alarm_process" /\ todo = <<>>
  BY DEF alarm_process, Reading
<1>2. Moment(value)
  BY <1>1, AllRead
<1>3. /\ value.second \in 0 .. 59 /\ value.minute \in 0 .. 59 /\ value.hour \in 0 .. 23
      /\ value.day \in 1 .. 31 /\ value.month \in 1 .. 12
      /\ value.year \in 0 .. 99 /\ value.century \in 0 .. 99
  BY <1>2 DEF Moment, Showable
<1>4. AlarmTimeAccepted(typed) /\ typed \in Seq(Int)
  BY <1>1 DEF ClockInv, AlarmKept
<1>5. /\ DOMAIN typed = 1 .. 8 /\ typed[3] = Colon /\ typed[6] = Colon
      /\ TimeAccepted(Numbers(typed))
  BY <1>4 DEF AlarmTimeAccepted
<1>6. alarm # None
  BY <1>4 DEF AlarmTimeAccepted, None
<1>7. /\ alarm.date = DateString(due) /\ Dated(due)
      /\ due.hour = Numbers(typed).hour /\ due.minute = Numbers(typed).minute
      /\ due.second = Numbers(typed).second
  BY <1>1, <1>6 DEF ClockInv, AlarmKept
<1>8. Dated(value)
  BY <1>3 DEF Dated
<1> HIDE DEF typed
<1>9. /\ strcmp(DateString(value), alarm.date) > 0 <=> DateOrder(value) > DateOrder(due)
      /\ strcmp(DateString(value), alarm.date) = 0 <=> DateOrder(value) = DateOrder(due)
  BY <1>7, <1>8, DatesCompared
<1>10. /\ DOMAIN shown = 1 .. 8 /\ shown[3] = Colon /\ shown[6] = Colon
       /\ \A k \in {1, 2, 4, 5, 7, 8} : Digit(shown[k])
       /\ Numbers(shown).hour = value.hour /\ Numbers(shown).minute = value.minute
       /\ Numbers(shown).second = value.second
  <2>1. PICK h \in 0 .. 23, m \in 0 .. 59, s \in 0 .. 59 :
          h = value.hour /\ m = value.minute /\ s = value.second
    BY ONLY <1>3, Zenon
  <2>2. shown = <<h \div 10, h % 10, Colon, m \div 10, m % 10, Colon, s \div 10, s % 10>>
    BY ONLY <2>1 DEF TimeString
  <2>3. /\ h \div 10 \in 0 .. 9 /\ h % 10 \in 0 .. 9 /\ 10 * (h \div 10) + (h % 10) = h
        /\ m \div 10 \in 0 .. 9 /\ m % 10 \in 0 .. 9 /\ 10 * (m \div 10) + (m % 10) = m
        /\ s \div 10 \in 0 .. 9 /\ s % 10 \in 0 .. 9 /\ 10 * (s \div 10) + (s % 10) = s
    BY ONLY h \in 0 .. 23, m \in 0 .. 59, s \in 0 .. 59
  <2> HIDE DEF shown
  <2>4. /\ DOMAIN shown = 1 .. 8 /\ shown[3] = Colon /\ shown[6] = Colon
        /\ shown[1] = h \div 10 /\ shown[2] = h % 10
        /\ shown[4] = m \div 10 /\ shown[5] = m % 10
        /\ shown[7] = s \div 10 /\ shown[8] = s % 10
    BY ONLY <2>2
  <2>5. \A k \in {1, 2, 4, 5, 7, 8} : Digit(shown[k])
    BY ONLY <2>3, <2>4 DEF Digit
  <2>6. Numbers(shown).hour = h /\ Numbers(shown).minute = m /\ Numbers(shown).second = s
    BY ONLY <2>3, <2>4 DEF Numbers
  <2> QED BY ONLY <2>1, <2>4, <2>5, <2>6
<1> HIDE DEF shown
<1>11. TimeAccepted(Numbers(shown))
  BY <1>3, <1>10 DEF TimeAccepted
<1>12. \A k \in {1, 2, 4, 5, 7, 8} : Digit(typed[k])
  BY <1>5 DEF Digits, Digit, typed
<1>13. strcmp(shown, typed) >= 0 <=> Seconds(Numbers(shown)) >= Seconds(Numbers(typed))
  BY ONLY <1>5, <1>10, <1>11, <1>12, TimesCompared
<1>14. Seconds(Numbers(shown)) = Seconds(value) /\ Seconds(Numbers(typed)) = Seconds(due)
  BY <1>7, <1>10 DEF Seconds
<1>15. Reached <=> \/ strcmp(DateString(value), alarm.date) > 0
                  \/ /\ strcmp(DateString(value), alarm.date) = 0
                     /\ strcmp(shown, typed) >= 0
  BY DEF Reached, shown, typed
<1> QED BY ONLY <1>6, <1>9, <1>13, <1>14, <1>15, Zenon

(* An alarm whose time was typed in digits rings if and only if its moment *)
(* has come on the clock as its process read it: for these strings strcmp  *)
(* orders as the calendar does.                                            *)
THEOREM RingsCorrect == Spec => RingsWhenDue
<1> DEFINE Rings ==
      op = "alarm_process" /\ op' = "none" /\ Digits(alarm.time) =>
          (alarm' = None) = \/ DateOrder(value) > DateOrder(due)
                            \/ /\ DateOrder(value) = DateOrder(due)
                               /\ Seconds(value) >= Seconds(due)
<1>1. ASSUME ClockInv, [Next]_vars PROVE Rings
  <2> SUFFICES ASSUME op = "alarm_process", op' = "none", Digits(alarm.time)
               PROVE  (alarm' = None) = \/ DateOrder(value) > DateOrder(due)
                                        \/ /\ DateOrder(value) = DateOrder(due)
                                           /\ Seconds(value) >= Seconds(due)
    OBVIOUS
  <2>1. alarm_process
    BY <1>1, EndsByAlarm DEF Reading
  <2>2. alarm # None /\ (alarm' = None <=> Reached)
    <3>1. alarm # None
      BY <1>1, <2>1, ReachedWhenDue
    <3> QED BY <2>1, <3>1 DEF alarm_process
  <2>3. Reached <=> \/ DateOrder(value) > DateOrder(due)
                   \/ /\ DateOrder(value) = DateOrder(due)
                      /\ Seconds(value) >= Seconds(due)
    BY <1>1, <2>1, ReachedWhenDue
  <2> QED BY ONLY <2>2, <2>3, Zenon
<1>2. [][Rings]_vars => RingsWhenDue
  BY PTL DEF RingsWhenDue
<1> HIDE DEF Rings
<1>3. ClockInv /\ [Next]_vars => [Rings]_vars
  BY <1>1
<1> QED BY <1>2, <1>3, ClockInvariant, PTL DEF Spec
=============================================================================
