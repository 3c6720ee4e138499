-------------------------- MODULE MCRealTimeClock --------------------------
(***************************************************************************)
(* An instance of RealTimeClock for TLC: the last seconds of hours, days,  *)
(* months, years and centuries.                                            *)
(***************************************************************************)
EXTENDS RealTimeClock

At(y, mo, d, h, mi, s) ==
    [century |-> y \div 100, year |-> y % 100, month |-> mo, day |-> d,
     hour |-> h, minute |-> mi, second |-> s]

MCMoments ==
    {At(2025, 1, 31, 23, 59, 59), At(2024, 2, 28, 23, 59, 58), At(2100, 2, 28, 23, 59, 58),
     At(2099, 12, 31, 23, 59, 59), At(9999, 12, 31, 23, 59, 58), At(2025, 4, 30, 9, 59, 59)}

(* Year 99 is taken for 2099, 2100-02-29 is accepted, the others are not.  *)
MCDates ==
    {[month |-> 12, day |-> 31, year |-> 99], [month |-> 11, day |-> 30, year |-> 9999], [month |-> 2, day |-> 29, year |-> 2100],
     [month |-> 2, day |-> 29, year |-> 2025], [month |-> 13, day |-> 1, year |-> 2025]}

MCTimes ==
    {[hour |-> h, minute |-> 59, second |-> 59] : h \in {0, 23, 24}}

(* 00:00:00, 23:59:59, and 1/:00:00, which passes for nine o'clock.        *)
MCAlarmTimes ==
    {<<0, 0, Colon, 0, 0, Colon, 0, 0>>, <<2, 3, Colon, 5, 9, Colon, 5, 9>>,
     <<1, Slash, Colon, 0, 0, Colon, 0, 0>>, <<2, 4, Colon, 0, 0, Colon, 0, 0>>}
=============================================================================
