------------------------------ MODULE MCDs1307 ------------------------------
EXTENDS Ds1307

CONSTANTS c1, c2

MCDevices == {c1, c2}

\* Sunday 2023-12-31 23:59:59: the next second carries into every field.
NewYearEve == [sec |-> 59, min |-> 59, hour |-> 23, wday |-> 0, mday |-> 31,
               mon |-> 11, year |-> 123]

\* Thursday 2024-02-29 12:30:00, a leap day.
LeapDay == [sec |-> 0, min |-> 30, hour |-> 12, wday |-> 4, mday |-> 29,
            mon |-> 1, year |-> 124]

\* Friday 1999-12-31 23:59:59, a year before 2000 that rtc_valid_tm accepts.
Y1999 == [sec |-> 59, min |-> 59, hour |-> 23, wday |-> 5, mday |-> 31,
          mon |-> 11, year |-> 99]

MCInitTimes == {NewYearEve}
MCSetTimes == {LeapDay, Y1999}
=============================================================================
