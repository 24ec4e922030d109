------------------------------- MODULE Calendar -------------------------------
(***************************************************************************)
(* The calendar of source/time.cpp: a day number, counted from 1970-01-01, *)
(* and the date it stands for, converted both ways with divisions only.    *)
(* They are compared with a calendar kept by hand, which goes on day by    *)
(* day and knows how long each month is.                                   *)
(*                                                                         *)
(* C divides towards zero, which Quot is; the unsigned terms of the code   *)
(* never wrap but for -3u and -9u, which are subtractions.                 *)
(*                                                                         *)
(* A time is a number of ticks from 2000-01-01 on, before it negative.     *)
(* How many ticks make a second, and how many hours a day, are parameters, *)
(* small enough for the times of four centuries to fit TLC's integers.     *)
(***************************************************************************)
EXTENDS Integers

CONSTANTS
  Days,                      \* bound on the days to count
  Hours, Minutes, Seconds,   \* of a day, an hour and a minute: 24, 60, 60
  TimerHz,                   \* kWiiUTimerHz, ticks in a second
  Micros, PerMilli,          \* microseconds in a second and in a millisecond
  Instants                   \* the ticks of each day to convert

VARIABLES day,       \* days since 1970-01-01
          date,      \* the date by the calendar kept by hand
          weekday,   \* its day of the week, 0 for Sunday
          yearday,   \* its day of the year, 0 for 1 January
          origin     \* the day it was started at

calendarVars == <<day, date, weekday, yearday, origin>>

Quot(a, b) == IF a >= 0 THEN a \div b ELSE -((-a) \div b)

Date(y, m, d) == [year |-> y, month |-> m, day |-> d]

DaysFromCivil(t) ==
  LET y == IF t.month <= 2 THEN t.year - 1 ELSE t.year
      era == Quot(IF y >= 0 THEN y ELSE y - 399, 400)
      yoe == y - era * 400
      doy == (153 * (t.month + (IF t.month > 2 THEN -3 ELSE 9)) + 2) \div 5 + t.day - 1
      doe == yoe * 365 + yoe \div 4 - yoe \div 100 + doy
  IN  era * 146097 + doe - 719468

\* Mutation of CivilFromDays: a day before the year 0 counts to the era after it.
CivilFromDaysTruncating(n) ==
  LET z == n + 719468
      era == Quot(z, 146097)
      doe == z - era * 146097
      yoe == (doe - doe \div 1460 + doe \div 36524 - doe \div 146096) \div 365
      doy == doe - (365 * yoe + yoe \div 4 - yoe \div 100)
      mp == (5 * doy + 2) \div 153
      m == IF mp < 10 THEN mp + 3 ELSE mp - 9
  IN  Date(yoe + era * 400 + (IF m <= 2 THEN 1 ELSE 0), m, doy - (153 * mp + 2) \div 5 + 1)

CivilFromDays(n) ==
  LET z == n + 719468
      era == Quot(IF z >= 0 THEN z ELSE z - 146096, 146097)
      doe == z - era * 146097
      yoe == (doe - doe \div 1460 + doe \div 36524 - doe \div 146096) \div 365
      doy == doe - (365 * yoe + yoe \div 4 - yoe \div 100)
      mp == (5 * doy + 2) \div 153
      m == IF mp < 10 THEN mp + 3 ELSE mp - 9
  IN  Date(yoe + era * 400 + (IF m <= 2 THEN 1 ELSE 0), m, doy - (153 * mp + 2) \div 5 + 1)

Rem(a, b) == a - b * Quot(a, b)

\* tm_wday and tm_yday of OSTicksToCalendarTime.
WeekDay(n) == Rem(Rem(n, 7) + 11, 7)
YearDay(n) == n - DaysFromCivil(Date(CivilFromDays(n).year, 1, 1))

DaySeconds == Hours * Minutes * Seconds
CafeEpoch == 10957 * DaySeconds   \* kUnixToCafeEpoch, from 1970 to 2000

\* Division rounded down, from one rounded towards zero, as the code has it.
FloorQuot(a, b) == IF Rem(a, b) < 0 THEN Quot(a, b) - 1 ELSE Quot(a, b)
FloorRem(a, b) == IF Rem(a, b) < 0 THEN Rem(a, b) + b ELSE Rem(a, b)

\* Mutation of OSTicksToCalendarTime: a negative rest of a day is left as it is.
OSTicksToCalendarTimeTruncating(time) ==
  LET unixSecs == FloorQuot(time, TimerHz) + CafeEpoch
      days == Quot(unixSecs, DaySeconds)
      sod == Rem(unixSecs, DaySeconds)
      usec == (FloorRem(time, TimerHz) * Micros) \div TimerHz
  IN [date |-> CivilFromDays(days), wday |-> WeekDay(days), yday |-> YearDay(days),
      hour |-> Quot(sod, Minutes * Seconds), min |-> Quot(Rem(sod, Minutes * Seconds), Seconds),
      sec |-> Rem(sod, Seconds), msec |-> usec \div PerMilli, usec |-> usec % PerMilli]

OSTicksToCalendarTime(time) ==
  LET unixSecs == FloorQuot(time, TimerHz) + CafeEpoch
      days == FloorQuot(unixSecs, DaySeconds)
      sod == FloorRem(unixSecs, DaySeconds)
      usec == (FloorRem(time, TimerHz) * Micros) \div TimerHz
  IN [date |-> CivilFromDays(days), wday |-> WeekDay(days), yday |-> YearDay(days),
      hour |-> sod \div (Minutes * Seconds), min |-> (sod % (Minutes * Seconds)) \div Seconds,
      sec |-> sod % Seconds, msec |-> usec \div PerMilli, usec |-> usec % PerMilli]

OSCalendarTimeToTicks(ct) ==
  LET unixSecs == DaysFromCivil(ct.date) * DaySeconds
                    + ct.hour * Minutes * Seconds + ct.min * Seconds + ct.sec
  IN (unixSecs - CafeEpoch) * TimerHz + ((ct.msec * PerMilli + ct.usec) * TimerHz) \div Micros

\* The calendar kept by hand.
Leap(y) == y % 4 = 0 /\ (y % 100 # 0 \/ y % 400 = 0)

MonthDays(y, m) ==
  CASE m \in {4, 6, 9, 11} -> 30
    [] m = 2 -> IF Leap(y) THEN 29 ELSE 28
    [] OTHER -> 31

DayAfter(t) ==
  IF t.day < MonthDays(t.year, t.month) THEN [t EXCEPT !.day = @ + 1]
  ELSE IF t.month < 12 THEN Date(t.year, t.month + 1, 1)
  ELSE Date(t.year + 1, 1, 1)

\* 1 January 1970 was a Thursday, and 400 years are whole weeks.
Start(k) ==
  /\ origin = 146097 * k /\ day = origin
  /\ date = Date(1970 + 400 * k, 1, 1) /\ weekday = 4 /\ yearday = 0

Tomorrow ==
  /\ day < origin + Days
  /\ day' = day + 1
  /\ date' = DayAfter(date)
  /\ weekday' = (weekday + 1) % 7
  /\ yearday' = IF date'.year = date.year THEN yearday + 1 ELSE 0
  /\ UNCHANGED origin

\* README.md:170: "calendar conversion round-trips correctly".  Every instant of a
\* day is on its date, before 2000 as after it, and the way back loses less than a
\* microsecond and a tick, which never leads into another second.
RoundTrip ==
  \A i \in Instants :
    LET time == (day * DaySeconds - CafeEpoch) * TimerHz + i
        ct == OSTicksToCalendarTime(time)
        back == OSCalendarTimeToTicks(ct)
    IN /\ ct.date = date /\ ct.wday = weekday /\ ct.yday = yearday
       /\ ct.hour \in 0..Hours - 1 /\ ct.min \in 0..Minutes - 1 /\ ct.sec \in 0..Seconds - 1
       /\ back <= time /\ (time - back) * Micros < TimerHz + Micros
       /\ FloorQuot(back, TimerHz) = FloorQuot(time, TimerHz)

\* Both conversions, the day of the week and the day of the year agree with the
\* calendar, through every leap year, century and fourth century.
DatesRight ==
  /\ CivilFromDays(day) = date
  /\ DaysFromCivil(date) = day
  /\ WeekDay(day) = weekday
  /\ YearDay(day) = yearday
==============================================================================
