------------------------------- MODULE S7Date -------------------------------
(***************************************************************************)
(* mc7_parse_s7_date of the bin plugin: a block's time stamp, milliseconds *)
(* of the day and days since 1984-01-01, becomes a calendar date.  Two     *)
(* loops take whole years and then whole months off the days; one step is  *)
(* one iteration.  Both dates of a block header go through it.             *)
(***************************************************************************)
EXTENDS Integers, Sequences

CONSTANT Stamps         \* the stamps read: [millisec, days]

ASSUME StampAssumption == Stamps \subseteq [millisec : Nat, days : Nat]

VARIABLES
    stamp,              \* what mc7_parse_s7_date read
    year, day,          \* the loops' year and what is left of the days
    i,                  \* index into days_in_month
    date,               \* *date, {} before it is set
    pc                  \* "years", "months" or "done"

vars == <<stamp, year, day, i, date, pc>>
----------------------------------------------------------------------------
IsLeap(y) == (y % 4 = 0 /\ y % 100 # 0) \/ y % 400 = 0

\* Mutant: every fourth year is a leap year.
DaysInYearJulian(y) == IF y % 4 = 0 THEN 366 ELSE 365

DaysInYear(y) == IF IsLeap(y) THEN 366 ELSE 365

\* days_in_month[k]; February has 28.
MonthTable(k) ==
    CASE k = 1 -> 28 [] k \in {3, 5, 8, 10} -> 30
      [] k \in {0, 2, 4, 6, 7, 9, 11} -> 31

\* mc7_millisecs_to_time.
TimeOf(ms) == [hour |-> ms \div 3600000, mins |-> (ms % 3600000) \div 60000,
               secs |-> (ms % 60000) \div 1000, millisec |-> ms % 1000]

Init ==
    /\ stamp \in Stamps
    /\ year = 1984 /\ day = 1 + stamp.days
    /\ i = 0 /\ date = {}
    /\ pc = "years"

TakeYear ==
    /\ pc = "years" /\ day > DaysInYear(year)
    /\ day' = day - DaysInYear(year)
    /\ year' = year + 1
    /\ UNCHANGED <<stamp, i, date, pc>>

\* Mutant: nothing ends the loop on day 366 of a leap year.
YearsTakenUnbroken ==
    /\ pc = "years" /\ day <= 365
    /\ pc' = "months"
    /\ UNCHANGED <<stamp, year, day, i, date>>

\* The loop runs while day > 365 and breaks in a leap year's last day.
YearsTaken ==
    /\ pc = "years" /\ (day <= 365 \/ day <= DaysInYear(year))
    /\ pc' = "months"
    /\ UNCHANGED <<stamp, year, day, i, date>>

\* Mutant: the leap year's February has 28 days.
MonthEndsPlain == day <= MonthTable(i)

\* The month loop ends in month i: it also does on February 29.
MonthEnds == day <= MonthTable(i) \/ (i = 1 /\ IsLeap(year) /\ day <= 29)

\* Mutant: the leap year's February takes 28 days off.
MonthDaysPlain == MonthTable(i)

MonthDays == IF i = 1 /\ IsLeap(year) THEN 29 ELSE MonthTable(i)

TakeMonth ==
    /\ pc = "months" /\ ~MonthEnds
    /\ day' = day - MonthDays
    /\ i' = i + 1
    /\ UNCHANGED <<stamp, year, date, pc>>

\* The time is made of the days: mc7_millisecs_to_time(days, date).
SetDate ==
    /\ pc = "months" /\ MonthEnds
    /\ date' = {[year |-> year, month |-> i + 1, day |-> day,
                 time |-> TimeOf(stamp.days)]}
    /\ pc' = "done"
    /\ UNCHANGED <<stamp, year, day, i>>

Next == TakeYear \/ YearsTaken \/ TakeMonth \/ SetDate

Spec == Init /\ [][Next]_vars
----------------------------------------------------------------------------
(* Properties.  The calendar in closed form: the days from 1984-01-01 to   *)
(* the first day of a year, and within a year to the first of a month.     *)
Leaps(y) == y \div 4 - y \div 100 + y \div 400

DaysBefore(y) == 365 * (y - 1984) + Leaps(y - 1) - Leaps(1983)

\* Month m of 1..13; 13 stands for the next year.
DaysBeforeMonth(y, m) ==
    <<0, 31, 59, 90, 120, 151, 181, 212, 243, 273, 304, 334, 365>>[m]
        + (IF m > 2 /\ IsLeap(y) THEN 1 ELSE 0)

(* Type invariant: the variables keep their types, and the loop over the   *)
(* months stays inside days_in_month.                                      *)
TypeOK ==
    /\ stamp \in Stamps
    /\ year \in Nat /\ day \in Nat \ {0} /\ i \in 0..11
    /\ pc \in {"years", "months", "done"}

(* The loops lose no day: what is left and what was taken off add up, and  *)
(* once the years are off, the rest lies in the year.                      *)
DaysConserved ==
    /\ year >= 1984
    /\ DaysBefore(year) + DaysBeforeMonth(year, i + 1) + day = stamp.days + 1
    /\ pc = "years" => i = 0
    /\ pc # "years" => day <= DaysBeforeMonth(year, 13) - DaysBeforeMonth(year, i + 1)

(* The date is the calendar's: its month has the day, and counting from    *)
(* 1984-01-01 to it gives the stamp's days back.                           *)
DateExact ==
    \A d \in date :
        /\ d.month \in 1..12
        /\ d.day \in 1..(DaysBeforeMonth(d.year, d.month + 1)
                         - DaysBeforeMonth(d.year, d.month))
        /\ DaysBefore(d.year) + DaysBeforeMonth(d.year, d.month) + d.day - 1
               = stamp.days

(* "A: 32 bits (big-endian), number of milliseconds in the days": the time *)
(* of day is that of the stamp's milliseconds.                             *)
TimeExact == \A d \in date : d.time = TimeOf(stamp.millisec)
=============================================================================
