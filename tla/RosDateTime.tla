------------------------------ MODULE RosDateTime ------------------------------
(***************************************************************************)
(* The dates of RouterOS as formatting.py reads and writes them: an        *)
(* ISO-like rendering, "2027-01-15 12:00:00", and the traditional one,     *)
(* "jan/15/2027 12:00:00".  A rendering is a record that names its form;   *)
(* a date that is read is a record of six numbers.                         *)
(***************************************************************************)
EXTENDS Integers

\* _MONTH_ABBREVIATIONS, and its inverse _MONTH_NAMES_BY_NUMBER.
MonthName == <<"jan", "feb", "mar", "apr", "may", "jun",
               "jul", "aug", "sep", "oct", "nov", "dec">>
MonthNames == {MonthName[m] : m \in 1..12}
MonthNumber(abbreviation) == CHOOSE m \in 1..12 : MonthName[m] = abbreviation

LeapYear(year) == year % 4 = 0 /\ (year % 100 = 0 => year % 400 = 0)

DaysIn(year, month) ==
    IF month = 2 THEN IF LeapYear(year) THEN 29 ELSE 28
    ELSE IF month \in {4, 6, 9, 11} THEN 30 ELSE 31

\* What datetime() accepts (year 9999, its last, is not reached).
IsDateTime(d) ==
    /\ d \in [year : Nat, month : Nat, day : Nat, hour : Nat, minute : Nat, second : Nat]
    /\ 1 <= d.year /\ d.year <= 9998
    /\ 1 <= d.month /\ d.month <= 12
    /\ 1 <= d.day /\ d.day <= DaysIn(d.year, d.month)
    /\ d.hour <= 23 /\ d.minute <= 59 /\ d.second <= 59

NotADate == [year |-> 0, month |-> 0, day |-> 0, hour |-> 0, minute |-> 0, second |-> 0]

-----------------------------------------------------------------------------
(* Reading and writing.                                                     *)

Reading(year, month, day, time) ==
    LET d == [year |-> year, month |-> month, day |-> day,
              hour |-> time.hour, minute |-> time.minute, second |-> time.second]
    IN  IF IsDateTime(d) THEN d ELSE NotADate

\* parse_ros_datetime of a date field and a time field, joined by a blank.
ParseRosDateTime(date, time) ==
    CASE date.form = "iso" -> Reading(date.year, date.month, date.day, time)
      [] date.form = "abbreviated" /\ date.month \in MonthNames ->
            Reading(date.year, MonthNumber(date.month), date.day, time)
      [] OTHER -> NotADate

\* Mutant: the month's place in the table counts from zero.
FormatMonthBefore(d) ==
    << [form |-> "abbreviated", year |-> d.year,
        month |-> MonthName[IF d.month = 1 THEN 12 ELSE d.month - 1], day |-> d.day],
       [hour |-> d.hour, minute |-> d.minute, second |-> d.second] >>
\* format_ros_date_time: always the traditional form.
FormatRosDateTime(d) ==
    << [form |-> "abbreviated", year |-> d.year, month |-> MonthName[d.month],
        day |-> d.day],
       [hour |-> d.hour, minute |-> d.minute, second |-> d.second] >>

\* How a device may render its clock; "other" is a form formatting.py does not
\* know, such as day first.
Forms == {"iso", "abbreviated", "other"}
Rendered(d, form) ==
    << IF form = "abbreviated" THEN FormatRosDateTime(d)[1]
       ELSE [form |-> form, year |-> d.year, month |-> d.month, day |-> d.day],
       [hour |-> d.hour, minute |-> d.minute, second |-> d.second] >>

-----------------------------------------------------------------------------
(* The calendar.                                                            *)

NextDay(d) ==
    IF d.day < DaysIn(d.year, d.month) THEN [d EXCEPT !.day = @ + 1]
    ELSE IF d.month < 12 THEN [d EXCEPT !.day = 1, !.month = @ + 1]
    ELSE [d EXCEPT !.day = 1, !.month = 1, !.year = @ + 1]

\* Mutant: the minutes do not carry.
MinutesOnly(d, minutes) == [d EXCEPT !.minute = @ + minutes]
\* datetime + timedelta(minutes), for less than a day.
PlusMinutes(d, minutes) ==
    LET total == 60 * d.hour + d.minute + minutes
        day   == IF total < 1440 THEN d ELSE NextDay(d)
    IN  [day EXCEPT !.hour = (total % 1440) \div 60, !.minute = total % 60]

\* A clock's own next minute.
NextMinute(d) ==
    IF d.minute < 59 THEN [d EXCEPT !.minute = @ + 1]
    ELSE IF d.hour < 23 THEN [d EXCEPT !.minute = 0, !.hour = @ + 1]
    ELSE NextDay([d EXCEPT !.minute = 0, !.hour = 0])

\* Days since 1 January of year 1, counted as calendars do: a reference for the
\* arithmetic above.
DaysBefore(year, month) ==
    LET past == year - 1
        leaps == past \div 4 - past \div 100 + past \div 400
        shortened == IF month <= 2 THEN 0 ELSE IF LeapYear(year) THEN 1 ELSE 2
    IN  365 * past + leaps + (367 * month - 362) \div 12 - shortened
DayNumber(d) == DaysBefore(d.year, d.month) + d.day
MinutesBetween(a, b) ==
    1440 * (DayNumber(b) - DayNumber(a)) + 60 * (b.hour - a.hour) + b.minute - a.minute
=============================================================================
