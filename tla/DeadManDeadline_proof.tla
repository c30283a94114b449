------------------------- MODULE DeadManDeadline_proof -------------------------
(***************************************************************************)
(* Proofs about DeadManDeadline: first about the calendar and the dates of *)
(* RosDateTime, then about the life of a dead-man.  That the calendar's    *)
(* next day is the day after, in every month of every year, is what all of *)
(* it rests on.                                                            *)
(***************************************************************************)
EXTENDS DeadManDeadline, TLAPS

-----------------------------------------------------------------------------
(* The calendar.                                                            *)

DateRecord ==
    [year : Nat, month : Nat, day : Nat, hour : Nat, minute : Nat, second : Nat]

\* The updates the calendar makes.
WithTime(d, h, m) == [d EXCEPT !.hour = h, !.minute = m]
Midnight(d) == [d EXCEPT !.minute = 0, !.hour = 0]
NextHour(d) == [d EXCEPT !.minute = 0, !.hour = @ + 1]
FirstOfNextMonth(d) == [d EXCEPT !.day = 1, !.month = @ + 1]
FirstOfNextYear(d) == [d EXCEPT !.day = 1, !.month = 1, !.year = @ + 1]

LEMMA SetTime ==
    ASSUME NEW d \in DateRecord, NEW h \in Nat, NEW m \in Nat
    PROVE  LET e == WithTime(d, h, m)
           IN  /\ e \in DateRecord /\ e.year = d.year /\ e.month = d.month /\ e.day = d.day
               /\ e.hour = h /\ e.minute = m /\ e.second = d.second
BY DEF DateRecord, WithTime

LEMMA SetHour ==
    ASSUME NEW d \in DateRecord
    PROVE  LET e == NextHour(d)
           IN  /\ e \in DateRecord
               /\ e.year = d.year /\ e.month = d.month /\ e.day = d.day
               /\ e.hour = d.hour + 1 /\ e.minute = 0 /\ e.second = d.second
<1>1. d.hour + 1 \in Nat
  BY DEF DateRecord
<1>2. \A n \in Nat : [d EXCEPT !.minute = 0, !.hour = n] \in DateRecord
  BY DEF DateRecord
<1>3. LET e == [d EXCEPT !.minute = 0, !.hour = @ + 1]
      IN  /\ e.year = d.year /\ e.month = d.month /\ e.day = d.day
               /\ e.hour = d.hour + 1 /\ e.minute = 0 /\ e.second = d.second
  BY DEF DateRecord
<1> QED
  BY <1>1, <1>2, <1>3 DEF NextHour

LEMMA SetMonth ==
    ASSUME NEW d \in DateRecord
    PROVE  LET e == FirstOfNextMonth(d)
           IN  /\ e \in DateRecord
               /\ e.year = d.year /\ e.month = d.month + 1 /\ e.day = 1
               /\ e.hour = d.hour /\ e.minute = d.minute /\ e.second = d.second
<1>1. d.month + 1 \in Nat
  BY DEF DateRecord
<1>2. \A n \in Nat : [d EXCEPT !.day = 1, !.month = n] \in DateRecord
  BY DEF DateRecord
<1>3. LET e == [d EXCEPT !.day = 1, !.month = @ + 1]
      IN  /\ e.year = d.year /\ e.month = d.month + 1 /\ e.day = 1
               /\ e.hour = d.hour /\ e.minute = d.minute /\ e.second = d.second
  BY DEF DateRecord
<1> QED
  BY <1>1, <1>2, <1>3 DEF FirstOfNextMonth

LEMMA SetYear ==
    ASSUME NEW d \in DateRecord
    PROVE  LET e == FirstOfNextYear(d)
           IN  /\ e \in DateRecord
               /\ e.year = d.year + 1 /\ e.month = 1 /\ e.day = 1
               /\ e.hour = d.hour /\ e.minute = d.minute /\ e.second = d.second
<1>1. d.year + 1 \in Nat
  BY DEF DateRecord
<1>2. \A n \in Nat : [d EXCEPT !.day = 1, !.month = 1, !.year = n] \in DateRecord
  BY DEF DateRecord
<1>3. LET e == [d EXCEPT !.day = 1, !.month = 1, !.year = @ + 1]
      IN  /\ e.year = d.year + 1 /\ e.month = 1 /\ e.day = 1
               /\ e.hour = d.hour /\ e.minute = d.minute /\ e.second = d.second
  BY DEF DateRecord
<1> QED
  BY <1>1, <1>2, <1>3 DEF FirstOfNextYear

LEMMA SetMidnight ==
    ASSUME NEW d \in DateRecord
    PROVE  LET e == Midnight(d)
           IN  /\ e \in DateRecord /\ e.year = d.year /\ e.month = d.month /\ e.day = d.day
               /\ e.hour = 0 /\ e.minute = 0 /\ e.second = d.second
BY DEF DateRecord, Midnight

LEMMA DateIsRecord ==
    ASSUME NEW d, IsDateTime(d)
    PROVE  d \in DateRecord
BY DEF IsDateTime, DateRecord

\* The fields of a date.
LEMMA DateFields ==
    ASSUME NEW d, IsDateTime(d)
    PROVE  /\ d.year \in Nat \ {0} /\ d.year <= 9998
           /\ d.month \in 1..12 /\ d.month \in Int /\ 1 <= d.month /\ d.month <= 12
           /\ d.day \in Nat /\ 1 <= d.day /\ d.day <= DaysIn(d.year, d.month)
           /\ d.hour \in Nat /\ d.hour <= 23
           /\ d.minute \in Nat /\ d.minute <= 59
           /\ d.second \in Nat /\ d.second <= 59
BY DEF IsDateTime

LEMMA DaysInType ==
    ASSUME NEW y \in Nat, NEW m \in 1..12
    PROVE  DaysIn(y, m) \in 28..31
BY DEF DaysIn

\* How many leap years there are up to a year grows by one in a leap year.
LEMMA LeapYears ==
    ASSUME NEW y \in Nat \ {0}
    PROVE  LET past == y - 1
           IN  y \div 4 - y \div 100 + y \div 400
                 = past \div 4 - past \div 100 + past \div 400
                     + (IF LeapYear(y) THEN 1 ELSE 0)
<1> DEFINE past == y - 1
<1>1. y \div 4 = past \div 4 + (IF y % 4 = 0 THEN 1 ELSE 0)
  OBVIOUS
<1>2. y \div 100 = past \div 100 + (IF y % 100 = 0 THEN 1 ELSE 0)
  OBVIOUS
<1>3. y \div 400 = past \div 400 + (IF y % 400 = 0 THEN 1 ELSE 0)
  OBVIOUS
<1>4. (y % 400 = 0 => y % 100 = 0) /\ (y % 100 = 0 => y % 4 = 0)
  OBVIOUS
<1> QED
  BY <1>1, <1>2, <1>3, <1>4 DEF LeapYear

LEMMA DaysBeforeType ==
    ASSUME NEW y \in Nat \ {0}, NEW m \in 1..12
    PROVE  DaysBefore(y, m) \in Int
BY DEF DaysBefore

\* The days before the next month are those before this one and its own.
LEMMA NextMonth ==
    ASSUME NEW y \in Nat \ {0}, NEW m \in 1..11
    PROVE  DaysBefore(y, m + 1) = DaysBefore(y, m) + DaysIn(y, m)
BY DEF DaysBefore, DaysIn

\* Likewise across the end of a year.
LEMMA NextYear ==
    ASSUME NEW y \in Nat \ {0}
    PROVE  DaysBefore(y + 1, 1) = DaysBefore(y, 12) + DaysIn(y, 12)
BY LeapYears DEF DaysBefore, DaysIn

\* A year is as long as its months.
LEMMA YearLength ==
    ASSUME NEW y \in Nat \ {0}
    PROVE  DaysBefore(y + 1, 1) = DaysBefore(y, 1) + 365 + (IF LeapYear(y) THEN 1 ELSE 0)
BY LeapYears DEF DaysBefore

\* A day of a year comes before the next year's.
LEMMA WithinTheYear ==
    ASSUME NEW y \in Nat \ {0}, NEW m \in 1..12, NEW k \in Nat, k >= 1, k <= DaysIn(y, m)
    PROVE  /\ DaysBefore(y, 1) < DaysBefore(y, m) + k
           /\ DaysBefore(y, m) + k <= DaysBefore(y + 1, 1)
BY LeapYears DEF DaysBefore, DaysIn

LEMMA YearsInOrder ==
    ASSUME NEW y \in Nat \ {0}, NEW z \in Nat \ {0}, y < z
    PROVE  DaysBefore(y + 1, 1) <= DaysBefore(z, 1)
<1> DEFINE p == y  q == z - 1
           leaps(n) == n \div 4 - n \div 100 + n \div 400
<1>1. leaps(p) <= leaps(q)
  <2> DEFINE a == p \div 4  b == q \div 4
  <2>1. a \in Nat /\ b \in Nat /\ a <= b
    OBVIOUS
  <2>2. p \div 100 = a \div 25 /\ q \div 100 = b \div 25
    OBVIOUS
  <2>3. a - a \div 25 <= b - b \div 25
    <3> HIDE DEF a, b
    <3> QED  BY <2>1
  <2>4. p \div 400 <= q \div 400
    OBVIOUS
  <2> HIDE DEF a, b
  <2>5. a - p \div 100 <= b - q \div 100
    BY <2>2, <2>3
  <2> QED
    BY <2>4, <2>5 DEF a, b
<1>2. p \in Nat /\ q \in Nat /\ p <= q
  OBVIOUS
<1> QED
  BY <1>1, <1>2 DEF DaysBefore

LEMMA MonthsInOrder ==
    ASSUME NEW y \in Nat \ {0}, NEW m \in 1..12, NEW n \in 1..12, m < n
    PROVE  DaysBefore(y, m) + DaysIn(y, m) <= DaysBefore(y, n)
BY DEF DaysBefore, DaysIn

\* The day of a date is one of its year's.
LEMMA DayNumberType ==
    ASSUME NEW d, IsDateTime(d)
    PROVE  DayNumber(d) \in Int
BY DaysBeforeType, DateFields DEF DayNumber

\* Two dates of one day are of one year, month and day of the month.
LEMMA SameDay ==
    ASSUME NEW a, IsDateTime(a), NEW b, IsDateTime(b), DayNumber(a) = DayNumber(b)
    PROVE  a.year = b.year /\ a.month = b.month /\ a.day = b.day
<1>1. ASSUME NEW c, IsDateTime(c), NEW d, IsDateTime(d), DayNumber(c) = DayNumber(d)
      PROVE  ~(c.year < d.year)
  <2>1. DaysBefore(c.year, c.month) + c.day <= DaysBefore(c.year + 1, 1)
    BY <1>1, DateFields, WithinTheYear
  <2>2. DaysBefore(d.year, 1) < DaysBefore(d.year, d.month) + d.day
    BY <1>1, DateFields, WithinTheYear
  <2>3. c.year < d.year => DaysBefore(c.year + 1, 1) <= DaysBefore(d.year, 1)
    BY <1>1, DateFields, YearsInOrder
  <2>4. /\ DaysBefore(c.year + 1, 1) \in Int /\ DaysBefore(d.year, 1) \in Int
        /\ DaysBefore(c.year, c.month) \in Int /\ DaysBefore(d.year, d.month) \in Int
        /\ c.day \in Int /\ d.day \in Int
    BY <1>1, DateFields, DaysBeforeType
  <2> QED
    BY <1>1, <2>1, <2>2, <2>3, <2>4 DEF DayNumber
<1>2. a.year = b.year
  BY <1>1, DateFields
<1>3. ASSUME NEW c, IsDateTime(c), NEW d, IsDateTime(d), DayNumber(c) = DayNumber(d),
             c.year = d.year
      PROVE  ~(c.month < d.month)
  <2>1. c.month < d.month =>
          DaysBefore(c.year, c.month) + DaysIn(c.year, c.month) <= DaysBefore(d.year, d.month)
    BY <1>3, DateFields, MonthsInOrder
  <2>2. /\ DaysBefore(c.year, c.month) \in Int /\ DaysBefore(d.year, d.month) \in Int
        /\ DaysIn(c.year, c.month) \in Int
    BY <1>3, DateFields, DaysBeforeType, DaysInType
  <2> QED
    BY <1>3, <2>1, <2>2, DateFields DEF DayNumber
<1>4. a.month = b.month
  BY <1>2, <1>3, DateFields
<1> QED
  BY <1>2, <1>4, DateFields, DaysBeforeType DEF DayNumber

\* There is no later day than the last.
Last(d) == d.year = 9998 /\ d.month = 12 /\ d.day = 31

LEMMA NoLaterDay ==
    ASSUME NEW a, IsDateTime(a), Last(a), NEW b, IsDateTime(b)
    PROVE  DayNumber(b) <= DayNumber(a)
<1>1. DaysBefore(b.year, b.month) + b.day <= DaysBefore(b.year + 1, 1)
  BY DateFields, WithinTheYear
<1>2. DaysBefore(b.year + 1, 1) <= DaysBefore(9999, 1)
  <2>1. CASE b.year < 9998
    BY <2>1, DateFields, YearsInOrder, YearLength, DaysBeforeType
  <2> QED  BY <2>1, DateFields, DaysBeforeType
<1>3. DaysBefore(9999, 1) = DayNumber(a)
  BY NextYear DEF Last, DayNumber, DaysIn
<1> QED
  BY <1>1, <1>2, <1>3, DateFields, DaysBeforeType DEF DayNumber

\* NextDay is the calendar's next day, at the same time.
LEMMA NextDayIsNext ==
    ASSUME NEW d, IsDateTime(d), ~Last(d)
    PROVE  /\ IsDateTime(NextDay(d))
           /\ DayNumber(NextDay(d)) = DayNumber(d) + 1
           /\ NextDay(d).hour = d.hour /\ NextDay(d).minute = d.minute
           /\ NextDay(d).second = d.second
<1> USE DateFields
<1>1. CASE d.day < DaysIn(d.year, d.month)
  BY <1>1, DaysInType, DaysBeforeType DEF NextDay, IsDateTime, DayNumber
<1>2. CASE ~(d.day < DaysIn(d.year, d.month)) /\ d.month < 12
  <2>1. d.day = DaysIn(d.year, d.month) /\ DaysIn(d.year, d.month + 1) >= 1
    BY <1>2, DaysInType
  <2>2. DaysBefore(d.year, d.month + 1) = DaysBefore(d.year, d.month) + d.day
    BY <1>2, <2>1, NextMonth
  <2>3. NextDay(d) = FirstOfNextMonth(d)
    BY <1>2 DEF NextDay, FirstOfNextMonth
  <2>4. /\ NextDay(d) \in DateRecord
        /\ NextDay(d).year = d.year /\ NextDay(d).month = d.month + 1
        /\ NextDay(d).day = 1 /\ NextDay(d).hour = d.hour
        /\ NextDay(d).minute = d.minute /\ NextDay(d).second = d.second
    BY <2>3, SetMonth, DateIsRecord
  <2>5. IsDateTime(NextDay(d))
    BY <1>2, <2>1, <2>4 DEF IsDateTime, DateRecord
  <2> QED
    BY <2>2, <2>4, <2>5, DaysBeforeType DEF DayNumber
<1>3. CASE ~(d.day < DaysIn(d.year, d.month)) /\ d.month = 12
  <2>1. d.day = DaysIn(d.year, 12) /\ d.day = 31 /\ DaysIn(d.year + 1, 1) = 31
    BY <1>3 DEF DaysIn
  <2>2. DaysBefore(d.year + 1, 1) = DaysBefore(d.year, 12) + d.day
    BY <1>3, <2>1, NextYear
  <2>3. NextDay(d) = FirstOfNextYear(d)
    BY <1>3 DEF NextDay, FirstOfNextYear
  <2>4. d.year < 9998
    BY <1>3, <2>1 DEF Last
  <2>5. /\ NextDay(d) \in DateRecord
        /\ NextDay(d).year = d.year + 1 /\ NextDay(d).month = 1
        /\ NextDay(d).day = 1 /\ NextDay(d).hour = d.hour
        /\ NextDay(d).minute = d.minute /\ NextDay(d).second = d.second
    BY <2>3, SetYear, DateIsRecord
  <2>6. IsDateTime(NextDay(d))
    BY <1>3, <2>1, <2>4, <2>5 DEF IsDateTime, DateRecord
  <2> QED
    BY <1>3, <2>2, <2>5, <2>6, DaysBeforeType DEF DayNumber
<1> QED
  BY <1>1, <1>2, <1>3

LEMMA TimeOfDay ==
    ASSUME NEW total \in Nat, total <= 1499
    PROVE  \E h \in Nat, m \in Nat :
              /\ h <= 23 /\ m <= 59
              /\ (total % 1440) \div 60 = h /\ total % 60 = m
              /\ 60 * h + m = total - (IF total < 1440 THEN 0 ELSE 1440)
<1>1. total % 1440 = total - (IF total < 1440 THEN 0 ELSE 1440)
  OBVIOUS
<1> DEFINE h == (total % 1440) \div 60  m == total % 60
<1>2. 60 * h + m = total - (IF total < 1440 THEN 0 ELSE 1440)
  BY <1>1
<1>3. h \in Nat /\ h <= 23 /\ m \in Nat /\ m <= 59
  OBVIOUS
<1> QED
  BY <1>2, <1>3

\* datetime + timedelta is as many minutes later as it says.
LEMMA PlusMinutesAreAsMany ==
    ASSUME NEW d, IsDateTime(d), NEW m \in 1..60,
           60 * d.hour + d.minute + m >= 1440 => ~Last(d)
    PROVE  /\ IsDateTime(PlusMinutes(d, m))
           /\ MinutesBetween(d, PlusMinutes(d, m)) = m
           /\ PlusMinutes(d, m).second = d.second
<1> DEFINE total == 60 * d.hour + d.minute + m
           day == IF total < 1440 THEN d ELSE NextDay(d)
<1>1. total \in Nat /\ total <= 1499
  BY DateFields
<1>2. PICK h \in Nat, k \in Nat :
        /\ h <= 23 /\ k <= 59
        /\ (total % 1440) \div 60 = h /\ total % 60 = k
        /\ 60 * h + k = total - (IF total < 1440 THEN 0 ELSE 1440)
  BY <1>1, TimeOfDay
<1>3. total = 60 * d.hour + d.minute + m
  OBVIOUS
<1>4. PlusMinutes(d, m) = WithTime(day, (total % 1440) \div 60, total % 60)
  BY DEF PlusMinutes, WithTime
<1>5. (total < 1440 => day = d) /\ (total >= 1440 => day = NextDay(d))
  BY <1>1
<1>6. total >= 1440 => ~Last(d)
  OBVIOUS
<1> HIDE DEF day, total
<1>7. /\ IsDateTime(day) /\ day.second = d.second
      /\ DayNumber(day) = DayNumber(d) + (IF total < 1440 THEN 0 ELSE 1)
  <2>1. CASE total < 1440
    BY <1>5, <2>1, DayNumberType
  <2>2. CASE total >= 1440
    BY <1>1, <1>5, <1>6, <2>2, NextDayIsNext
  <2> QED  BY <1>1, <2>1, <2>2
<1>8. /\ PlusMinutes(d, m) \in DateRecord
      /\ PlusMinutes(d, m).year = day.year /\ PlusMinutes(d, m).month = day.month
      /\ PlusMinutes(d, m).day = day.day /\ PlusMinutes(d, m).second = day.second
      /\ PlusMinutes(d, m).hour = h /\ PlusMinutes(d, m).minute = k
  <2>1. PlusMinutes(d, m) = WithTime(day, h, k)
    BY <1>2, <1>4
  <2>2. day \in DateRecord /\ h \in Nat /\ k \in Nat
    BY <1>2, <1>7, DateIsRecord
  <2>3. LET e == WithTime(day, h, k)
        IN  /\ e \in DateRecord /\ e.year = day.year /\ e.month = day.month
            /\ e.day = day.day /\ e.hour = h /\ e.minute = k
            /\ e.second = day.second
    BY <2>2 DEF WithTime, DateRecord
  <2> QED  BY <2>1, <2>3
<1>9. IsDateTime(PlusMinutes(d, m)) /\ DayNumber(PlusMinutes(d, m)) = DayNumber(day)
  BY <1>2, <1>7, <1>8 DEF IsDateTime, DayNumber, DateRecord
<1>10. MinutesBetween(d, PlusMinutes(d, m))
         = 1440 * (DayNumber(day) - DayNumber(d)) + 60 * (h - d.hour) + k - d.minute
  BY <1>8, <1>9 DEF MinutesBetween
<1>11. DayNumber(day) - DayNumber(d) = IF total < 1440 THEN 0 ELSE 1
  BY <1>7, DayNumberType
<1>12. d.hour \in Int /\ d.minute \in Int
  BY DateFields
<1>13. MinutesBetween(d, PlusMinutes(d, m)) = m
  <2> DEFINE hd == d.hour  mi == d.minute  days == DayNumber(day) - DayNumber(d)
  <2>1. hd \in Int /\ mi \in Int /\ total = 60 * hd + mi + m
    BY <1>3, <1>12
  <2>2. days = IF total < 1440 THEN 0 ELSE 1
    BY <1>11
  <2>3. MinutesBetween(d, PlusMinutes(d, m)) = 1440 * days + 60 * (h - hd) + k - mi
    BY <1>10
  <2> HIDE DEF hd, mi, days
  <2> QED  BY <1>1, <1>2, <2>1, <2>2, <2>3
<1> QED
  BY <1>7, <1>8, <1>9, <1>13

\* The clock's own next minute is one minute later.
LEMMA NextMinuteIsNext ==
    ASSUME NEW d, IsDateTime(d), d.hour = 23 /\ d.minute = 59 => ~Last(d)
    PROVE  /\ IsDateTime(NextMinute(d))
           /\ NextMinute(d).second = d.second
           /\ \A e : IsDateTime(e) => MinutesBetween(NextMinute(d), e) = MinutesBetween(d, e) - 1
<1> USE DateFields, DayNumberType
<1>1. CASE d.minute < 59
  <2>1. /\ IsDateTime(NextMinute(d)) /\ NextMinute(d).second = d.second
        /\ NextMinute(d).minute = d.minute + 1 /\ NextMinute(d).hour = d.hour
        /\ DayNumber(NextMinute(d)) = DayNumber(d)
    BY <1>1 DEF NextMinute, IsDateTime, DayNumber
  <2> QED  BY <2>1 DEF MinutesBetween
<1>2. CASE ~(d.minute < 59) /\ d.hour < 23
  <2>1. /\ IsDateTime(NextMinute(d)) /\ NextMinute(d).second = d.second
        /\ NextMinute(d).minute = 0 /\ d.minute = 59 /\ NextMinute(d).hour = d.hour + 1
        /\ DayNumber(NextMinute(d)) = DayNumber(d)
    <3>1. NextMinute(d) = NextHour(d)
      BY <1>2 DEF NextMinute, NextHour
    <3>2. /\ NextMinute(d) \in DateRecord
          /\ NextMinute(d).year = d.year /\ NextMinute(d).month = d.month
          /\ NextMinute(d).day = d.day /\ NextMinute(d).hour = d.hour + 1
          /\ NextMinute(d).minute = 0 /\ NextMinute(d).second = d.second
      BY <3>1, SetHour, DateIsRecord
    <3> QED
      BY <1>2, <3>2 DEF IsDateTime, DayNumber, DateRecord
  <2> QED  BY <2>1 DEF MinutesBetween
<1>3. CASE ~(d.minute < 59) /\ ~(d.hour < 23)
  <2> DEFINE midnight == Midnight(d)
  <2>1. /\ IsDateTime(midnight) /\ midnight.second = d.second /\ ~Last(midnight)
        /\ midnight.minute = 0 /\ midnight.hour = 0 /\ d.minute = 59 /\ d.hour = 23
        /\ DayNumber(midnight) = DayNumber(d)
    <3>1. /\ midnight \in DateRecord
          /\ midnight.year = d.year /\ midnight.month = d.month
          /\ midnight.day = d.day /\ midnight.hour = 0
          /\ midnight.minute = 0 /\ midnight.second = d.second
      BY SetMidnight, DateIsRecord
    <3>2. d.minute = 59 /\ d.hour = 23
      BY <1>3
    <3> HIDE DEF midnight
    <3> QED
      BY <3>1, <3>2 DEF IsDateTime, DayNumber, DateRecord, Last
  <2>2. NextMinute(d) = NextDay(midnight)
    BY <1>3 DEF NextMinute, Midnight
  <2> HIDE DEF midnight
  <2>3. /\ IsDateTime(NextMinute(d)) /\ NextMinute(d).second = d.second
        /\ NextMinute(d).minute = 0 /\ NextMinute(d).hour = 0
        /\ DayNumber(NextMinute(d)) = DayNumber(d) + 1
    BY <2>1, <2>2, NextDayIsNext
  <2> QED  BY <2>1, <2>3 DEF MinutesBetween
<1> QED
  BY <1>1, <1>2, <1>3

\* A clock with a date still to come has a next minute.
LEMMA SomethingToCome ==
    ASSUME NEW a, IsDateTime(a), NEW b, IsDateTime(b), MinutesBetween(a, b) > 0
    PROVE  a.hour = 23 /\ a.minute = 59 => ~Last(a)
BY NoLaterDay, DateFields, DayNumberType DEF MinutesBetween

\* Dates no minutes apart are the same, to the second.
LEMMA NoTimeApart ==
    ASSUME NEW days \in Int,
           NEW h1 \in Nat, h1 <= 23, NEW h2 \in Nat, h2 <= 23,
           NEW m1 \in Nat, m1 <= 59, NEW m2 \in Nat, m2 <= 59,
           1440 * days + 60 * (h2 - h1) + m2 - m1 = 0
    PROVE  days = 0 /\ h1 = h2 /\ m1 = m2
OBVIOUS

LEMMA NoMinutesApart ==
    ASSUME NEW a, IsDateTime(a), NEW b, IsDateTime(b),
           MinutesBetween(a, b) = 0, a.second = b.second
    PROVE  a = b
<1>1. DayNumber(b) - DayNumber(a) = 0 /\ a.hour = b.hour /\ a.minute = b.minute
  <2> DEFINE days == DayNumber(b) - DayNumber(a)
             h1 == a.hour  h2 == b.hour  m1 == a.minute  m2 == b.minute
  <2>1. /\ days \in Int /\ h1 \in Nat /\ h1 <= 23 /\ h2 \in Nat /\ h2 <= 23
        /\ m1 \in Nat /\ m1 <= 59 /\ m2 \in Nat /\ m2 <= 59
    BY DateFields, DayNumberType
  <2>2. 1440 * days + 60 * (h2 - h1) + m2 - m1 = 0
    BY DEF MinutesBetween
  <2> HIDE DEF days, h1, h2, m1, m2
  <2>3. days = 0 /\ h1 = h2 /\ m1 = m2
    BY <2>1, <2>2, NoTimeApart
  <2> QED  BY <2>3 DEF days, h1, h2, m1, m2
<1>2. a.year = b.year /\ a.month = b.month /\ a.day = b.day
  BY <1>1, SameDay, DayNumberType
<1> QED
  BY <1>1, <1>2 DEF IsDateTime

LEMMA NoneBetween ==
    ASSUME NEW a, IsDateTime(a)
    PROVE  MinutesBetween(a, a) = 0
BY DateFields, DayNumberType DEF MinutesBetween

-----------------------------------------------------------------------------
(* Reading and writing dates.                                               *)

LEMMA NamesOfMonths ==
    ASSUME NEW m \in 1..12
    PROVE  MonthName[m] \in MonthNames /\ MonthNumber(MonthName[m]) = m
<1>1. \A n \in 1..12 : MonthName[n] = MonthName[m] => n = m
  BY DEF MonthName
<1> QED
  BY <1>1 DEF MonthNumber, MonthNames

LEMMA ReadingOf ==
    ASSUME NEW d, IsDateTime(d),
           NEW time, time.hour = d.hour, time.minute = d.minute, time.second = d.second
    PROVE  Reading(d.year, d.month, d.day, time) = d
<1>1. d = [year |-> d.year, month |-> d.month, day |-> d.day,
           hour |-> d.hour, minute |-> d.minute, second |-> d.second]
  BY DEF IsDateTime
<1> QED
  BY <1>1 DEF Reading

\* parse_ros_datetime reads back what format_ros_date_time writes.
THEOREM ParseInvertsFormat ==
    ASSUME NEW d, IsDateTime(d)
    PROVE  ParseRosDateTime(FormatRosDateTime(d)[1], FormatRosDateTime(d)[2]) = d
<1> DEFINE date == FormatRosDateTime(d)[1]  time == FormatRosDateTime(d)[2]
<1>1. /\ date.form = "abbreviated" /\ date.year = d.year /\ date.month = MonthName[d.month]
      /\ date.day = d.day
      /\ time.hour = d.hour /\ time.minute = d.minute /\ time.second = d.second
  BY DEF FormatRosDateTime
<1> HIDE DEF date, time
<1>2. date.month \in MonthNames /\ MonthNumber(date.month) = d.month
  BY <1>1, DateFields, NamesOfMonths
<1>3. ParseRosDateTime(date, time) = Reading(date.year, MonthNumber(date.month), date.day, time)
  BY <1>1, <1>2 DEF ParseRosDateTime
<1>4. ParseRosDateTime(date, time) = d
  BY <1>1, <1>2, <1>3, ReadingOf
<1> QED
  BY <1>4 DEF date, time

\* It reads what the device renders, or says that it cannot.
LEMMA ParseIsTheClockOrNothing ==
    ASSUME NEW d, IsDateTime(d), NEW how \in Forms
    PROVE  ParseRosDateTime(Rendered(d, how)[1], Rendered(d, how)[2])
             = IF how = "other" THEN NotADate ELSE d
<1> DEFINE date == Rendered(d, how)[1]  time == Rendered(d, how)[2]
<1>1. time.hour = d.hour /\ time.minute = d.minute /\ time.second = d.second
  BY DEF Rendered
<1>2. CASE how = "abbreviated"
  <2>1. date = FormatRosDateTime(d)[1] /\ time = FormatRosDateTime(d)[2]
    BY <1>2 DEF Rendered, FormatRosDateTime
  <2> QED  BY <1>2, <2>1, ParseInvertsFormat
<1>3. CASE how # "abbreviated"
  <2>1. /\ date.form = how /\ date.year = d.year /\ date.month = d.month
        /\ date.day = d.day
    BY <1>3 DEF Rendered
  <2> HIDE DEF date, time
  <2>2. CASE how = "iso"
    <3>1. ParseRosDateTime(date, time) = Reading(d.year, d.month, d.day, time)
      BY <2>1, <2>2 DEF ParseRosDateTime
    <3>2. ParseRosDateTime(date, time) = d
      BY <1>1, <3>1, ReadingOf
    <3> QED  BY <2>2, <3>2 DEF date, time
  <2>3. CASE how = "other"
    <3>1. ParseRosDateTime(date, time) = NotADate
      BY <2>1, <2>3 DEF ParseRosDateTime
    <3> QED  BY <2>3, <3>1 DEF date, time
  <2> QED  BY <1>3, <2>2, <2>3 DEF Forms
<1> QED
  BY <1>2, <1>3

-----------------------------------------------------------------------------
(* The life of a dead-man.                                                  *)

Clocks == clock \in InitClocks /\ elapsed = 0 /\ shift = 0 /\ ~armed /\ ~fired

\* What each step of the call and of the entry leaves behind: a start that is
\* written is a date the minutes left to it away from the clock, and never
\* behind it.
EntryInv ==
    /\ pc = "clock" => start = NoStart /\ Clocks
    /\ pc = "add" => start # NoStart /\ Clocks
    /\ armed => start # NoStart
    /\ start # NoStart /\ pc = "ended" => armed
    /\ armed => ~fired
    /\ start # NoStart =>
          /\ start = FormatRosDateTime(Due(start))
          /\ Due(start).second = clock.second
          /\ MinutesBetween(clock, Due(start)) >= 0
    /\ fired /\ shift = 0 => elapsed = minutes

IInv == TypeOK /\ EntryInv /\ NeverAGuess

\* An entry can be told from none, and holds the date it was written for.
LEMMA Written ==
    ASSUME NEW d, IsDateTime(d)
    PROVE  FormatRosDateTime(d) # NoStart /\ Due(FormatRosDateTime(d)) = d
<1>1. FormatRosDateTime(d)[1].form = "abbreviated"
  BY DEF FormatRosDateTime
<1>2. NoStart[1].form = "other"
  BY DEF NoStart, Rendered
<1> QED
  BY <1>1, <1>2, ParseInvertsFormat DEF Due

\* The deadline computed from a clock that may be read.
LEMMA DeadlineIsLater ==
    ASSUME NEW c \in InitClocks, NEW w \in Minutes
    PROVE  /\ IsDateTime(Deadline(c, w))
           /\ MinutesBetween(c, Deadline(c, w)) = w
           /\ Deadline(c, w).second = c.second
<1>1. IsDateTime(c) /\ ~Last(c) /\ w \in 1..60
  BY DeadManDeadlineConstants, DateFields DEF Last
<1> QED
  BY <1>1, PlusMinutesAreAsMany DEF Deadline

LEMMA MinutesType ==
    ASSUME NEW a, IsDateTime(a), NEW b, IsDateTime(b)
    PROVE  MinutesBetween(a, b) \in Int
BY DateFields, DayNumberType DEF MinutesBetween

\* A minute in which nothing is due brings an armed entry a minute closer.
LEMMA MinuteIsOneLess ==
    ASSUME IInv, MinutePasses
    PROVE  /\ IsDateTime(Due(start))
           /\ IsDateTime(NextMinute(clock))
           /\ NextMinute(clock).second = Due(start).second
           /\ MinutesBetween(clock, Due(start)) > 0
           /\ MinutesBetween(NextMinute(clock), Due(start))
                = MinutesBetween(clock, Due(start)) - 1
<1>1. start # NoStart /\ IsDateTime(Due(start)) /\ IsDateTime(clock)
  BY DEF IInv, TypeOK, EntryInv, MinutePasses
<1>2. Due(start).second = clock.second /\ MinutesBetween(clock, Due(start)) >= 0
  BY <1>1 DEF IInv, EntryInv
<1>3. MinutesBetween(clock, Due(start)) # 0
  BY <1>1, <1>2, NoMinutesApart DEF MinutePasses
<1>4. MinutesBetween(clock, Due(start)) > 0
  BY <1>1, <1>2, <1>3, MinutesType
<1>5. clock.hour = 23 /\ clock.minute = 59 => ~Last(clock)
  BY <1>1, <1>4, SomethingToCome
<1> QED
  BY <1>1, <1>2, <1>4, <1>5, NextMinuteIsNext

\* A clock put back by an hour shows one of the same day.
LEMMA AnHourBack ==
    ASSUME NEW d, IsDateTime(d), d.hour >= 1
    PROVE  LET e == [d EXCEPT !.hour = @ - 1]
           IN  /\ IsDateTime(e) /\ e.second = d.second
               /\ \A b : IsDateTime(b) => MinutesBetween(e, b) = MinutesBetween(d, b) + 60
<1> DEFINE e == [d EXCEPT !.hour = @ - 1]
<1>1. d.hour - 1 \in Nat /\ d.hour - 1 <= 23
  BY DateFields
<1>2. \A n \in Nat : [d EXCEPT !.hour = n] \in DateRecord
  BY DateIsRecord DEF DateRecord
<1>3. e \in DateRecord
  BY <1>1, <1>2
<1>4. /\ e.year = d.year /\ e.month = d.month /\ e.day = d.day
      /\ e.hour = d.hour - 1 /\ e.minute = d.minute /\ e.second = d.second
  BY DEF IsDateTime
<1> HIDE DEF e
<1>5. IsDateTime(e) /\ DayNumber(e) = DayNumber(d)
  BY <1>1, <1>3, <1>4 DEF IsDateTime, DayNumber, DateRecord
<1>6. \A b : IsDateTime(b) => MinutesBetween(e, b) = MinutesBetween(d, b) + 60
  BY <1>4, <1>5, DateFields, DayNumberType DEF MinutesBetween
<1> QED
  BY <1>4, <1>5, <1>6 DEF e

LEMMA IInvInit == Init => IInv
<1> SUFFICES ASSUME Init PROVE IInv
  OBVIOUS
<1>1. IsDateTime(clock) /\ Horizon \in Nat
  BY DeadManDeadlineConstants DEF Init
<1>2. TypeOK
  <2>1. 0 \in 0..Horizon
    BY <1>1
  <2> QED  BY <1>1, <2>1 DEF Init, TypeOK
<1>3. EntryInv
  BY DEF Init, EntryInv, Clocks
<1>4. NeverAGuess
  BY DEF Init, NeverAGuess
<1> QED
  BY <1>2, <1>3, <1>4 DEF IInv

LEMMA ReadClockKeepsIInv == IInv /\ ReadClock => IInv'
<1> SUFFICES ASSUME IInv, ReadClock PROVE IInv'
  OBVIOUS
<1>1. /\ clock \in InitClocks /\ IsDateTime(clock) /\ form \in Forms /\ minutes \in Minutes
      /\ minutes \in Int /\ elapsed = 0 /\ shift = 0 /\ ~armed /\ ~fired /\ start = NoStart
  BY DeadManDeadlineConstants DEF IInv, TypeOK, EntryInv, Clocks, ReadClock
<1> DEFINE now == Now(Rendered(clock, form))
<1>2. now = NotADate \/ now = clock
  BY <1>1, ParseIsTheClockOrNothing DEF Now
<1>3. CASE now = NotADate /\ pc' = "ended" /\ UNCHANGED start
  BY <1>1, <1>3 DEF IInv, TypeOK, EntryInv, NeverAGuess, ReadClock, Clocks
<1>4. CASE now # NotADate /\ pc' = "add" /\ start' = FormatRosDateTime(Deadline(now, minutes))
  <2> DEFINE dl == Deadline(clock, minutes)
  <2>1. IsDateTime(dl) /\ MinutesBetween(clock, dl) = minutes /\ dl.second = clock.second
    BY <1>1, DeadlineIsLater
  <2>2. start' = FormatRosDateTime(dl)
    BY <1>2, <1>4
  <2> HIDE DEF dl
  <2>3. start' # NoStart /\ Due(start') = dl
    BY <2>1, <2>2, Written
  <2>4. UNCHANGED <<clock, form, minutes, armed, shift, elapsed, fired>>
    BY DEF ReadClock
  <2>5. minutes >= 1
    BY <1>1, DeadManDeadlineConstants
  <2>6. TypeOK'
    BY <1>1, <1>4, <2>1, <2>3, <2>4 DEF IInv, TypeOK, Due
  <2>7. EntryInv'
    BY <1>1, <1>4, <2>1, <2>2, <2>3, <2>4, <2>5 DEF EntryInv, Clocks, Due
  <2>8. NeverAGuess'
    BY <1>1, <2>1, <2>3, <2>4 DEF NeverAGuess, Due
  <2> QED  BY <2>6, <2>7, <2>8 DEF IInv
<1> QED
  BY <1>3, <1>4 DEF ReadClock

\* Minutes add up.
LEMMA MinutesAdd ==
    ASSUME NEW a, IsDateTime(a), NEW b, IsDateTime(b), NEW c, IsDateTime(c)
    PROVE  MinutesBetween(a, c) = MinutesBetween(a, b) + MinutesBetween(b, c)
BY DateFields, DayNumberType DEF MinutesBetween

\* What moving the clock may make of the shift.
LEMMA ShiftType ==
    ASSUME TypeOK
    PROVE  shift \in Int
BY DeadManDeadlineConstants DEF TypeOK

\* A minute in which the entry stays leaves it the minutes that remain.
LEMMA StaysAhead ==
    ASSUME IInv, MinutePasses, UNCHANGED <<start, armed, fired>>,
           IsDateTime(clock'), clock'.second = Due(start).second,
           shift' \in Forward \cup {0, -60}, shift = 0 \/ shift' = shift,
           MinutesBetween(clock', Due(start)) >= 0,
           MinutesBetween(clock', Due(start))
             = MinutesBetween(clock, Due(start)) - 1 - (shift' - shift),
           shift' = 0 => shift = 0
    PROVE  IInv'
<1> DEFINE due == Due(start)
           was == MinutesBetween(clock, due)
<1>1. /\ was \in Int /\ IsDateTime(due) /\ start # NoStart
      /\ was = minutes - elapsed - shift
      /\ elapsed \in Nat /\ elapsed < Horizon /\ Horizon \in Nat /\ minutes \in Int
  BY DeadManDeadlineConstants, MinutesType, MinuteIsOneLess
  DEF IInv, TypeOK, EntryInv, NeverAGuess, MinutePasses
<1>2. /\ elapsed' = elapsed + 1 /\ pc = "ended" /\ armed /\ ~fired
      /\ UNCHANGED <<form, pc, minutes>> /\ Due(start)' = due
  BY DEF MinutePasses, IInv, EntryInv, Due
<1>3. shift \in Int /\ shift' \in Int
  BY ShiftType, DeadManDeadlineConstants DEF IInv
<1>4. MinutesBetween(clock', due) = minutes - elapsed' - shift'
  <2> HIDE DEF due, was
  <2>1. MinutesBetween(clock', due) = was - 1 - (shift' - shift)
    BY DEF due, was
  <2> QED  BY <1>1, <1>2, <1>3, <2>1
<1>5. TypeOK'
  <2>1. elapsed' \in 0..Horizon
    BY <1>1, <1>2
  <2> QED  BY <1>1, <1>2, <2>1 DEF IInv, TypeOK
<1>6. EntryInv'
  BY <1>1, <1>2 DEF IInv, EntryInv
<1>7. NeverAGuess'
  BY <1>2, <1>4 DEF NeverAGuess
<1> QED
  BY <1>5, <1>6, <1>7 DEF IInv

LEMMA TickKeepsIInv == IInv /\ Tick => IInv'
<1> SUFFICES ASSUME IInv, Tick PROVE IInv'
  OBVIOUS
<1>1. MinutePasses /\ clock' = NextMinute(clock) /\ UNCHANGED <<start, armed, shift, fired>>
  BY DEF Tick
<1>2. /\ IsDateTime(clock') /\ clock'.second = Due(start).second
      /\ MinutesBetween(clock, Due(start)) > 0
      /\ MinutesBetween(clock', Due(start)) = MinutesBetween(clock, Due(start)) - 1
      /\ MinutesBetween(clock, Due(start)) \in Int
  BY <1>1, MinuteIsOneLess, MinutesType DEF IInv, TypeOK
<1>3. shift \in Int /\ shift' = shift /\ shift' \in Forward \cup {0, -60}
  BY <1>1, ShiftType DEF IInv, TypeOK
<1>4. /\ MinutesBetween(clock', Due(start)) >= 0
      /\ MinutesBetween(clock', Due(start))
           = MinutesBetween(clock, Due(start)) - 1 - (shift' - shift)
  BY <1>2, <1>3
<1> QED
  BY <1>1, <1>2, <1>3, <1>4, StaysAhead

LEMMA PutBackKeepsIInv == IInv /\ PutBack => IInv'
<1> SUFFICES ASSUME IInv, PutBack PROVE IInv'
  OBVIOUS
<1> DEFINE next == NextMinute(clock)
<1>1. /\ MinutePasses /\ UNCHANGED <<start, armed, fired>>
      /\ shift = 0 /\ shift' = -60 /\ clock' = [next EXCEPT !.hour = @ - 1]
      /\ next.hour >= 1
  BY DeadManDeadlineConstants DEF PutBack, SummerEnds
<1>2. /\ IsDateTime(next) /\ IsDateTime(Due(start)) /\ next.second = Due(start).second
      /\ MinutesBetween(clock, Due(start)) > 0
      /\ MinutesBetween(next, Due(start)) = MinutesBetween(clock, Due(start)) - 1
      /\ MinutesBetween(clock, Due(start)) \in Int
  BY <1>1, MinuteIsOneLess, MinutesType DEF IInv, TypeOK
<1>3. /\ IsDateTime(clock') /\ clock'.second = Due(start).second
      /\ MinutesBetween(clock', Due(start)) = MinutesBetween(next, Due(start)) + 60
  BY <1>1, <1>2, AnHourBack
<1> HIDE DEF next
<1>4. /\ MinutesBetween(clock', Due(start)) >= 0
      /\ MinutesBetween(clock', Due(start))
           = MinutesBetween(clock, Due(start)) - 1 - (shift' - shift)
  BY <1>1, <1>2, <1>3
<1>5. shift' \in Forward \cup {0, -60} /\ (shift' = 0 => shift = 0)
  BY <1>1
<1> QED
  BY <1>1, <1>3, <1>4, <1>5, StaysAhead

\* The clock after it was put forward.
LEMMA PutForwardClock ==
    ASSUME IInv, NEW by \in Forward, PutForward(by)
    PROVE  /\ by \in 1..60
           /\ IsDateTime(clock') /\ clock'.second = Due(start).second
           /\ IsDateTime(Due(start)) /\ MinutesBetween(clock, Due(start)) \in Int
           /\ MinutesBetween(clock', Due(start))
                = MinutesBetween(clock, Due(start)) - 1 - by
<1> DEFINE next == NextMinute(clock)
<1>1. MinutePasses /\ clock' = PlusMinutes(next, by) /\ next.year < 9998
  BY DEF PutForward
<1>2. by \in 1..60 /\ by \in Int
  BY DeadManDeadlineConstants
<1>3. /\ IsDateTime(next) /\ IsDateTime(Due(start)) /\ next.second = Due(start).second
      /\ MinutesBetween(next, Due(start)) = MinutesBetween(clock, Due(start)) - 1
      /\ MinutesBetween(clock, Due(start)) \in Int
  BY <1>1, MinuteIsOneLess, MinutesType DEF IInv, TypeOK
<1>4. ~Last(next)
  BY <1>1, <1>3, DateFields DEF Last
<1> HIDE DEF next
<1>5. /\ IsDateTime(clock') /\ MinutesBetween(next, clock') = by
      /\ clock'.second = next.second
  BY <1>1, <1>2, <1>3, <1>4, PlusMinutesAreAsMany
<1>6. MinutesBetween(next, Due(start)) = by + MinutesBetween(clock', Due(start))
  BY <1>3, <1>5, MinutesAdd
<1>7. MinutesBetween(clock', Due(start)) \in Int
  BY <1>3, <1>5, MinutesType
<1> QED
  BY <1>2, <1>3, <1>5, <1>6, <1>7

LEMMA PutForwardKeepsIInv ==
    ASSUME IInv, NEW by \in Forward, PutForward(by)
    PROVE  IInv'
<1>1. /\ MinutePasses /\ shift = 0 /\ shift' = by
  BY DEF PutForward
<1>2. /\ by \in 1..60
      /\ IsDateTime(clock') /\ clock'.second = Due(start).second
      /\ MinutesBetween(clock, Due(start)) \in Int
      /\ MinutesBetween(clock', Due(start))
           = MinutesBetween(clock, Due(start)) - 1 - by
  BY PutForwardClock
<1>3. CASE MinutesBetween(clock', Due(start)) >= 0 /\ UNCHANGED <<start, armed, fired>>
  <2>1. MinutesBetween(clock', Due(start))
          = MinutesBetween(clock, Due(start)) - 1 - (shift' - shift)
    BY <1>1, <1>2
  <2> QED
    BY <1>1, <1>2, <1>3, <2>1, StaysAhead
<1>4. CASE start' = NoStart /\ armed' = FALSE /\ fired' \in BOOLEAN
  <2>1. /\ elapsed' = elapsed + 1 /\ pc = "ended" /\ UNCHANGED <<form, pc, minutes>>
        /\ elapsed < Horizon /\ elapsed \in Nat /\ Horizon \in Nat
    BY <1>1, DeadManDeadlineConstants DEF MinutePasses, IInv, TypeOK
  <2>2. elapsed' \in 0..Horizon /\ shift' # 0
    BY <1>1, <1>2, <2>1
  <2>3. TypeOK'
    BY <1>1, <1>2, <1>4, <2>1, <2>2 DEF IInv, TypeOK
  <2>4. EntryInv'
    BY <1>4, <2>1, <2>2 DEF EntryInv
  <2>5. NeverAGuess'
    BY <1>4 DEF NeverAGuess
  <2> QED  BY <2>3, <2>4, <2>5 DEF IInv
<1>5. \/ MinutesBetween(clock', Due(start)) >= 0 /\ UNCHANGED <<start, armed, fired>>
      \/ start' = NoStart /\ armed' = FALSE /\ fired' \in BOOLEAN
  <2>1. PutForward(by)
    OBVIOUS
  <2>2. \/ MinutesBetween(clock', Due(start)) >= 0 /\ UNCHANGED <<start, armed, fired>>
        \/ MinutesBetween(clock', Due(start)) < 0 /\ start' = NoStart /\ armed' = FALSE /\ fired' \in BOOLEAN
    BY <2>1 DEF PutForward
  <2> QED  BY <2>2
<1> QED
  BY <1>3, <1>4, <1>5

LEMMA IInvStep == IInv /\ [Next]_vars => IInv'
<1> SUFFICES ASSUME IInv, [Next]_vars PROVE IInv'
  OBVIOUS
<1>1. CASE ReadClock
  BY <1>1, ReadClockKeepsIInv
<1>2. CASE Add
  BY <1>2 DEF Add, IInv, TypeOK, EntryInv, NeverAGuess, Clocks, Due
<1>3. CASE NoAdd
  BY <1>3 DEF NoAdd, IInv, TypeOK, EntryInv, NeverAGuess, Clocks, Due
<1>4. CASE Fire
  <2>1. MinutesBetween(clock, Due(start)) = 0 /\ start # NoStart
    BY <1>4, NoneBetween DEF Fire, IInv, TypeOK, EntryInv
  <2>2. shift = 0 => elapsed = minutes
    BY <2>1, DeadManDeadlineConstants DEF IInv, TypeOK, NeverAGuess
  <2> QED
    BY <1>4, <2>2 DEF Fire, IInv, TypeOK, EntryInv, NeverAGuess, Clocks, Due
<1>5. CASE Tick
  BY <1>5, TickKeepsIInv
<1>6. CASE PutBack
  BY <1>6, PutBackKeepsIInv
<1>7. CASE \E by \in Forward : PutForward(by)
  BY <1>7, PutForwardKeepsIInv
<1>8. CASE UNCHANGED vars
  BY <1>8 DEF vars, IInv, TypeOK, EntryInv, NeverAGuess, Clocks, Due
<1> QED
  BY <1>1, <1>2, <1>3, <1>4, <1>5, <1>6, <1>7, <1>8 DEF Next, Moves

LEMMA IInvAlways == Spec => []IInv
BY IInvInit, IInvStep, PTL DEF Spec

\* The clock always shows a date of the calendar, and so does an entry.
THEOREM TypeCorrect == Spec => []TypeOK
<1>1. IInv => TypeOK
  BY DEF IInv
<1> QED
  BY <1>1, IInvAlways, PTL

\* _dead_man_deadline: what is written is the minutes asked for after the clock
\* that was read, whatever the day, the month, the year and the form.
THEOREM NeverAGuessAlways == Spec => []NeverAGuess
<1>1. IInv => NeverAGuess
  BY DEF IInv
<1> QED
  BY <1>1, IInvAlways, PTL

\* An entry fires when its minutes have passed, unless the clock is moved.
THEOREM FiresOnTimeOtherwiseAlways == Spec => []FiresOnTimeOtherwise
<1>1. IInv => FiresOnTimeOtherwise
  <2> SUFFICES ASSUME IInv, shift = 0 PROVE FiresOnTime
    BY DEF FiresOnTimeOtherwise
  <2>1. armed => elapsed <= minutes
    <3> SUFFICES ASSUME armed PROVE elapsed <= minutes
      OBVIOUS
    <3>1. MinutesBetween(clock, Due(start)) = minutes - elapsed
      BY DeadManDeadlineConstants DEF IInv, TypeOK, EntryInv, NeverAGuess
    <3>2. MinutesBetween(clock, Due(start)) >= 0
      BY DEF IInv, EntryInv
    <3> QED  BY <3>1, <3>2, DeadManDeadlineConstants DEF IInv, TypeOK
  <2> QED  BY <2>1 DEF FiresOnTime, IInv, EntryInv
<1> QED
  BY <1>1, IInvAlways, PTL

-----------------------------------------------------------------------------
(* The calendar implements a countdown.                                     *)

LEMMA TimerInit == Init => Timer!Init
BY DEF Init, Timer!Init, Timer!Off, Left

LEMMA TimerStep == IInv /\ IInv' /\ [Next]_vars => [Timer!Next]_Left
<1> SUFFICES ASSUME IInv, IInv', [Next]_vars PROVE Timer!Next \/ Left' = Left
  BY Zenon
<1> USE DEF Timer!Next, Timer!Off
<1>1. CASE ReadClock
  <2>1. Left = -1
    BY <1>1 DEF ReadClock, Left
  <2>2. CASE UNCHANGED start
    <3>1. Left' = -1
      BY <1>1, <2>2 DEF ReadClock, IInv, EntryInv, Left
    <3> QED  BY <2>1, <3>1
  <2>3. CASE pc' = "add"
    <3>1. (start # NoStart)' /\ elapsed' = 0 /\ shift' = 0 /\ minutes' \in Minutes
      BY <2>3 DEF IInv, TypeOK, EntryInv, Clocks
    <3>2. minutes' \in 1..60 /\ minutes' \in Int
      BY <3>1, DeadManDeadlineConstants
    <3>3. (start # NoStart => MinutesBetween(clock, Due(start))
                                = minutes - elapsed - shift)'
      BY DEF IInv, NeverAGuess
    <3> DEFINE left == MinutesBetween(clock, Due(start))'
    <3>5. left = minutes' - 0 - 0
      BY <3>1, <3>3
    <3> HIDE DEF left
    <3>6. left = minutes'
      <4>1. \A w \in Int : w - 0 - 0 = w
        OBVIOUS
      <4> QED  BY <3>2, <3>5, <4>1
    <3>4. Left' = minutes'
      BY <2>3, <3>1, <3>6 DEF Left, left
    <3> QED  BY <2>1, <3>2, <3>4 DEF Timer!Start
  <2> QED  BY <1>1, <2>2, <2>3 DEF ReadClock
<1>2. CASE Add
  BY <1>2 DEF Add, Left, Due
<1>3. CASE NoAdd
  <2>1. Left = minutes /\ minutes \in 1..60
    BY <1>3, DeadManDeadlineConstants
    DEF NoAdd, IInv, TypeOK, EntryInv, Clocks, NeverAGuess, Left
  <2>2. Left' = -1
    BY <1>3 DEF NoAdd, Left
  <2> QED  BY <2>1, <2>2 DEF Timer!Abandon
<1>4. CASE Fire
  <2>1. Left = 0
    BY <1>4, NoneBetween DEF Fire, IInv, TypeOK, EntryInv, Left
  <2>2. Left' = -1
    BY <1>4 DEF Fire, Left
  <2> QED  BY <2>1, <2>2 DEF Timer!Fire
<1>5. CASE Tick \/ PutBack
  <2>1. MinutePasses /\ UNCHANGED start
    BY <1>5 DEF Tick, PutBack
  <2>2. /\ start # NoStart /\ pc = "ended" /\ start' = start /\ pc' = pc /\ minutes' = minutes
        /\ elapsed' = elapsed + 1 /\ elapsed \in Int /\ minutes \in Int /\ shift \in Int
    BY <2>1, ShiftType, DeadManDeadlineConstants DEF MinutePasses, IInv, TypeOK, EntryInv
  <2>3. Left > 0 /\ Left \in Int
    BY <2>1, <2>2, MinuteIsOneLess, MinutesType DEF Left, IInv, TypeOK
  <2>4. Left = minutes - elapsed - shift
    BY <2>2 DEF Left, IInv, NeverAGuess
  <2>5. Left' = minutes - (elapsed + 1) - shift'
    BY <2>2 DEF Left, IInv, NeverAGuess
  <2>6. CASE shift' = shift
    <3>1. Left' = Left - 1
      BY <2>2, <2>4, <2>5, <2>6
    <3> QED  BY <2>3, <3>1 DEF Timer!Pass
  <2>7. CASE shift = 0 /\ shift' = -60
    <3>1. Left' = Left - 1 + 60
      BY <2>2, <2>4, <2>5, <2>7
    <3> QED  BY <2>3, <3>1 DEF Timer!Postpone
  <2> QED  BY <1>5, <2>6, <2>7 DEF Tick, PutBack, SummerEnds
<1>6. ASSUME NEW by \in Forward, PutForward(by)
      PROVE  Timer!Next
  <2>1. /\ MinutePasses /\ start # NoStart /\ pc = "ended" /\ pc' = pc
    BY <1>6 DEF PutForward, MinutePasses, IInv, EntryInv
  <2>2. Left > 0 /\ Left = MinutesBetween(clock, Due(start)) /\ Left \in Int
    BY <2>1, MinuteIsOneLess, MinutesType DEF Left, IInv, TypeOK
  <2>3. CASE MinutesBetween(clock', Due(start)) >= 0 /\ UNCHANGED <<start, armed, fired>>
    <3>1. Left' = MinutesBetween(clock', Due(start))
      BY <2>1, <2>3 DEF Left, Due
    <3>2. by \in 1..60 /\ Left' = Left - 1 - by /\ Left' >= 0
      BY <1>6, <2>2, <2>3, <3>1, PutForwardClock
    <3> QED  BY <2>2, <3>2 DEF Timer!Hasten
  <2>4. CASE start' = NoStart
    <3>1. Left' = -1 /\ Left # -1
      BY <2>2, <2>4 DEF Left
    <3> QED  BY <3>1 DEF Timer!Abandon
  <2> QED  BY <1>6, <2>3, <2>4 DEF PutForward
<1>7. CASE UNCHANGED vars
  BY <1>7 DEF vars, Left, Due
<1> QED
  BY <1>1, <1>2, <1>3, <1>4, <1>5, <1>6, <1>7 DEF Next, Moves

\* What arm_dead_man writes is the timer that a dead-man is taken for.
THEOREM CountsDownAlways == Spec => CountsDown
<1>1. Init => Timer!Init
  BY TimerInit
<1>2. IInv /\ IInv' /\ [Next]_vars => [Timer!Next]_Left
  BY TimerStep
<1> QED
  BY <1>1, <1>2, IInvAlways, PTL DEF Spec, CountsDown, Timer!Spec
=============================================================================
