---------------------------- MODULE HebrewDates ----------------------------
(***************************************************************************)
(* core/hebcal.go and the Hebrew side of core/dates.go.  Months have the   *)
(* code's numbers: 1 is Nisan, 7 Tishrei, with which the year begins, 12   *)
(* Adar or, in a leap year, Adar I, and 13 Adar II.  The calendar itself   *)
(* (the hdate library) is computed from the mean new moon; a date is the   *)
(* number of the day, as in GregorianDates.                                *)
(***************************************************************************)
EXTENDS Integers

IsLeapYear(y) == (7 * y + 1) % 19 < 7

\* Days from the epoch to the new year of y, and the day number it falls on.
Elapsed(y) ==
  LET cycle  == (y - 1) % 19
      moons  == 235 * ((y - 1) \div 19) + 12 * cycle + (7 * cycle + 1) \div 19
      rest   == 204 + 793 * (moons % 1080)
      hours  == 5 + 12 * moons + 793 * (moons \div 1080) + rest \div 1080
      parts  == (rest % 1080) + 1080 * (hours % 24)
      day    == 1 + 29 * moons + hours \div 24
      late   == \/ parts >= 19440
                \/ day % 7 = 2 /\ parts >= 9924 /\ ~IsLeapYear(y)
                \/ day % 7 = 1 /\ parts >= 16789 /\ IsLeapYear(y - 1)
      first  == IF late THEN day + 1 ELSE day
  IN  IF first % 7 \in {0, 3, 5} THEN first + 1 ELSE first

NewYear(y) == Elapsed(y) - 1373428

Months(y) == IF IsLeapYear(y) THEN 1 .. 13 ELSE 1 .. 12

DaysInMonth(y, m) ==
  LET length == NewYear(y + 1) - NewYear(y)
  IN  CASE m \in {1, 3, 5, 7, 11} -> 30
        [] m \in {2, 4, 6, 10, 13} -> 29
        [] m = 8 -> (IF length \in {355, 385} THEN 30 ELSE 29)
        [] m = 9 -> (IF length \in {353, 383} THEN 29 ELSE 30)
        [] m = 12 -> IF IsLeapYear(y) THEN 30 ELSE 29

\* The day before the first of the month: where it is in a year of 354 days, then
\* the day of a long Heshvan, that of a short Kislev, and the first Adar.
Before(y, m) ==
  LET length == NewYear(y + 1) - NewYear(y)
  IN  NewYear(y) - 1
        + <<177, 207, 236, 266, 295, 325, 0, 30, 59, 89, 118, 148, 178>>[m]
        + (IF m \notin {7, 8} /\ length \in {355, 385} THEN 1 ELSE 0)
        - (IF m \notin {7, 8, 9} /\ length \in {353, 383} THEN 1 ELSE 0)
        + (IF m <= 6 /\ IsLeapYear(y) THEN 30 ELSE 0)

\* Mutant: every month is taken to end with its 29th.
ClampedTo29(y, m, d) == Before(y, m) + (IF d > 29 THEN 29 ELSE d)

\* ToGregorian: a day the month does not have is its last one.
ToGregorian(y, m, d) ==
  Before(y, m) + (IF d > DaysInMonth(y, m) THEN DaysInMonth(y, m) ELSE d)

HebrewYear(n) ==
  LET near == (n * 100) \div 36525 + 3760
  IN  CHOOSE y \in near .. near + 2 : n < NewYear(y + 1) /\ NewYear(y) <= n

ToHebrew(n) ==
  LET year == HebrewYear(n)
      month == CHOOSE m \in Months(year) :
                 LET day == n - Before(year, m) IN 0 < day /\ day <= DaysInMonth(year, m)
  IN  [year |-> year, month |-> month, day |-> n - Before(year, month)]

\* The month of year y in which a month of another year is kept.
ResolveMonth(y, month, policy) ==
  IF month \in {12, 13}
  THEN IF IsLeapYear(y) /\ (month = 13 \/ policy = "adar_ii") THEN 13 ELSE 12
  ELSE month

\* Mutant: the Hebrew year is guessed from the Gregorian one.
NextByGregorianYear(month, day, today, policy) ==
  LET In(y) == ToGregorian(y, ResolveMonth(y, month, policy), day)
      year  == (today * 100) \div 36525 + 3761
  IN  IF In(year) >= today THEN In(year) ELSE In(year + 1)

nextHebrewOccurrence(month, day, today, policy) ==
  LET In(y) == ToGregorian(y, ResolveMonth(y, month, policy), day)
      year  == HebrewYear(today)
  IN  IF In(year) >= today THEN In(year) ELSE In(year + 1)
=============================================================================
