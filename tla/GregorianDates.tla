--------------------------- MODULE GregorianDates ---------------------------
(***************************************************************************)
(* The Gregorian side of core/dates.go, with the real lengths of the       *)
(* months and the real leap years.  A date (a time.Time at midnight UTC)   *)
(* is the number of the day, 1 for January 1 of the year 1.                *)
(***************************************************************************)
EXTENDS Integers

IsLeap(y) == y % 4 = 0 /\ (y % 100 # 0 \/ y % 400 = 0)

MonthLength(y, m) ==
  IF m = 2 /\ IsLeap(y) THEN 29
  ELSE <<31, 28, 31, 30, 31, 30, 31, 31, 30, 31, 30, 31>>[m]

IsDate(y, m, d) == m \in 1 .. 12 /\ d >= 1 /\ d <= MonthLength(y, m)

Number(y, m, d) ==
  365 * (y - 1) + (y - 1) \div 4 - (y - 1) \div 100 + (y - 1) \div 400
    + <<0, 31, 59, 90, 120, 151, 181, 212, 243, 273, 304, 334>>[m]
    + (IF m > 2 /\ IsLeap(y) THEN 1 ELSE 0) + d

\* time.Time{}, which mustDate returns for a date that does not exist.
ZeroTime == 1

mustDate(y, m, d) == IF IsDate(y, m, d) THEN Number(y, m, d) ELSE ZeroTime

\* Mutant: the year is not looked at, Feb 29 falls through to the day before.
NoFeb29(y, month, day, policy) == <<month, day>>

\* In a year without a Feb 29, the policy's day stands in for it.
Resolved(y, month, day, policy) ==
  IF month = 2 /\ day = 29 /\ ~IsDate(y, 2, 29)
  THEN IF policy = "feb28" THEN <<2, 28>> ELSE <<3, 1>>
  ELSE <<month, day>>

\* The event's day in year y; a day that does not exist gives the day before.
InYear(y, month, day, policy) ==
  LET r == Resolved(y, month, day, policy)
  IN  IF IsDate(y, r[1], r[2]) THEN Number(y, r[1], r[2]) ELSE mustDate(y, r[1], r[2] - 1)

\* y is the year of today.
nextGregorianOccurrence(month, day, y, today, policy) ==
  LET candidate == InYear(y, month, day, policy)
  IN  IF candidate >= today THEN candidate ELSE InYear(y + 1, month, day, policy)
=============================================================================
