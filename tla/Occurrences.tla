---------------------------- MODULE Occurrences ----------------------------
(***************************************************************************)
(* core.NextOccurrence for both calendars, followed day by day: one event, *)
(* a primary or a secondary date of it with its owner's policy for it, and *)
(* a today that moves.                                                     *)
(***************************************************************************)
EXTENDS GregorianDates

H == INSTANCE HebrewDates

CONSTANTS
  Inputs,  \* the recurring dates, and the policy of their calendar
  FirstYear, LastYear

Date(calendar, policies) ==
  [calendar : {calendar}, month : 1 .. 13, day : 1 .. 31, policy : policies]

ASSUME OccurrencesAssumption ==
  /\ Inputs \subseteq Date("gregorian", {"feb28", "mar01"}) \cup Date("hebrew", {"adar_i", "adar_ii"})
  /\ FirstYear \in Nat /\ LastYear \in Nat

VARIABLES
  today,  \* a date of the Gregorian calendar
  event

vars == <<today, event>>

Day(t) == Number(t.year, t.month, t.day)

NextOccurrence(t) ==
  IF event.calendar = "hebrew"
  THEN H!nextHebrewOccurrence(event.month, event.day, Day(t), event.policy)
  ELSE nextGregorianOccurrence(event.month, event.day, t.year, Day(t), event.policy)

\* The year of that calendar that a day belongs to, from which AgeAt takes the
\* year of birth.
GregorianYear(n) ==
  CHOOSE y \in n \div 366 .. n \div 365 + 1 : Number(y, 1, 1) <= n /\ n <= Number(y, 12, 31)

\* Mutant: the age of a Hebrew event by the Gregorian year.
AgeByGregorianYear(n) == GregorianYear(n)

YearOf(n) == IF event.calendar = "hebrew" THEN H!HebrewYear(n) ELSE GregorianYear(n)

Tomorrow(t) ==
  IF t.day < MonthLength(t.year, t.month) THEN [t EXCEPT !.day = @ + 1]
  ELSE IF t.month < 12 THEN [t EXCEPT !.month = @ + 1, !.day = 1]
  ELSE [year |-> t.year + 1, month |-> 1, day |-> 1]

Init ==
  /\ today = [year |-> FirstYear, month |-> 1, day |-> 1]
  /\ event \in Inputs

NextDay ==
  /\ today.year <= LastYear
  /\ today' = Tomorrow(today)
  /\ UNCHANGED event

Next == NextDay

Spec == Init /\ [][Next]_vars

-----------------------------------------------------------------------------
\* The days the clock passes through are days of both calendars, and the Hebrew
\* date of a day leads back to it: what the dual-date backfill relies on when it
\* moves a birthday to its Hebrew date.
TypeOK ==
  /\ IsDate(today.year, today.month, today.day)
  /\ LET h == H!ToHebrew(Day(today))
     IN  h.month \in H!Months(h.year) /\ H!ToGregorian(h.year, h.month, h.day) = Day(today)

\* The reference: the days an event is kept on, read off the date of the day in
\* the event's own calendar.  Either the day itself or, in a year without it, the
\* policy's day for Feb 29, the policy's Adar, and the last day of a shorter month.
GregorianDay(t) ==
  \/ t.month = event.month /\ t.day = event.day
  \/ /\ ~IsDate(t.year, event.month, event.day)
     /\ IF event.month = 2 /\ event.day = 29
        THEN <<t.month, t.day>> = IF event.policy = "feb28" THEN <<2, 28>> ELSE <<3, 1>>
        ELSE t.month = event.month /\ t.day = MonthLength(t.year, t.month)

HebrewDay(h) ==
  /\ CASE event.month = 12 /\ event.policy = "adar_ii" -> h.month = IF 13 \in H!Months(h.year) THEN 13 ELSE 12
       [] event.month = 13 -> h.month >= 12 /\ h.month + 1 \notin H!Months(h.year)
       [] OTHER -> h.month = event.month
  /\ h.day = event.day \/ (h.day < event.day /\ h.day = H!DaysInMonth(h.year, h.month))

FallsOn(t) ==
  IF event.calendar = "hebrew" THEN HebrewDay(H!ToHebrew(Day(t))) ELSE GregorianDay(t)

\* On the day itself, and only then, the next occurrence is today: reminders of
\* the day are due, whatever February, the two Adars or a short Heshvan do.
TodayWhenItFalls == NextOccurrence(today) = Day(today) <=> FallsOn(today)

\* Until it has passed, the next occurrence is the same whichever day it is
\* computed on, across both new years: the tick, the daily job and UpdateEvent
\* may recompute it at any time, and log rows keyed by it stay valid.
StableUntilPassed ==
  [][NextOccurrence(today) # Day(today) => NextOccurrence(today') = NextOccurrence(today)]_vars

\* Every year of the event's calendar has exactly one occurrence, so that the age
\* a reminder shows grows by one from each to the next: leap years, leap months
\* and moved days neither skip nor repeat one.
OncePerYear ==
  [][NextOccurrence(today) = Day(today) =>
       YearOf(NextOccurrence(today')) = YearOf(Day(today)) + 1]_vars
=============================================================================
