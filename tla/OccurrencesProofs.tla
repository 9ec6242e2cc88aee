------------------------- MODULE OccurrencesProofs -------------------------
(***************************************************************************)
(* The two calendars of Occurrences, for every date and every year of four *)
(* digits: months and years follow one another without a gap, every year   *)
(* keeps an event on exactly one of its days, and so the next occurrence   *)
(* is the one of this year or of the next.                                 *)
(***************************************************************************)
EXTENDS Occurrences, TLAPS

-----------------------------------------------------------------------------
(* The Gregorian year *)

\* Days before the year y.
LeapDays(y) == (y - 1) \div 4 - (y - 1) \div 100 + (y - 1) \div 400

\* A leap year adds a day to those before the years after it.
LEMMA LeapStep ==
  ASSUME NEW y \in Int
  PROVE  /\ LeapDays(y) \in Int
         /\ LeapDays(y + 1) = LeapDays(y) + (IF IsLeap(y) THEN 1 ELSE 0)
<1>1. y \div 4 = (y - 1) \div 4 + (IF y % 4 = 0 THEN 1 ELSE 0)
  OBVIOUS
<1>2. y \div 100 = (y - 1) \div 100 + (IF y % 100 = 0 THEN 1 ELSE 0)
  OBVIOUS
<1>3. y \div 400 = (y - 1) \div 400 + (IF y % 400 = 0 THEN 1 ELSE 0)
  OBVIOUS
<1>4. (y % 400 = 0 => y % 100 = 0) /\ (y % 100 = 0 => y % 4 = 0)
  OBVIOUS
<1>5. (y + 1) - 1 = y
  OBVIOUS
<1>6. (y - 1) \div 4 \in Int /\ (y - 1) \div 100 \in Int /\ (y - 1) \div 400 \in Int
  OBVIOUS
<1> QED BY <1>1, <1>2, <1>3, <1>4, <1>5, <1>6 DEF LeapDays, IsLeap

\* The days before the first of January, and before the first of a month in its year.
First(y) == 365 * (y - 1) + LeapDays(y)
YearLength(y) == IF IsLeap(y) THEN 366 ELSE 365
MonthStart(y, m) ==
  <<0, 31, 59, 90, 120, 151, 181, 212, 243, 273, 304, 334>>[m] + (IF m > 2 /\ IsLeap(y) THEN 1 ELSE 0)

\* The year after begins when a year is over.
LEMMA YearStep ==
  ASSUME NEW y \in Int
  PROVE  First(y) \in Int /\ YearLength(y) \in Nat /\ First(y + 1) = First(y) + YearLength(y)
BY LeapStep DEF First, YearLength

\* The number of a day: those before its year, those before its month, and its own.
LEMMA NumberSplit ==
  ASSUME NEW y \in Int, NEW m \in 1 .. 12, NEW d \in Int
  PROVE  Number(y, m, d) = First(y) + MonthStart(y, m) + d
<1>1. (y - 1) \div 4 \in Int /\ (y - 1) \div 100 \in Int /\ (y - 1) \div 400 \in Int
  OBVIOUS
<1>2. <<0, 31, 59, 90, 120, 151, 181, 212, 243, 273, 304, 334>>[m] \in Int
  OBVIOUS
<1> QED BY <1>1, <1>2 DEF Number, First, LeapDays, MonthStart

\* The months of a year follow one another.
LEMMA MonthTypes ==
  ASSUME NEW y \in Int, NEW m \in 1 .. 12
  PROVE  /\ MonthStart(y, m) \in Nat /\ MonthLength(y, m) \in Nat
         /\ 28 <= MonthLength(y, m) /\ MonthLength(y, m) <= 31
<1>1. m \in {1, 2, 3, 4, 5, 6, 7, 8, 9, 10, 11, 12}
  OBVIOUS
<1> QED BY <1>1 DEF MonthStart, MonthLength

\* February is the shortest month.
LEMMA MonthDays ==
  ASSUME NEW y \in Int, NEW m \in 1 .. 12
  PROVE  /\ m # 2 => MonthLength(y, m) \in {30, 31}
         /\ m = 2 => MonthLength(y, m) = IF IsLeap(y) THEN 29 ELSE 28
<1>1. m \in {1, 2, 3, 4, 5, 6, 7, 8, 9, 10, 11, 12}
  OBVIOUS
<1>2. m # 2 => MonthLength(y, m) \in {30, 31}
  BY <1>1 DEF MonthLength
<1>3. m = 2 => MonthLength(y, m) = IF IsLeap(y) THEN 29 ELSE 28
  BY DEF MonthLength
<1> QED BY <1>2, <1>3

\* December ends the year,
LEMMA LastMonth ==
  ASSUME NEW y \in Int
  PROVE  MonthLength(y, 12) = 31 /\ MonthStart(y, 12) + 31 = YearLength(y)
BY DEF MonthStart, MonthLength, YearLength

\* and every other month is followed by the next.
LEMMA NextMonth ==
  ASSUME NEW y \in Int, NEW m \in 1 .. 11
  PROVE  MonthStart(y, m) + MonthLength(y, m) = MonthStart(y, m + 1)
<1>1. m \in {1, 2, 3, 4, 5, 6, 7, 8, 9, 10, 11}
  OBVIOUS
<1> QED BY <1>1 DEF MonthStart, MonthLength

\* A later month begins when an earlier one is over.
LEMMA MonthsApart ==
  ASSUME NEW y \in Int, NEW m \in 1 .. 12, NEW k \in 1 .. 12, m < k
  PROVE  MonthStart(y, m) + MonthLength(y, m) <= MonthStart(y, k)
<1>1. m \in {1, 2, 3, 4, 5, 6, 7, 8, 9, 10, 11} /\ k \in {2, 3, 4, 5, 6, 7, 8, 9, 10, 11, 12}
  OBVIOUS
<1> QED BY <1>1 DEF MonthStart, MonthLength

\* A date's number is within its year, and is its own.
LEMMA InItsYear ==
  ASSUME NEW y \in Int, NEW m, NEW d \in Int, IsDate(y, m, d)
  PROVE  /\ m \in 1 .. 12
         /\ Number(y, m, d) \in Int /\ First(y) < Number(y, m, d) /\ Number(y, m, d) <= First(y + 1)
<1>1. m \in 1 .. 12 /\ d >= 1 /\ d <= MonthLength(y, m)
  BY DEF IsDate
<1>2. MonthStart(y, m) + MonthLength(y, m) <= YearLength(y) /\ MonthStart(y, m) \in Nat /\ MonthLength(y, m) \in Nat
  <2>1. MonthStart(y, m) \in Nat /\ MonthLength(y, m) \in Nat /\ YearLength(y) \in Nat
    BY <1>1, MonthTypes, YearStep
  <2>2. CASE m = 12
    <3>1. MonthStart(y, m) + MonthLength(y, m) = YearLength(y)
      BY <2>2, LastMonth
    <3> QED BY <2>1, <3>1
  <2>3. CASE m # 12
    <3>1. m < 12 /\ 12 \in 1 .. 12
      BY <1>1, <2>3
    <3>2. MonthStart(y, m) + MonthLength(y, m) <= MonthStart(y, 12)
      BY <1>1, <3>1, MonthsApart
    <3>3. MonthStart(y, 12) + 31 = YearLength(y) /\ MonthStart(y, 12) \in Nat
      BY <3>1, LastMonth, MonthTypes
    <3> QED BY <2>1, <3>2, <3>3
  <2> QED BY <2>2, <2>3
<1>3. Number(y, m, d) = First(y) + MonthStart(y, m) + d
  BY <1>1, NumberSplit
<1>4. First(y) \in Int /\ First(y + 1) = First(y) + YearLength(y) /\ YearLength(y) \in Nat
  BY YearStep DEF YearLength
<1> QED BY <1>1, <1>2, <1>3, <1>4

\* Two dates of a year do not share a number.
LEMMA OwnNumber ==
  ASSUME NEW y \in Int, NEW m, NEW d \in Int, IsDate(y, m, d),
         NEW k, NEW e \in Int, IsDate(y, k, e), Number(y, m, d) = Number(y, k, e)
  PROVE  m = k /\ d = e
<1>1. m \in 1 .. 12 /\ d >= 1 /\ d <= MonthLength(y, m) /\ k \in 1 .. 12 /\ e >= 1 /\ e <= MonthLength(y, k)
  BY DEF IsDate
<1>2. /\ Number(y, m, d) = First(y) + MonthStart(y, m) + d
      /\ Number(y, k, e) = First(y) + MonthStart(y, k) + e
  BY <1>1, NumberSplit
<1>3. /\ First(y) \in Int /\ MonthStart(y, m) \in Nat /\ MonthStart(y, k) \in Nat
      /\ MonthLength(y, m) \in Nat /\ MonthLength(y, k) \in Nat
  <2>1. First(y) \in Int
    BY YearStep
  <2>2. MonthStart(y, m) \in Nat /\ MonthLength(y, m) \in Nat
    BY <1>1, MonthTypes
  <2>3. MonthStart(y, k) \in Nat /\ MonthLength(y, k) \in Nat
    BY <1>1, MonthTypes
  <2> QED BY <2>1, <2>2, <2>3
<1>4. MonthStart(y, m) + d = MonthStart(y, k) + e
  <2>1. First(y) + MonthStart(y, m) + d = First(y) + MonthStart(y, k) + e
    BY <1>2
  <2>2. \A f, a, b \in Int : f + a + d = f + b + e => a + d = b + e
    OBVIOUS
  <2> QED BY <1>3, <2>1, <2>2
<1>5. m < k => MonthStart(y, m) + MonthLength(y, m) <= MonthStart(y, k)
  BY <1>1, MonthsApart
<1>6. k < m => MonthStart(y, k) + MonthLength(y, k) <= MonthStart(y, m)
  BY <1>1, MonthsApart
<1>7. m = k
  BY <1>1, <1>3, <1>4, <1>5, <1>6
<1> QED BY <1>3, <1>4, <1>7

-----------------------------------------------------------------------------
(* The Gregorian occurrence *)

\* A Gregorian date of one of twelve months.
Stored ==
  [calendar : {"gregorian"}, month : 1 .. 12, day : 1 .. 31, policy : {"feb28", "mar01"}]

\* The day on which a year keeps the event.
Keeps(y, m, d) ==
  \/ m = event.month /\ d = event.day
  \/ /\ ~IsDate(y, event.month, event.day)
     /\ IF event.month = 2 /\ event.day = 29
        THEN <<m, d>> = IF event.policy = "feb28" THEN <<2, 28>> ELSE <<3, 1>>
        ELSE m = event.month /\ d = MonthLength(y, m)

YearsDay(y) == InYear(y, event.month, event.day, event.policy)

\* Every year keeps it on one of its dates, and on no other.
LEMMA KeptOnce ==
  ASSUME event \in Stored, event.month = 2 => event.day <= 29, NEW y \in Int
  PROVE  \E m \in 1 .. 12, d \in Int :
           /\ IsDate(y, m, d) /\ YearsDay(y) = Number(y, m, d)
           /\ \A k, e : IsDate(y, k, e) => (Keeps(y, k, e) <=> k = m /\ e = d)
<1> DEFINE month == event.month
           day == event.day
<1>1. month \in 1 .. 12 /\ day \in 1 .. 31
  BY DEF Stored
<1>2. MonthLength(y, month) \in Nat
  BY <1>1, MonthTypes
<1>3. CASE IsDate(y, month, day)
  <2>1. YearsDay(y) = Number(y, month, day)
    BY <1>3 DEF YearsDay, InYear, Resolved
  <2>2. \A k, e : Keeps(y, k, e) <=> k = month /\ e = day
    BY <1>3 DEF Keeps
  <2>3. day \in Int
    BY <1>1
  <2> QED BY <1>1, <1>3, <2>1, <2>2, <2>3
<1>4. CASE ~IsDate(y, month, day) /\ month = 2
  <2>1. day = 29
    BY <1>1, <1>4, MonthDays DEF IsDate
  <2>2. IsDate(y, 2, 28) /\ IsDate(y, 3, 1)
    <3>1. 2 \in 1 .. 12 /\ 3 \in 1 .. 12
      OBVIOUS
    <3>2. 28 <= MonthLength(y, 2) /\ 28 <= MonthLength(y, 3) /\ MonthLength(y, 2) \in Nat /\ MonthLength(y, 3) \in Nat
      BY <3>1, MonthTypes
    <3> QED BY <3>1, <3>2 DEF IsDate
  <2>3. CASE event.policy = "feb28"
    <3>1. YearsDay(y) = Number(y, 2, 28)
      BY <1>4, <2>1, <2>2, <2>3 DEF YearsDay, InYear, Resolved
    <3>2. \A k, e : IsDate(y, k, e) => (Keeps(y, k, e) <=> k = 2 /\ e = 28)
      BY <1>4, <2>1, <2>3 DEF Keeps
    <3> QED BY <2>2, <3>1, <3>2
  <2>4. CASE event.policy # "feb28"
    <3>1. YearsDay(y) = Number(y, 3, 1)
      BY <1>4, <2>1, <2>2, <2>4 DEF YearsDay, InYear, Resolved
    <3>2. \A k, e : IsDate(y, k, e) => (Keeps(y, k, e) <=> k = 3 /\ e = 1)
      BY <1>4, <2>1, <2>4 DEF Keeps
    <3> QED BY <2>2, <3>1, <3>2
  <2> QED BY <2>3, <2>4
<1>5. CASE ~IsDate(y, month, day) /\ month # 2
  <2>1. day = 31 /\ MonthLength(y, month) = 30
    BY <1>1, <1>5, MonthDays DEF IsDate
  <2>2. IsDate(y, month, 30)
    BY <1>1, <2>1 DEF IsDate
  <2>3. YearsDay(y) = Number(y, month, 30)
    BY <1>5, <2>1, <2>2 DEF YearsDay, InYear, Resolved, mustDate
  <2>4. \A k, e : IsDate(y, k, e) => (Keeps(y, k, e) <=> k = month /\ e = 30)
    BY <1>5, <2>1 DEF Keeps
  <2> QED BY <1>1, <2>2, <2>3, <2>4
<1> QED BY <1>3, <1>4, <1>5

\* So it falls within the year.
LEMMA YearsDayInYear ==
  ASSUME event \in Stored, event.month = 2 => event.day <= 29, NEW y \in Int
  PROVE  YearsDay(y) \in Int /\ First(y) < YearsDay(y) /\ YearsDay(y) <= First(y + 1)
BY KeptOnce, InItsYear

\* A later year begins when an earlier one is over.
LEMMA YearsApart ==
  ASSUME NEW y \in Int, NEW z \in Int, y < z
  PROVE  First(y + 1) <= First(z)
<1> DEFINE a == y
           b == z - 1
<1>1. a \in Int /\ b \in Int /\ a <= b
  OBVIOUS
<1>2. First(y + 1) = 365 * a + a \div 4 - a \div 100 + a \div 400
      /\ First(z) = 365 * b + b \div 4 - b \div 100 + b \div 400
  BY DEF First, LeapDays
<1> HIDE DEF a, b
<1>3. 365 * a + a \div 4 - a \div 100 + a \div 400 <= 365 * b + b \div 4 - b \div 100 + b \div 400
  BY <1>1
<1> QED BY <1>2, <1>3

\* The year that AgeAt counts from is the one the day is in.
LEMMA YearOfDay ==
  ASSUME NEW y \in Nat, NEW n \in Int, First(y) < n, n <= First(y + 1)
  PROVE  GregorianYear(n) = y
<1>1. \A z \in Int : Number(z, 1, 1) = First(z) + 1 /\ Number(z, 12, 31) = First(z + 1) /\ First(z) \in Int /\ First(z + 1) \in Int
  <2> SUFFICES ASSUME NEW z \in Int
               PROVE  Number(z, 1, 1) = First(z) + 1 /\ Number(z, 12, 31) = First(z + 1) /\ First(z) \in Int /\ First(z + 1) \in Int
    OBVIOUS
  <2>1. 1 \in 1 .. 12 /\ 12 \in 1 .. 12 /\ 31 \in Int
    OBVIOUS
  <2>2. Number(z, 1, 1) = First(z) + MonthStart(z, 1) + 1 /\ Number(z, 12, 31) = First(z) + MonthStart(z, 12) + 31
    BY <2>1, NumberSplit
  <2>3. MonthStart(z, 1) = 0
    BY DEF MonthStart
  <2>4. MonthStart(z, 12) + 31 = YearLength(z) /\ MonthStart(z, 12) \in Nat
    BY <2>1, LastMonth, MonthTypes
  <2>5. First(z) \in Int /\ YearLength(z) \in Nat /\ First(z + 1) = First(z) + YearLength(z)
    BY YearStep
  <2> QED BY <2>2, <2>3, <2>4, <2>5
<1>2. y \in n \div 366 .. n \div 365 + 1
  <2>1. First(y) = 365 * (y - 1) + (y - 1) \div 4 - (y - 1) \div 100 + (y - 1) \div 400
        /\ First(y + 1) = 365 * y + y \div 4 - y \div 100 + y \div 400
    BY DEF First, LeapDays
  <2>2. n \div 366 <= y
    BY <2>1
  <2>3. y <= n \div 365 + 1
    BY <2>1
  <2> QED BY <2>2, <2>3
<1>3. \A z \in Int : Number(z, 1, 1) <= n /\ n <= Number(z, 12, 31) => z = y
  <2> SUFFICES ASSUME NEW z \in Int, First(z) < n, n <= First(z + 1) PROVE z = y
    BY <1>1
  <2>1. y < z => First(y + 1) <= First(z)
    BY YearsApart
  <2>2. z < y => First(z + 1) <= First(y)
    BY YearsApart
  <2> QED BY <1>1, <2>1, <2>2
<1>4. Number(y, 1, 1) <= n /\ n <= Number(y, 12, 31)
  BY <1>1
<1>5. n \div 366 .. n \div 365 + 1 \subseteq Int
  OBVIOUS
<1> QED BY <1>2, <1>3, <1>4, <1>5 DEF GregorianYear

-----------------------------------------------------------------------------
(* The Hebrew year *)

\* The new moons before a year, the day of its own, and the parts of that day.
Moons(y) == 235 * ((y - 1) \div 19) + 12 * ((y - 1) % 19) + (7 * ((y - 1) % 19) + 1) \div 19
MoonDay(y) == 1 + 29 * Moons(y) + (5604 + 13753 * Moons(y)) \div 25920
MoonParts(y) == (5604 + 13753 * Moons(y)) % 25920

\* The new year is put off from a late moon, and then from an unfit day.
Late(y, d, p) ==
  \/ p >= 19440
  \/ d % 7 = 2 /\ p >= 9924 /\ ~H!IsLeapYear(y)
  \/ d % 7 = 1 /\ p >= 16789 /\ H!IsLeapYear(y - 1)
AfterMoon(y, d, p) == IF Late(y, d, p) THEN d + 1 ELSE d
Fit(d) == IF d % 7 \in {0, 3, 5} THEN d + 1 ELSE d

\* Hours and parts of hours are parts.
LEMMA AllParts ==
  ASSUME NEW M \in Int
  PROVE  LET rest  == 204 + 793 * (M % 1080)
             hours == 5 + 12 * M + 793 * (M \div 1080) + rest \div 1080
         IN  /\ (rest % 1080) + 1080 * (hours % 24) = (5604 + 13753 * M) % 25920
             /\ hours \div 24 = (5604 + 13753 * M) \div 25920
OBVIOUS

\* The moon of a year, in whole days and parts.
LEMMA MoonTypes ==
  ASSUME NEW y \in Int
  PROVE  Moons(y) \in Int /\ MoonDay(y) \in Int /\ MoonParts(y) \in Nat /\ MoonParts(y) <= 25919
<1>1. Moons(y) \in Int
  BY DEF Moons
<1>2. PICK M \in Int : M = Moons(y)
  BY <1>1
<1>3. 1 + 29 * M + (5604 + 13753 * M) \div 25920 \in Int
  OBVIOUS
<1>4. (5604 + 13753 * M) % 25920 \in Nat /\ (5604 + 13753 * M) % 25920 <= 25919
  OBVIOUS
<1> QED BY <1>2, <1>3, <1>4 DEF MoonDay, MoonParts

\* The new year is the moon's day, put off twice.
LEMMA ElapsedIs ==
  ASSUME NEW y \in Int
  PROVE  H!Elapsed(y) = Fit(AfterMoon(y, MoonDay(y), MoonParts(y)))
<1> DEFINE cycle == (y - 1) % 19
           moons == 235 * ((y - 1) \div 19) + 12 * cycle + (7 * cycle + 1) \div 19
           rest  == 204 + 793 * (moons % 1080)
           hours == 5 + 12 * moons + 793 * (moons \div 1080) + rest \div 1080
           parts == (rest % 1080) + 1080 * (hours % 24)
           day   == 1 + 29 * moons + hours \div 24
           late  == \/ parts >= 19440
                    \/ day % 7 = 2 /\ parts >= 9924 /\ ~H!IsLeapYear(y)
                    \/ day % 7 = 1 /\ parts >= 16789 /\ H!IsLeapYear(y - 1)
           first == IF late THEN day + 1 ELSE day
<1>1. H!Elapsed(y) = IF first % 7 \in {0, 3, 5} THEN first + 1 ELSE first
  BY DEF H!Elapsed
<1>2. moons = Moons(y) /\ moons \in Int
  BY DEF Moons
<1> HIDE DEF moons
<1>3. parts = MoonParts(y) /\ day = MoonDay(y)
  <2>1. PICK M \in Int : M = moons
    BY <1>2
  <2>2. LET r == 204 + 793 * (M % 1080)
            h == 5 + 12 * M + 793 * (M \div 1080) + r \div 1080
        IN  /\ (r % 1080) + 1080 * (h % 24) = (5604 + 13753 * M) % 25920
            /\ h \div 24 = (5604 + 13753 * M) \div 25920
    BY AllParts
  <2>3. parts = (5604 + 13753 * M) % 25920
    BY <2>1, <2>2
  <2>4. day = 1 + 29 * M + (5604 + 13753 * M) \div 25920
    BY <2>1, <2>2
  <2> QED BY <1>2, <2>1, <2>3, <2>4 DEF MoonDay, MoonParts
<1> HIDE DEF parts, day
<1>4. late <=> Late(y, day, parts)
  BY DEF Late
<1> QED BY <1>1, <1>3, <1>4 DEF AfterMoon, Fit

\* A year has 12 months or 13.
LEMMA MoonsStep ==
  ASSUME NEW y \in Int
  PROVE  Moons(y + 1) = Moons(y) + (IF H!IsLeapYear(y) THEN 13 ELSE 12)
BY DEF Moons, H!IsLeapYear

\* No two years in a row are leap years.
LEMMA LeapYearsApart ==
  ASSUME NEW y \in Int
  PROVE  H!IsLeapYear(y) => ~H!IsLeapYear(y + 1)
BY DEF H!IsLeapYear

\* Six days and some parts later, it is six days later, or seven.
Turns(P, a) ==
  LET p == (P % 25920) + a
      q == (P \div 25920) + 6
      R == P + (6 * 25920 + a)
  IN  \/ p < 25920 /\ R % 25920 = p /\ R \div 25920 = q
      \/ p >= 25920 /\ R % 25920 = p - 25920 /\ R \div 25920 = q + 1

\* What is left of 12 months and of 13, modulo a week.
LEMMA Carry ==
  ASSUME NEW P \in Int
  PROVE  Turns(P, 23269) /\ Turns(P, 9516)
BY DEF Turns

\* From a year's moon to the next one's.
LEMMA MoonStep ==
  ASSUME NEW y \in Int
  PROVE  LET p == MoonParts(y) + (IF H!IsLeapYear(y) THEN 23269 ELSE 9516)
             d == MoonDay(y) + (IF H!IsLeapYear(y) THEN 383 ELSE 354)
         IN  \/ p < 25920 /\ MoonParts(y + 1) = p /\ MoonDay(y + 1) = d
             \/ p >= 25920 /\ MoonParts(y + 1) = p - 25920 /\ MoonDay(y + 1) = d + 1
<1>1. PICK M \in Int : M = Moons(y)
  BY MoonTypes
<1>2. PICK P \in Int : P = 5604 + 13753 * M
  OBVIOUS
<1>3. CASE H!IsLeapYear(y)
  <2>1. Moons(y + 1) = M + 13
    BY <1>1, <1>3, MoonsStep
  <2>2. 5604 + 13753 * (M + 13) = P + (6 * 25920 + 23269)
    BY <1>2
  <2>3. Turns(P, 23269)
    BY <1>2, Carry
  <2>4. MoonParts(y) = P % 25920 /\ MoonParts(y + 1) = (P + (6 * 25920 + 23269)) % 25920
    BY <1>1, <1>2, <2>1, <2>2 DEF MoonParts
  <2>5. /\ MoonDay(y) = 1 + 29 * M + P \div 25920
        /\ MoonDay(y + 1) = 1 + 29 * (M + 13) + (P + (6 * 25920 + 23269)) \div 25920
    BY <1>1, <1>2, <2>1, <2>2 DEF MoonDay
  <2> QED BY <1>1, <1>2, <1>3, <2>3, <2>4, <2>5 DEF Turns
<1>4. CASE ~H!IsLeapYear(y)
  <2>1. Moons(y + 1) = M + 12
    BY <1>1, <1>4, MoonsStep
  <2>2. 5604 + 13753 * (M + 12) = P + (6 * 25920 + 9516)
    BY <1>2
  <2>3. Turns(P, 9516)
    BY <1>2, Carry
  <2>4. MoonParts(y) = P % 25920 /\ MoonParts(y + 1) = (P + (6 * 25920 + 9516)) % 25920
    BY <1>1, <1>2, <2>1, <2>2 DEF MoonParts
  <2>5. /\ MoonDay(y) = 1 + 29 * M + P \div 25920
        /\ MoonDay(y + 1) = 1 + 29 * (M + 12) + (P + (6 * 25920 + 9516)) \div 25920
    BY <1>1, <1>2, <2>1, <2>2 DEF MoonDay
  <2> QED BY <1>1, <1>2, <1>4, <2>3, <2>4, <2>5 DEF Turns
<1> QED BY <1>3, <1>4

\* A year has one of six lengths: what puts the new year off keeps it there.
LEMMA YearLengths ==
  ASSUME NEW y \in Int
  PROVE  /\ H!Elapsed(y) \in Int /\ H!Elapsed(y + 1) \in Int
         /\ H!Elapsed(y + 1) - H!Elapsed(y) \in IF H!IsLeapYear(y) THEN {383, 384, 385} ELSE {353, 354, 355}
<1>1. PICK d \in Int, p \in Int : d = MoonDay(y) /\ p = MoonParts(y) /\ p >= 0 /\ p <= 25919
  BY MoonTypes
<1>2. PICK e \in Int, r \in Int : e = MoonDay(y + 1) /\ r = MoonParts(y + 1) /\ r >= 0 /\ r <= 25919
  BY MoonTypes
<1>3. PICK i \in Int : i = H!Elapsed(y) /\ i = Fit(AfterMoon(y, d, p))
  <2>1. Fit(AfterMoon(y, d, p)) \in Int
    BY DEF Fit, AfterMoon
  <2> QED BY <1>1, <2>1, ElapsedIs
<1>4. PICK j \in Int : j = H!Elapsed(y + 1) /\ j = Fit(AfterMoon(y + 1, e, r))
  <2>1. Fit(AfterMoon(y + 1, e, r)) \in Int
    BY DEF Fit, AfterMoon
  <2> QED BY <1>2, <2>1, ElapsedIs
<1>5. (y + 1) - 1 = y
  OBVIOUS
<1>6. CASE H!IsLeapYear(y)
  <2>1. ~H!IsLeapYear(y + 1) /\ ~H!IsLeapYear(y - 1)
    <3>1. H!IsLeapYear(y - 1) => ~H!IsLeapYear((y - 1) + 1)
      BY LeapYearsApart
    <3> QED BY <1>6, <3>1, LeapYearsApart
  <2>2. \/ p + 23269 < 25920 /\ r = p + 23269 /\ e = d + 383
        \/ p + 23269 >= 25920 /\ r = p + 23269 - 25920 /\ e = d + 384
    BY <1>1, <1>2, <1>6, MoonStep
  <2>3. j - i \in {383, 384, 385}
    BY <1>1, <1>2, <1>3, <1>4, <1>5, <1>6, <2>1, <2>2 DEF Fit, AfterMoon, Late
  <2> QED BY <1>3, <1>4, <1>6, <2>3
<1>7. CASE ~H!IsLeapYear(y)
  <2>2. \/ p + 9516 < 25920 /\ r = p + 9516 /\ e = d + 354
        \/ p + 9516 >= 25920 /\ r = p + 9516 - 25920 /\ e = d + 355
    BY <1>1, <1>2, <1>7, MoonStep
  <2>3. j - i \in {353, 354, 355}
    BY <1>1, <1>2, <1>3, <1>4, <1>5, <1>7, <2>2 DEF Fit, AfterMoon, Late
  <2> QED BY <1>3, <1>4, <1>7, <2>3
<1> QED BY <1>6, <1>7

-----------------------------------------------------------------------------
(* Its months *)

\* The months of a year that begins on day n, has a day more in Heshvan (a), one less in Kislev
\* (b), or a month more (c).
Table(y, n, a, b, c) ==
  /\ n \in Int /\ a \in {0, 1} /\ b \in {0, 1} /\ c \in {0, 30}
  /\ H!NewYear(y) = n /\ H!NewYear(y + 1) = n + 354 + a - b + c
  /\ H!IsLeapYear(y) <=> c = 30
  /\ H!Before(y, 7) = n - 1 /\ H!DaysInMonth(y, 7) = 30
  /\ H!Before(y, 8) = n + 29 /\ H!DaysInMonth(y, 8) = 29 + a
  /\ H!Before(y, 9) = n + 58 + a /\ H!DaysInMonth(y, 9) = 30 - b
  /\ H!Before(y, 10) = n + 88 + a - b /\ H!DaysInMonth(y, 10) = 29
  /\ H!Before(y, 11) = n + 117 + a - b /\ H!DaysInMonth(y, 11) = 30
  /\ H!Before(y, 12) = n + 147 + a - b /\ H!DaysInMonth(y, 12) = IF c = 30 THEN 30 ELSE 29
  /\ H!Before(y, 13) = n + 177 + a - b /\ H!DaysInMonth(y, 13) = 29
  /\ H!Before(y, 1) = n + 176 + a - b + c /\ H!DaysInMonth(y, 1) = 30
  /\ H!Before(y, 2) = n + 206 + a - b + c /\ H!DaysInMonth(y, 2) = 29
  /\ H!Before(y, 3) = n + 235 + a - b + c /\ H!DaysInMonth(y, 3) = 30
  /\ H!Before(y, 4) = n + 265 + a - b + c /\ H!DaysInMonth(y, 4) = 29
  /\ H!Before(y, 5) = n + 294 + a - b + c /\ H!DaysInMonth(y, 5) = 30
  /\ H!Before(y, 6) = n + 324 + a - b + c /\ H!DaysInMonth(y, 6) = 29

\* Every year has such a table.
LEMMA HasTable ==
  ASSUME NEW y \in Int
  PROVE  \E n, a, b, c \in Int : Table(y, n, a, b, c)
<1>1. PICK n \in Int : n = H!NewYear(y)
  BY YearLengths DEF H!NewYear
<1>2. PICK l \in Int : l = H!NewYear(y + 1) - H!NewYear(y) /\ H!NewYear(y + 1) = n + l
                      /\ l \in IF H!IsLeapYear(y) THEN {383, 384, 385} ELSE {353, 354, 355}
  <2>1. PICK i \in Int, j \in Int : i = H!Elapsed(y) /\ j = H!Elapsed(y + 1)
    BY YearLengths
  <2>2. j - i \in IF H!IsLeapYear(y) THEN {383, 384, 385} ELSE {353, 354, 355}
    BY <2>1, YearLengths
  <2>3. H!NewYear(y + 1) = j - 1373428 /\ n = i - 1373428
    BY <1>1, <2>1 DEF H!NewYear
  <2>4. j - 1373428 = n + (j - i) /\ H!NewYear(y + 1) - H!NewYear(y) = j - i
    BY <1>1, <2>3
  <2> QED BY <2>2, <2>3, <2>4
<1> DEFINE a == IF l \in {355, 385} THEN 1 ELSE 0
           b == IF l \in {353, 383} THEN 1 ELSE 0
           c == IF H!IsLeapYear(y) THEN 30 ELSE 0
<1>3. a \in {0, 1} /\ b \in {0, 1} /\ c \in {0, 30} /\ (H!IsLeapYear(y) <=> c = 30) /\ l = 354 + a - b + c
  BY <1>2
<1>4. \A m \in 1 .. 13 :
        H!Before(y, m) = n - 1 + <<177, 207, 236, 266, 295, 325, 0, 30, 59, 89, 118, 148, 178>>[m]
          + (IF m \notin {7, 8} THEN a ELSE 0) - (IF m \notin {7, 8, 9} THEN b ELSE 0)
          + (IF m <= 6 THEN c ELSE 0)
  BY <1>1, <1>2 DEF H!Before
<1>5. \A m \in 1 .. 13 :
        H!DaysInMonth(y, m) = CASE m \in {1, 3, 5, 7, 11} -> 30
                                [] m \in {2, 4, 6, 10, 13} -> 29
                                [] m = 8 -> 29 + a
                                [] m = 9 -> 30 - b
                                [] m = 12 -> IF c = 30 THEN 30 ELSE 29
  BY <1>2 DEF H!DaysInMonth
<1> HIDE DEF a, b, c
<1>6. H!NewYear(y) = n /\ H!NewYear(y + 1) = n + 354 + a - b + c
  BY <1>1, <1>2, <1>3
<1> QED BY <1>3, <1>4, <1>5, <1>6 DEF Table

\* The days of a month, counted from the day before its first.
InMonth(y, m, n) == H!Before(y, m) < n /\ n <= H!Before(y, m) + H!DaysInMonth(y, m)

\* A month is within its year, and has 29 days or 30.
LEMMA MonthOfYear ==
  ASSUME NEW y \in Int, NEW m \in H!Months(y)
  PROVE  /\ m \in 1 .. 13 /\ H!Before(y, m) \in Int /\ H!DaysInMonth(y, m) \in {29, 30}
         /\ H!NewYear(y) \in Int /\ H!NewYear(y + 1) \in Int
         /\ H!NewYear(y) <= H!Before(y, m) + 1
         /\ H!Before(y, m) + H!DaysInMonth(y, m) < H!NewYear(y + 1)
<1>1. PICK n, a, b, c \in Int : Table(y, n, a, b, c)
  BY HasTable
<1>2. m \in {1, 2, 3, 4, 5, 6, 7, 8, 9, 10, 11, 12} \/ (m = 13 /\ c = 30)
  BY <1>1 DEF H!Months, Table
<1> QED BY <1>1, <1>2 DEF Table

\* A day of the year is in one of its months,
LEMMA MonthsCover ==
  ASSUME NEW y \in Int, NEW t \in Int, H!NewYear(y) <= t, t < H!NewYear(y + 1)
  PROVE  \E m \in H!Months(y) : InMonth(y, m, t)
<1>1. PICK n, a, b, c \in Int : Table(y, n, a, b, c)
  BY HasTable
<1>2. \/ \E m \in {1, 2, 3, 4, 5, 6, 7, 8, 9, 10, 11, 12} : InMonth(y, m, t)
      \/ c = 30 /\ InMonth(y, 13, t)
  BY <1>1 DEF Table, InMonth
<1>3. {1, 2, 3, 4, 5, 6, 7, 8, 9, 10, 11, 12} \subseteq H!Months(y) /\ (c = 30 => 13 \in H!Months(y))
  BY <1>1 DEF H!Months, Table
<1> QED BY <1>2, <1>3

\* and in no other.
LEMMA MonthsDisjoint ==
  ASSUME NEW y \in Int, NEW t \in Int, NEW m \in H!Months(y), NEW k \in H!Months(y),
         InMonth(y, m, t), InMonth(y, k, t)
  PROVE  m = k
<1>1. PICK n, a, b, c \in Int : Table(y, n, a, b, c)
  BY HasTable
<1>2. m \in {1, 2, 3, 4, 5, 6, 7, 8, 9, 10, 11, 12} \/ (m = 13 /\ c = 30)
  BY <1>1 DEF H!Months, Table
<1>3. k \in {1, 2, 3, 4, 5, 6, 7, 8, 9, 10, 11, 12} \/ (k = 13 /\ c = 30)
  BY <1>1 DEF H!Months, Table
<1> QED BY <1>1, <1>2, <1>3 DEF Table, InMonth

-----------------------------------------------------------------------------
(* Which year a day is in *)

\* The new year is a day.
LEMMA NewYearType == ASSUME NEW y \in Int PROVE H!NewYear(y) \in Int
<1>1. H!Elapsed(y) \in Int
  BY YearLengths
<1> QED BY <1>1 DEF H!NewYear

\* The new year of y is within two days of the mean moon's, and 19 years have 235 moons.
Near(y, M, K, s) ==
  /\ 19 * M = 235 * (y - 1) + 1 - s /\ 0 <= s /\ s <= 18
  /\ 25920 * (K - 1 - 29 * M) <= 5604 + 13753 * M
  /\ 5604 + 13753 * M < 25920 * (K - 29 * M)
  /\ H!NewYear(y) \in Int
  /\ K - 1373428 <= H!NewYear(y) /\ H!NewYear(y) <= K - 1373426

\* Every year has such a moon.
LEMMA NearMoon ==
  ASSUME NEW y \in Int
  PROVE  \E M, K, s \in Int : Near(y, M, K, s)
<1>1. PICK M \in Int : M = Moons(y)
  BY MoonTypes
<1>2. PICK K \in Int : K = MoonDay(y)
  BY MoonTypes
<1>3. PICK s \in Int : s = (7 * ((y - 1) % 19) + 1) % 19
  OBVIOUS
<1>4. 19 * M = 235 * (y - 1) + 1 - s /\ 0 <= s /\ s <= 18
  BY <1>1, <1>3 DEF Moons
<1>5. K = 1 + 29 * M + (5604 + 13753 * M) \div 25920
  BY <1>1, <1>2 DEF MoonDay
<1>6. 25920 * (K - 1 - 29 * M) <= 5604 + 13753 * M /\ 5604 + 13753 * M < 25920 * (K - 29 * M)
  BY <1>5
<1>7. PICK i \in Int : i = H!Elapsed(y)
  BY YearLengths
<1>8. K <= i /\ i <= K + 2
  <2>1. i = Fit(AfterMoon(y, K, MoonParts(y)))
    BY <1>2, <1>7, ElapsedIs
  <2>2. AfterMoon(y, K, MoonParts(y)) \in {K, K + 1}
    BY DEF AfterMoon
  <2> QED BY <2>1, <2>2 DEF Fit
<1>9. H!NewYear(y) = i - 1373428
  BY <1>7 DEF H!NewYear
<1>10. H!NewYear(y) \in Int /\ K - 1373428 <= H!NewYear(y) /\ H!NewYear(y) <= K - 1373426
  BY <1>8, <1>9
<1> QED BY <1>4, <1>6, <1>10 DEF Near

\* A later year begins when an earlier one is over.
LEMMA HebrewYearsApart ==
  ASSUME NEW y \in Int, NEW z \in Int, y < z
  PROVE  H!NewYear(y + 1) <= H!NewYear(z)
<1>1. PICK M, K, s \in Int : Near(y + 1, M, K, s)
  <2>1. y + 1 \in Int
    OBVIOUS
  <2> QED BY <2>1, NearMoon
<1>2. PICK N, L, t \in Int : Near(z, N, L, t)
  BY NearMoon
<1>5. PICK u \in Int :
        /\ u = H!NewYear(y + 1) /\ K - 1373428 <= u /\ u <= K - 1373426
        /\ 19 * M = 235 * y + 1 - s /\ 0 <= s /\ s <= 18
        /\ 25920 * (K - 1 - 29 * M) <= 5604 + 13753 * M
        /\ 5604 + 13753 * M < 25920 * (K - 29 * M)
  <2>1. (y + 1) - 1 = y
    OBVIOUS
  <2> QED BY <1>1, <2>1 DEF Near
<1>6. PICK v \in Int :
        /\ v = H!NewYear(z) /\ L - 1373428 <= v /\ v <= L - 1373426
        /\ 19 * N = 235 * (z - 1) + 1 - t /\ 0 <= t /\ t <= 18
        /\ 25920 * (L - 1 - 29 * N) <= 5604 + 13753 * N
        /\ 5604 + 13753 * N < 25920 * (L - 29 * N)
  BY <1>2 DEF Near
<1>3. CASE z = y + 1
  BY <1>3, <1>5, <1>6
<1>4. CASE z >= y + 2
  <2>1. N >= M + 11
    BY <1>5, <1>6, <1>4
  <2>2. L >= K + 10
    BY <1>5, <1>6, <2>1
  <2> QED BY <1>5, <1>6, <2>2
<1> QED BY <1>3, <1>4

\* The days of the model: up to the end of the year 10000.
InRange(n) == n \in Int /\ -365 <= n /\ n <= 3660000

\* HebrewYear looks for the year near enough: it finds the one the day is in.
LEMMA HebrewYearIs ==
  ASSUME NEW y \in Int, NEW n, InRange(n), H!NewYear(y) <= n, n < H!NewYear(y + 1)
  PROVE  H!HebrewYear(n) = y
<1>1. n \in Int /\ -365 <= n /\ n <= 3660000
  BY DEF InRange
<1> DEFINE near == (n * 100) \div 36525 + 3760
<1>2. near \in Int /\ 36525 * (near - 3760) <= 100 * n /\ 100 * n < 36525 * (near - 3759)
  BY <1>1
<1>3. PICK M, K, s \in Int : Near(y, M, K, s)
  BY NearMoon
<1>4. PICK N, L, t \in Int : Near(y + 1, N, L, t)
  <2>1. y + 1 \in Int
    OBVIOUS
  <2> QED BY <2>1, NearMoon
<1>9. PICK u \in Int :
        /\ u = H!NewYear(y) /\ K - 1373428 <= u /\ u <= K - 1373426
        /\ 19 * M = 235 * (y - 1) + 1 - s /\ 0 <= s /\ s <= 18
        /\ 25920 * (K - 1 - 29 * M) <= 5604 + 13753 * M
        /\ 5604 + 13753 * M < 25920 * (K - 29 * M)
  BY <1>3 DEF Near
<1>10. PICK v \in Int :
        /\ v = H!NewYear(y + 1) /\ L - 1373428 <= v /\ v <= L - 1373426
        /\ 19 * N = 235 * y + 1 - t /\ 0 <= t /\ t <= 18
        /\ 25920 * (L - 1 - 29 * N) <= 5604 + 13753 * N
        /\ 5604 + 13753 * N < 25920 * (L - 29 * N)
  <2>1. (y + 1) - 1 = y
    OBVIOUS
  <2> QED BY <1>4, <2>1 DEF Near
<1> HIDE DEF near
<1>5. near <= y
  BY <1>1, <1>2, <1>10
<1>6. y <= near + 2
  BY <1>1, <1>2, <1>9
<1>7. y \in near .. near + 2 /\ near .. near + 2 \subseteq Int
  BY <1>2, <1>5, <1>6
<1>8. \A z \in Int : n < H!NewYear(z + 1) /\ H!NewYear(z) <= n => z = y
  <2> SUFFICES ASSUME NEW z \in Int, n < H!NewYear(z + 1), H!NewYear(z) <= n PROVE z = y
    OBVIOUS
  <2>1. H!NewYear(z) \in Int /\ H!NewYear(z + 1) \in Int
    <3>1. z + 1 \in Int
      OBVIOUS
    <3> QED BY <3>1, YearLengths DEF H!NewYear
  <2>2. y < z => H!NewYear(y + 1) <= H!NewYear(z)
    BY HebrewYearsApart
  <2>3. z < y => H!NewYear(z + 1) <= H!NewYear(y)
    BY HebrewYearsApart
  <2> QED BY <1>1, <1>9, <1>10, <2>1, <2>2, <2>3
<1> QED BY <1>7, <1>8 DEF H!HebrewYear, near

\* Every day is in a year.
LEMMA InHebrewYear ==
  ASSUME NEW n, InRange(n)
  PROVE  /\ H!HebrewYear(n) \in Int
         /\ H!NewYear(H!HebrewYear(n)) <= n /\ n < H!NewYear(H!HebrewYear(n) + 1)
<1>1. n \in Int /\ -365 <= n /\ n <= 3660000
  BY DEF InRange
<1>2. PICK y \in Int : 36525 * (y - 3760) <= 100 * n /\ 100 * n < 36525 * (y - 3759)
  <2>1. (n * 100) \div 36525 + 3760 \in Int
    BY <1>1
  <2>2. LET y == (n * 100) \div 36525 + 3760
        IN  36525 * (y - 3760) <= 100 * n /\ 100 * n < 36525 * (y - 3759)
    BY <1>1
  <2> QED BY <2>1, <2>2
<1>3. PICK M, K, s \in Int : Near(y, M, K, s)
  BY NearMoon
<1>4. PICK u \in Int :
        /\ u = H!NewYear(y) /\ K - 1373428 <= u /\ u <= K - 1373426
        /\ 19 * M = 235 * (y - 1) + 1 - s /\ 0 <= s /\ s <= 18
        /\ 25920 * (K - 1 - 29 * M) <= 5604 + 13753 * M
        /\ 5604 + 13753 * M < 25920 * (K - 29 * M)
  BY <1>3 DEF Near
<1>5. PICK N, L, t \in Int : Near(y + 3, N, L, t)
  <2>1. y + 3 \in Int
    OBVIOUS
  <2> QED BY <2>1, NearMoon
<1>6. PICK v \in Int :
        /\ v = H!NewYear(y + 3) /\ L - 1373428 <= v /\ v <= L - 1373426
        /\ 19 * N = 235 * (y + 2) + 1 - t /\ 0 <= t /\ t <= 18
        /\ 25920 * (L - 1 - 29 * N) <= 5604 + 13753 * N
        /\ 5604 + 13753 * N < 25920 * (L - 29 * N)
  <2>1. (y + 3) - 1 = y + 2
    OBVIOUS
  <2> QED BY <1>5, <2>1 DEF Near
<1>7. u <= n
  BY <1>1, <1>2, <1>4
<1>8. n < v
  BY <1>1, <1>2, <1>6
<1>9. PICK a \in Int, b \in Int : a = H!NewYear(y + 1) /\ b = H!NewYear(y + 2)
  <2>1. y + 1 \in Int /\ y + 2 \in Int
    OBVIOUS
  <2> QED BY <2>1, NewYearType
<1>10. \E z \in Int : H!NewYear(z) <= n /\ n < H!NewYear(z + 1)
  <2>1. CASE n < a
    BY <1>4, <1>7, <1>9, <2>1
  <2>2. CASE a <= n /\ n < b
    <3>1. y + 1 \in Int /\ (y + 1) + 1 = y + 2
      OBVIOUS
    <3> QED BY <1>9, <2>2, <3>1
  <2>3. CASE b <= n
    <3>1. y + 2 \in Int /\ (y + 2) + 1 = y + 3
      OBVIOUS
    <3> QED BY <1>6, <1>8, <1>9, <2>3, <3>1
  <2> QED BY <1>1, <1>9, <2>1, <2>2, <2>3
<1> QED BY <1>10, HebrewYearIs

\* The date of a day is of a month of its year, and leads back to the day.
LEMMA ToHebrewIs ==
  ASSUME NEW n, InRange(n)
  PROVE  LET h == H!ToHebrew(n)
         IN  /\ h.year = H!HebrewYear(n) /\ h.month \in H!Months(h.year)
             /\ h.day \in Int /\ 1 <= h.day /\ h.day <= H!DaysInMonth(h.year, h.month)
             /\ H!Before(h.year, h.month) \in Int /\ n = H!Before(h.year, h.month) + h.day
<1>1. PICK y \in Int : y = H!HebrewYear(n) /\ H!NewYear(y) <= n /\ n < H!NewYear(y + 1)
  BY InHebrewYear
<1>2. n \in Int
  BY DEF InRange
<1> DEFINE In(m) == LET day == n - H!Before(y, m) IN 0 < day /\ day <= H!DaysInMonth(y, m)
           month == CHOOSE m \in H!Months(y) : In(m)
<1>3. \E m \in H!Months(y) : In(m)
  <2>1. PICK m \in H!Months(y) : InMonth(y, m, n)
    BY <1>1, <1>2, MonthsCover
  <2>2. H!Before(y, m) \in Int /\ H!DaysInMonth(y, m) \in {29, 30}
    BY MonthOfYear
  <2>3. 0 < n - H!Before(y, m) /\ n - H!Before(y, m) <= H!DaysInMonth(y, m)
    BY <1>2, <2>1, <2>2 DEF InMonth
  <2> QED BY <2>3
<1>4. month \in H!Months(y) /\ In(month)
  BY <1>3
<1>5. H!ToHebrew(n) = [year |-> y, month |-> month, day |-> n - H!Before(y, month)]
  BY <1>1 DEF H!ToHebrew
<1> HIDE DEF month
<1>6. H!Before(y, month) \in Int /\ H!DaysInMonth(y, month) \in {29, 30}
  BY <1>4, MonthOfYear
<1>7. PICK b \in Int, l \in Int : b = H!Before(y, month) /\ l = H!DaysInMonth(y, month)
  BY <1>6
<1>8. n - b \in Int /\ 1 <= n - b /\ n - b <= l /\ n = b + (n - b)
  BY <1>2, <1>4, <1>7
<1> QED BY <1>1, <1>4, <1>5, <1>6, <1>7, <1>8

-----------------------------------------------------------------------------
(* The Hebrew occurrence *)

\* A Hebrew date of one of thirteen months.
StoredHebrew ==
  [calendar : {"hebrew"}, month : 1 .. 13, day : 1 .. 31, policy : {"adar_i", "adar_ii"}]

\* The month of a year that keeps the event, the day of it, and the number of that day.
KeptMonth(y) == H!ResolveMonth(y, event.month, event.policy)
HebrewYearsDay(y) == H!ToGregorian(y, KeptMonth(y), event.day)

\* Every year keeps it once, within the year.
LEMMA HebrewKeptOnce ==
  ASSUME event \in StoredHebrew, NEW y \in Int
  PROVE  \E d \in Int :
           /\ KeptMonth(y) \in H!Months(y) /\ 1 <= d /\ d <= H!DaysInMonth(y, KeptMonth(y))
           /\ HebrewYearsDay(y) = H!Before(y, KeptMonth(y)) + d
           /\ d = event.day \/ (d < event.day /\ d = H!DaysInMonth(y, KeptMonth(y)))
<1>1. event.month \in 1 .. 13 /\ event.day \in 1 .. 31
  BY DEF StoredHebrew
<1>2. KeptMonth(y) \in H!Months(y)
  BY <1>1 DEF KeptMonth, H!ResolveMonth, H!Months
<1>3. PICK l \in Int : l = H!DaysInMonth(y, KeptMonth(y)) /\ l \in {29, 30}
  BY <1>2, MonthOfYear
<1>4. CASE event.day > l
  <2>1. HebrewYearsDay(y) = H!Before(y, KeptMonth(y)) + l
    BY <1>3, <1>4 DEF HebrewYearsDay, H!ToGregorian
  <2>2. l \in Int /\ 1 <= l /\ l <= l /\ l < event.day
    BY <1>1, <1>3, <1>4
  <2> QED BY <1>2, <1>3, <2>1, <2>2
<1>5. CASE ~(event.day > l)
  <2>1. HebrewYearsDay(y) = H!Before(y, KeptMonth(y)) + event.day
    BY <1>3, <1>5 DEF HebrewYearsDay, H!ToGregorian
  <2>2. event.day \in Int /\ 1 <= event.day /\ event.day <= l
    BY <1>1, <1>3, <1>5
  <2> QED BY <1>2, <1>3, <2>1, <2>2
<1> QED BY <1>4, <1>5

\* So it falls within the year.
LEMMA HebrewDayInYear ==
  ASSUME event \in StoredHebrew, NEW y \in Int
  PROVE  /\ HebrewYearsDay(y) \in Int
         /\ H!NewYear(y) <= HebrewYearsDay(y) /\ HebrewYearsDay(y) < H!NewYear(y + 1)
<1>1. PICK d \in Int :
        /\ KeptMonth(y) \in H!Months(y) /\ 1 <= d /\ d <= H!DaysInMonth(y, KeptMonth(y))
        /\ HebrewYearsDay(y) = H!Before(y, KeptMonth(y)) + d
  BY HebrewKeptOnce
<1>2. PICK b \in Int, l \in Int, u \in Int, v \in Int :
        /\ b = H!Before(y, KeptMonth(y)) /\ l = H!DaysInMonth(y, KeptMonth(y))
        /\ u = H!NewYear(y) /\ v = H!NewYear(y + 1)
        /\ u <= b + 1 /\ b + l < v
  BY <1>1, MonthOfYear
<1> QED BY <1>1, <1>2

\* A day is one of the event's just when it is the one of its year.
LEMMA HebrewFalls ==
  ASSUME event \in StoredHebrew, NEW n, InRange(n)
  PROVE  HebrewDay(H!ToHebrew(n)) <=> HebrewYearsDay(H!HebrewYear(n)) = n
<1> DEFINE h == H!ToHebrew(n)
           y == H!HebrewYear(n)
<1>1. /\ h.year = y /\ h.month \in H!Months(y)
      /\ h.day \in Int /\ 1 <= h.day /\ h.day <= H!DaysInMonth(y, h.month)
      /\ H!Before(y, h.month) \in Int /\ n = H!Before(y, h.month) + h.day
  BY ToHebrewIs
<1>2. y \in Int /\ n \in Int
  BY InHebrewYear DEF InRange
<1>3. PICK d \in Int :
        /\ KeptMonth(y) \in H!Months(y) /\ 1 <= d /\ d <= H!DaysInMonth(y, KeptMonth(y))
        /\ HebrewYearsDay(y) = H!Before(y, KeptMonth(y)) + d
        /\ d = event.day \/ (d < event.day /\ d = H!DaysInMonth(y, KeptMonth(y)))
  BY <1>2, HebrewKeptOnce
<1> HIDE DEF h, y
<1>4. PICK m, k : m = h.month /\ k = KeptMonth(y)
  OBVIOUS
<1>5. HebrewDay(h) <=> /\ m = k
                       /\ h.day = event.day \/ (h.day < event.day /\ h.day = H!DaysInMonth(y, m))
  <2>1. event.month \in 1 .. 13
    BY DEF StoredHebrew
  <2>2. m \in H!Months(y)
    BY <1>1, <1>4
  <2>3. (CASE event.month = 12 /\ event.policy = "adar_ii" -> m = IF 13 \in H!Months(y) THEN 13 ELSE 12
           [] event.month = 13 -> m >= 12 /\ m + 1 \notin H!Months(y)
           [] OTHER -> m = event.month) <=> m = k
    <3>1. CASE event.month = 12 /\ event.policy = "adar_ii"
      BY <1>4, <2>2, <3>1 DEF KeptMonth, H!ResolveMonth, H!Months
    <3>2. CASE event.month = 13
      BY <1>4, <2>2, <3>2 DEF KeptMonth, H!ResolveMonth, H!Months
    <3>3. CASE event.month # 13 /\ ~(event.month = 12 /\ event.policy = "adar_ii")
      <4>1. k = event.month
        BY <1>4, <2>1, <3>3 DEF KeptMonth, H!ResolveMonth
      <4> QED BY <3>3, <4>1
    <3> QED BY <3>1, <3>2, <3>3
  <2> QED BY <1>1, <1>4, <2>3 DEF HebrewDay
<1>6. PICK b \in Int, l \in Int, g \in Int, c \in Int, e \in Int :
        /\ b = H!Before(y, m) /\ l = H!DaysInMonth(y, m) /\ g = h.day
        /\ c = H!Before(y, k) /\ e = H!DaysInMonth(y, k)
  <2>1. m \in H!Months(y) /\ k \in H!Months(y)
    BY <1>1, <1>3, <1>4
  <2>2. H!Before(y, m) \in Int /\ H!DaysInMonth(y, m) \in {29, 30}
    BY <1>2, <2>1, MonthOfYear
  <2>3. H!Before(y, k) \in Int /\ H!DaysInMonth(y, k) \in {29, 30}
    BY <1>2, <2>1, MonthOfYear
  <2> QED BY <1>1, <2>2, <2>3
<1>7. HebrewYearsDay(y) = n => m = k
  <2> SUFFICES ASSUME HebrewYearsDay(y) = n PROVE m = k
    OBVIOUS
  <2>1. b < n /\ n <= b + l
    BY <1>1, <1>4, <1>6
  <2>2. c < n /\ n <= c + e
    BY <1>3, <1>4, <1>6
  <2>3. InMonth(y, m, n) /\ InMonth(y, k, n)
    BY <1>6, <2>1, <2>2 DEF InMonth
  <2> QED BY <1>1, <1>2, <1>3, <1>4, <2>3, MonthsDisjoint
<1>8. event.day \in Int
  BY DEF StoredHebrew
<1>9. m = k => (HebrewYearsDay(y) = n <=> g = d)
  BY <1>1, <1>3, <1>4, <1>6
<1>10. m = k => (g = d <=> g = event.day \/ (g < event.day /\ g = l))
  BY <1>1, <1>3, <1>4, <1>6, <1>8
<1> QED BY <1>5, <1>6, <1>7, <1>9, <1>10 DEF h, y

-----------------------------------------------------------------------------
(* Day after day *)

\* A date as the clock has it.
Calendar == [year : Nat, month : 1 .. 12, day : Nat]

\* Tomorrow is the next day, of the same year or the first of the next.
LEMMA TomorrowIsNext ==
  ASSUME NEW t \in Calendar, IsDate(t.year, t.month, t.day)
  PROVE  LET u == Tomorrow(t)
         IN  /\ u \in Calendar /\ IsDate(u.year, u.month, u.day)
             /\ Day(t) \in Int /\ Day(u) = Day(t) + 1
             /\ u.year = t.year \/ (u.year = t.year + 1 /\ Day(t) = First(t.year + 1))
<1> DEFINE y == t.year
           m == t.month
           d == t.day
           u == Tomorrow(t)
<1>1. y \in Int /\ y \in Nat /\ m \in 1 .. 12 /\ d \in Nat /\ d >= 1 /\ d <= MonthLength(y, m)
      /\ t = [year |-> y, month |-> m, day |-> d]
  BY DEF Calendar, IsDate
<1>2. MonthLength(y, m) \in Nat /\ MonthStart(y, m) \in Nat /\ First(y) \in Int /\ YearLength(y) \in Nat
  <2>1. MonthLength(y, m) \in Nat /\ MonthStart(y, m) \in Nat
    BY <1>1, MonthTypes
  <2> QED BY <1>1, <2>1, YearStep
<1>3. Day(t) = First(y) + MonthStart(y, m) + d
  BY <1>1, NumberSplit DEF Day
<1>4. CASE d < MonthLength(y, m)
  <2>1. u = [year |-> y, month |-> m, day |-> d + 1]
    BY <1>1, <1>4 DEF Tomorrow
  <2>2. Day(u) = First(y) + MonthStart(y, m) + (d + 1)
    BY <1>1, <2>1, NumberSplit DEF Day
  <2>3. IsDate(y, m, d + 1)
    BY <1>1, <1>2, <1>4 DEF IsDate
  <2> HIDE DEF u
  <2>4. Day(u) = Day(t) + 1 /\ Day(t) \in Int
    BY <1>1, <1>2, <1>3, <2>2
  <2> QED BY <1>1, <2>1, <2>3, <2>4 DEF Calendar, u
<1>5. CASE d = MonthLength(y, m) /\ m < 12
  <2>1. u = [year |-> y, month |-> m + 1, day |-> 1]
    <3>1. ~(d < MonthLength(y, m))
      BY <1>1, <1>2, <1>5
    <3>2. u = [t EXCEPT !.month = m + 1, !.day = 1]
      BY <1>5, <3>1 DEF Tomorrow
    <3> QED BY <1>1, <3>2
  <2>2. m \in 1 .. 11 /\ m + 1 \in 1 .. 12
    BY <1>1, <1>5
  <2>3. Day(u) = First(y) + MonthStart(y, m + 1) + 1
    BY <1>1, <2>1, <2>2, NumberSplit DEF Day
  <2>4. MonthStart(y, m) + MonthLength(y, m) = MonthStart(y, m + 1)
    BY <1>1, <2>2, NextMonth
  <2>5. IsDate(y, m + 1, 1)
    <3> DEFINE n == m + 1
    <3>1. n \in 1 .. 12
      BY <2>2
    <3> HIDE DEF n
    <3>2. MonthLength(y, n) \in Nat /\ 28 <= MonthLength(y, n)
      BY <1>1, <3>1, MonthTypes
    <3>3. IsDate(y, n, 1)
      BY <3>1, <3>2 DEF IsDate
    <3> QED BY <3>3 DEF n
  <2> HIDE DEF u
  <2>6. Day(u) = Day(t) + 1 /\ Day(t) \in Int
    BY <1>1, <1>2, <1>3, <1>5, <2>3, <2>4
  <2> QED BY <1>1, <2>1, <2>2, <2>5, <2>6 DEF Calendar, u
<1>6. CASE d = MonthLength(y, m) /\ m = 12
  <2>1. u = [year |-> y + 1, month |-> 1, day |-> 1]
    BY <1>1, <1>2, <1>6 DEF Tomorrow
  <2>2. 1 \in 1 .. 12 /\ y + 1 \in Int /\ y + 1 \in Nat
    BY <1>1
  <2>3. Day(u) = First(y + 1) + MonthStart(y + 1, 1) + 1
    BY <2>1, <2>2, NumberSplit DEF Day
  <2>4. MonthStart(y + 1, 1) = 0
    BY DEF MonthStart
  <2>5. d = 31 /\ MonthStart(y, m) + 31 = YearLength(y) /\ First(y + 1) = First(y) + YearLength(y)
    <3>1. MonthLength(y, 12) = 31 /\ MonthStart(y, 12) + 31 = YearLength(y)
      BY <1>1, LastMonth
    <3>2. First(y + 1) = First(y) + YearLength(y)
      BY <1>1, YearStep
    <3> QED BY <1>6, <3>1, <3>2
  <2>6. IsDate(y + 1, 1, 1)
    <3>1. MonthLength(y + 1, 1) \in Nat /\ 28 <= MonthLength(y + 1, 1)
      BY <2>2, MonthTypes
    <3> QED BY <2>2, <3>1 DEF IsDate
  <2> HIDE DEF u
  <2>7. Day(t) = First(y + 1) /\ Day(u) = Day(t) + 1 /\ Day(t) \in Int
    BY <1>2, <1>3, <2>3, <2>4, <2>5
  <2> QED BY <2>1, <2>2, <2>6, <2>7 DEF Calendar, u
<1>7. d < MonthLength(y, m) \/ (d = MonthLength(y, m) /\ m < 12) \/ (d = MonthLength(y, m) /\ m = 12)
  BY <1>1, <1>2
<1> QED BY <1>4, <1>5, <1>6, <1>7

\* A date is one of the event's days just when it is the one of its year.
LEMMA GregorianFalls ==
  ASSUME event \in Stored, event.month = 2 => event.day <= 29,
         NEW t \in Calendar, IsDate(t.year, t.month, t.day)
  PROVE  GregorianDay(t) <=> YearsDay(t.year) = Day(t)
<1>1. t.year \in Int /\ t.day \in Int
  BY DEF Calendar
<1>2. GregorianDay(t) <=> Keeps(t.year, t.month, t.day)
  BY DEF GregorianDay, Keeps
<1>3. PICK m \in 1 .. 12, d \in Int :
        /\ IsDate(t.year, m, d) /\ YearsDay(t.year) = Number(t.year, m, d)
        /\ \A k, e : IsDate(t.year, k, e) => (Keeps(t.year, k, e) <=> k = m /\ e = d)
  BY <1>1, KeptOnce
<1>4. GregorianDay(t) <=> t.month = m /\ t.day = d
  BY <1>2, <1>3
<1>5. Number(t.year, m, d) = Number(t.year, t.month, t.day) => m = t.month /\ d = t.day
  BY <1>1, <1>3, OwnNumber
<1> QED BY <1>3, <1>4, <1>5 DEF Day

-----------------------------------------------------------------------------
(* Both calendars *)

\* The day that a year of the event's calendar keeps it on, and the day the year begins.
Own(y) == IF event.calendar = "hebrew" THEN HebrewYearsDay(y) ELSE YearsDay(y)
Begins(y) == IF event.calendar = "hebrew" THEN H!NewYear(y) ELSE First(y) + 1

\* An event with one of those dates.
Dated ==
  \/ event \in Stored /\ (event.month = 2 => event.day <= 29)
  \/ event \in StoredHebrew

\* Either way the day is within its year.
LEMMA OwnInYear ==
  ASSUME Dated, NEW y \in Int
  PROVE  /\ Begins(y) \in Int /\ Begins(y + 1) \in Int /\ Own(y) \in Int
         /\ Begins(y) <= Own(y) /\ Own(y) < Begins(y + 1)
<1>1. CASE event \in Stored /\ (event.month = 2 => event.day <= 29)
  <2>1. event.calendar # "hebrew"
    BY <1>1 DEF Stored
  <2>2. PICK a \in Int, b \in Int, d \in Int :
          a = First(y) /\ b = First(y + 1) /\ d = YearsDay(y) /\ a < d /\ d <= b
    <3>1. y + 1 \in Int
      OBVIOUS
    <3> QED BY <1>1, <3>1, YearStep, YearsDayInYear
  <2>3. Begins(y) = a + 1 /\ Begins(y + 1) = b + 1 /\ Own(y) = d
    BY <2>1, <2>2 DEF Begins, Own
  <2> QED BY <2>2, <2>3
<1>2. CASE event \in StoredHebrew
  <2>1. event.calendar = "hebrew"
    BY <1>2 DEF StoredHebrew
  <2>2. y + 1 \in Int
    OBVIOUS
  <2> QED BY <1>2, <2>1, <2>2, NewYearType, HebrewDayInYear DEF Begins, Own
<1> QED BY <1>1, <1>2 DEF Dated

\* The days before the years 0, 1 and 10000.
LEMMA FirstDays == First(0) = -366 /\ First(1) = 0 /\ First(10000) = 3652059
<1>2. \A y, l \in Int : y = 1 /\ l = (y - 1) \div 4 - (y - 1) \div 100 + (y - 1) \div 400
                      => 365 * (y - 1) + l = 0
  BY SMT
<1>3. \A y, l \in Int : y = 10000 /\ l = (y - 1) \div 4 - (y - 1) \div 100 + (y - 1) \div 400
                      => 365 * (y - 1) + l = 3652059
  BY SMT
<1>4. \A y \in Int : LeapDays(y) \in Int
  BY LeapStep
<1>5. 0 \in Int /\ 1 \in Int /\ 10000 \in Int
  OBVIOUS
<1>7. First(1) = 0
  <2>1. PICK y \in Int : y = 1
    OBVIOUS
  <2>2. PICK l \in Int : l = LeapDays(y)
    BY <1>4
  <2>3. First(y) = 0
    BY <1>2, <2>1, <2>2, SMT DEF First, LeapDays
  <2> QED BY <2>1, <2>3, SMT
<1>6. First(0) = -366
  <2>1. PICK a \in Int, z \in Int : z = 0 /\ a = First(z)
    BY <1>5, YearStep
  <2>2. IsLeap(z)
    BY <2>1 DEF IsLeap
  <2>3. First(z + 1) = a + 366
    BY <2>1, <2>2, YearStep DEF YearLength
  <2>4. z + 1 = 1
    BY <2>1
  <2> QED BY <1>7, <2>1, <2>3, <2>4, SMT
<1>8. First(10000) = 3652059
  <2>1. PICK y \in Int : y = 10000
    BY <1>5, SMT
  <2>2. PICK l \in Int : l = LeapDays(y)
    BY <1>4
  <2>3. First(y) = 3652059
    BY <1>3, <2>1, <2>2, SMT DEF First, LeapDays
  <2> QED BY <2>1, <2>3, SMT
<1> QED BY <1>6, <1>7, <1>8, SMT

\* A day of the model is in the year that AgeAt counts from.
LEMMA YearOfIs ==
  ASSUME Dated, NEW y \in Int, NEW n, InRange(n), Begins(y) <= n, n < Begins(y + 1)
  PROVE  YearOf(n) = y
<1>1. n \in Int /\ -365 <= n
  BY DEF InRange
<1>2. CASE event \in Stored
  <2>1. event.calendar # "hebrew"
    BY <1>2 DEF Stored
  <2>2. PICK a \in Int, b \in Int : a = First(y) /\ b = First(y + 1)
    <3>1. y + 1 \in Int
      OBVIOUS
    <3> QED BY <3>1, YearStep
  <2>3. a < n /\ n <= b
    BY <1>1, <2>1, <2>2 DEF Begins
  <2>4. y \in Nat
    <3>1. y < 0 => First(y + 1) <= First(0)
      BY YearsApart
    <3> QED BY <1>1, <2>2, <2>3, <3>1, FirstDays, SMT
  <2>5. GregorianYear(n) = y
    BY <1>1, <2>2, <2>3, <2>4, YearOfDay
  <2> QED BY <2>1, <2>5 DEF YearOf
<1>3. CASE event \in StoredHebrew
  <2>1. event.calendar = "hebrew"
    BY <1>3 DEF StoredHebrew
  <2> QED BY <2>1, HebrewYearIs DEF Begins, YearOf
<1> QED BY <1>2, <1>3 DEF Dated

\* The days of the model are those of its years.
LEMMA DaysInRange ==
  ASSUME NEW t \in Calendar, IsDate(t.year, t.month, t.day), t.year <= 9999
  PROVE  Day(t) \in Int /\ -365 <= Day(t) /\ Day(t) <= 3652059
<1>1. t.year \in Nat /\ t.year \in Int /\ t.day \in Int
  BY DEF Calendar
<1>2. PICK a \in Int, b \in Int, n \in Int :
        a = First(t.year) /\ b = First(t.year + 1) /\ n = Day(t) /\ a < n /\ n <= b
  <2>1. t.year + 1 \in Int
    BY <1>1
  <2>2. First(t.year) \in Int /\ First(t.year + 1) \in Int
    BY <1>1, <2>1, YearStep
  <2>3. Day(t) \in Int /\ First(t.year) < Day(t) /\ Day(t) <= First(t.year + 1)
    BY <1>1, InItsYear DEF Day
  <2> QED BY <2>2, <2>3
<1>3. First(0) = -366 /\ First(1) = 0 /\ First(10000) = 3652059
  BY FirstDays, SMT
<1>4. t.year = 0 \/ First(1) <= a
  <2>1. 0 < t.year => First(0 + 1) <= First(t.year)
    BY <1>1, YearsApart
  <2> QED BY <1>1, <1>2, <2>1
<1>5. b <= First(10000)
  <2>1. t.year < 10000
    BY <1>1
  <2> QED BY <1>1, <1>2, <2>1, YearsApart
<1> QED BY <1>2, <1>3, <1>4, <1>5

\* No year is longer than 385 days.
LEMMA YearsShort ==
  ASSUME Dated, NEW y \in Int
  PROVE  Begins(y + 1) <= Begins(y) + 385
<1>1. CASE event.calendar = "hebrew"
  <2>1. PICK i \in Int, j \in Int : i = H!Elapsed(y) /\ j = H!Elapsed(y + 1)
    BY YearLengths
  <2>2. j - i \in {383, 384, 385} \cup {353, 354, 355}
    BY <2>1, YearLengths
  <2>3. Begins(y) = i - 1373428 /\ Begins(y + 1) = j - 1373428
    BY <1>1, <2>1 DEF Begins, H!NewYear
  <2> QED BY <2>1, <2>2, <2>3, SMT
<1>2. CASE event.calendar # "hebrew"
  <2>1. First(y) \in Int /\ YearLength(y) \in {365, 366} /\ First(y + 1) = First(y) + YearLength(y)
    BY YearStep DEF YearLength
  <2> QED BY <1>2, <2>1 DEF Begins
<1> QED BY <1>1, <1>2

\* The year of a day, and what comes next on that day.
IsIn(t, y) ==
  /\ Begins(y) <= Day(t) /\ Day(t) < Begins(y + 1)
  /\ NextOccurrence(t) = IF Own(y) >= Day(t) THEN Own(y) ELSE Own(y + 1)
  /\ FallsOn(t) <=> Own(y) = Day(t)

\* Every day is in a year of the event's calendar.
LEMMA DayInYear ==
  ASSUME Dated, NEW t \in Calendar, IsDate(t.year, t.month, t.day), t.year <= 9999
  PROVE  \E y \in Int : IsIn(t, y)
<1>1. Day(t) \in Int /\ -365 <= Day(t) /\ Day(t) <= 3652059
  BY DaysInRange
<1>2. CASE event \in Stored /\ (event.month = 2 => event.day <= 29)
  <2>1. event.calendar = "gregorian" /\ t.year \in Int /\ t.day \in Int
    BY <1>2 DEF Stored, Calendar
  <2>2. PICK a \in Int, b \in Int : a = First(t.year) /\ b = First(t.year + 1) /\ a < Day(t) /\ Day(t) <= b
    <3>1. t.year + 1 \in Int
      BY <2>1
    <3>2. First(t.year) \in Int /\ First(t.year + 1) \in Int
      BY <2>1, <3>1, YearStep
    <3>3. First(t.year) < Day(t) /\ Day(t) <= First(t.year + 1)
      BY <2>1, InItsYear DEF Day
    <3> QED BY <3>2, <3>3
  <2>3. Begins(t.year) <= Day(t) /\ Day(t) < Begins(t.year + 1)
    BY <1>1, <2>1, <2>2 DEF Begins
  <2>4. NextOccurrence(t) = IF Own(t.year) >= Day(t) THEN Own(t.year) ELSE Own(t.year + 1)
    BY <2>1 DEF NextOccurrence, nextGregorianOccurrence, YearsDay, Own
  <2>5. FallsOn(t) <=> Own(t.year) = Day(t)
    BY <1>2, <2>1, GregorianFalls DEF FallsOn, Own
  <2> QED BY <2>1, <2>3, <2>4, <2>5 DEF IsIn
<1>3. CASE event \in StoredHebrew
  <2> DEFINE y == H!HebrewYear(Day(t))
  <2>1. event.calendar = "hebrew"
    BY <1>3 DEF StoredHebrew
  <2>2. InRange(Day(t))
    BY <1>1, SMT DEF InRange
  <2>3. y \in Int /\ H!NewYear(y) <= Day(t) /\ Day(t) < H!NewYear(y + 1)
    BY <2>2, InHebrewYear
  <2>4. NextOccurrence(t) = IF HebrewYearsDay(y) >= Day(t) THEN HebrewYearsDay(y) ELSE HebrewYearsDay(y + 1)
    BY <2>1 DEF NextOccurrence, H!nextHebrewOccurrence, HebrewYearsDay, KeptMonth
  <2>5. FallsOn(t) <=> HebrewYearsDay(y) = Day(t)
    BY <1>3, <2>1, <2>2, HebrewFalls DEF FallsOn
  <2> HIDE DEF y
  <2> QED BY <2>1, <2>3, <2>4, <2>5 DEF IsIn, Begins, Own
<1> QED BY <1>2, <1>3 DEF Dated

\* The day after, in the same year or the next.
LEMMA DayAfter ==
  ASSUME Dated, NEW t \in Calendar, IsDate(t.year, t.month, t.day), t.year <= 9999,
         Tomorrow(t).year <= 9999, NEW y \in Int, IsIn(t, y)
  PROVE  NextOccurrence(Tomorrow(t)) = IF Own(y) > Day(t) THEN Own(y) ELSE Own(y + 1)
<1> DEFINE u == Tomorrow(t)
<1>1. u \in Calendar /\ IsDate(u.year, u.month, u.day) /\ Day(u) = Day(t) + 1
  BY TomorrowIsNext
<1>2. Day(t) \in Int /\ Day(u) \in Int /\ InRange(Day(u))
  <2>1. Day(u) \in Int /\ -365 <= Day(u) /\ Day(u) <= 3652059
    BY <1>1, DaysInRange
  <2> QED BY <2>1, DaysInRange, SMT DEF InRange
<1>3. PICK z \in Int : IsIn(u, z)
  BY <1>1, DayInYear
<1> HIDE DEF u
<1>4. YearOf(Day(u)) = z
  BY <1>2, <1>3, YearOfIs DEF IsIn
<1>5. /\ Begins(y) \in Int /\ Begins(y + 1) \in Int /\ Own(y) \in Int
      /\ Begins(y) <= Own(y) /\ Own(y) < Begins(y + 1)
  BY OwnInYear
<1>6. /\ y + 1 \in Int /\ Begins((y + 1) + 1) \in Int /\ Own(y + 1) \in Int
      /\ Begins(y + 1) <= Own(y + 1) /\ Own(y + 1) < Begins((y + 1) + 1)
  <2>1. y + 1 \in Int
    OBVIOUS
  <2> QED BY <2>1, OwnInYear
<1>7. Begins(y) <= Day(t) /\ Day(t) < Begins(y + 1)
  BY DEF IsIn
<1>8. NextOccurrence(u) = IF Own(z) >= Day(u) THEN Own(z) ELSE Own(z + 1)
  BY <1>3 DEF IsIn
<1>9. CASE Day(u) < Begins(y + 1)
  <2>1. Begins(y) <= Day(u)
    BY <1>1, <1>2, <1>5, <1>7
  <2>2. z = y
    BY <1>2, <1>4, <1>9, <2>1, YearOfIs
  <2> QED BY <1>1, <1>2, <1>5, <1>8, <2>2 DEF u
<1>10. CASE Day(u) = Begins(y + 1)
  <2>1. Begins(y + 1) <= Day(u) /\ Day(u) < Begins((y + 1) + 1)
    BY <1>2, <1>5, <1>6, <1>10
  <2>2. z = y + 1
    BY <1>2, <1>4, <1>6, <2>1, YearOfIs
  <2>3. NextOccurrence(u) = Own(y + 1)
    BY <1>6, <1>8, <1>10, <2>2
  <2>4. ~(Own(y) > Day(t))
    BY <1>1, <1>2, <1>5, <1>10
  <2> QED BY <2>3, <2>4 DEF u
<1> QED BY <1>1, <1>2, <1>5, <1>7, <1>9, <1>10

\* What comes next is today just on the day of its year.
LEMMA TodayIsOwn ==
  ASSUME Dated, NEW t \in Calendar, IsDate(t.year, t.month, t.day), t.year <= 9999,
         NEW y \in Int, IsIn(t, y)
  PROVE  /\ Day(t) \in Int /\ Own(y) \in Int
         /\ NextOccurrence(t) = Day(t) <=> Own(y) = Day(t)
<1>1. Day(t) \in Int
  BY DaysInRange
<1>2. Own(y) \in Int /\ Begins(y + 1) \in Int
  BY OwnInYear
<1>3. Own(y + 1) \in Int /\ Begins(y + 1) <= Own(y + 1)
  <2>1. y + 1 \in Int
    OBVIOUS
  <2> QED BY <2>1, OwnInYear
<1>4. Day(t) < Begins(y + 1) /\ NextOccurrence(t) = IF Own(y) >= Day(t) THEN Own(y) ELSE Own(y + 1)
  BY DEF IsIn
<1> QED BY <1>1, <1>2, <1>3, <1>4

-----------------------------------------------------------------------------
(* Theorems *)

\* The dates that the dialogues take: a Gregorian date is of one of twelve months, and no later
\* than the 29th of February; the 31st of a shorter month is kept on its 30th.
DialogueDates ==
  \A i \in Inputs : i.calendar = "gregorian" => i.month <= 12 /\ (i.month = 2 => i.day <= 29)

\* The years are those of four digits.
FourDigitYears == FirstYear <= LastYear /\ LastYear < 9999

\* The clock shows a date; with the event, that is the inductive invariant.
ClockInv == today \in Calendar /\ IsDate(today.year, today.month, today.day) /\ today.year <= 9999
DaysInv == ClockInv /\ Dated

\* The clock begins on a date.
LEMMA ClockInit ==
  ASSUME FourDigitYears, Init
  PROVE  ClockInv
<1>1. FirstYear \in Nat /\ LastYear \in Nat /\ today = [year |-> FirstYear, month |-> 1, day |-> 1]
  BY OccurrencesAssumption DEF Init
<1>2. IsDate(FirstYear, 1, 1)
  <2>1. 1 \in 1 .. 12
    OBVIOUS
  <2>2. 28 <= MonthLength(FirstYear, 1) /\ MonthLength(FirstYear, 1) \in Nat
    BY <1>1, <2>1, MonthTypes
  <2> QED BY <2>1, <2>2 DEF IsDate
<1>3. FirstYear <= 9999
  BY <1>1, SMT DEF FourDigitYears
<1> QED BY <1>1, <1>2, <1>3 DEF ClockInv, Calendar

\* The day after, the date is still a date.
LEMMA ClockNext == ASSUME FourDigitYears, ClockInv, [Next]_vars PROVE ClockInv'
<1>1. CASE UNCHANGED vars
  BY <1>1 DEF ClockInv, vars
<1>2. CASE Next
  <2>1. today' = Tomorrow(today) /\ today.year <= LastYear
    BY <1>2 DEF Next, NextDay
  <2>2. /\ today' \in Calendar /\ IsDate(today'.year, today'.month, today'.day)
        /\ today'.year = today.year \/ today'.year = today.year + 1
    BY <2>1, TomorrowIsNext DEF ClockInv
  <2>3. today.year \in Nat /\ LastYear \in Nat
    BY OccurrencesAssumption DEF ClockInv, Calendar
  <2>4. today'.year <= 9999
    BY <2>1, <2>2, <2>3, SMT DEF FourDigitYears
  <2> QED BY <2>2, <2>4 DEF ClockInv
<1> QED BY <1>1, <1>2

\* Initially the event has one of the dates,
LEMMA DaysInit ==
  ASSUME DialogueDates, FourDigitYears, Init
  PROVE  DaysInv
<1>1. event \in Inputs
  BY DEF Init
<1>2. event \in Date("gregorian", {"feb28", "mar01"}) \/ event \in Date("hebrew", {"adar_i", "adar_ii"})
  BY <1>1, OccurrencesAssumption
<1>3. CASE event \in Date("gregorian", {"feb28", "mar01"})
  <2>1. event.month <= 12 /\ (event.month = 2 => event.day <= 29)
    BY <1>1, <1>3 DEF Date, DialogueDates
  <2> QED BY <1>3, <2>1, ClockInit DEF Date, Stored, Dated, DaysInv
<1>4. CASE event \in Date("hebrew", {"adar_i", "adar_ii"})
  BY <1>4, ClockInit DEF Date, StoredHebrew, Dated, DaysInv
<1> QED BY <1>2, <1>3, <1>4

\* and it keeps it.
LEMMA DaysNext == ASSUME FourDigitYears, DaysInv, [Next]_vars PROVE DaysInv'
<1>1. event' = event
  BY DEF vars, Next, NextDay
<1> QED BY <1>1, ClockNext DEF DaysInv, Dated, Stored, StoredHebrew

\* The clock passes through dates, and every day's Hebrew date is of a month of its year and leads
\* back to the day: the backfill of dual dates loses nothing, whatever the day.
THEOREM DaysTyped ==
  ASSUME FourDigitYears
  PROVE  Spec => []TypeOK
<1>1. ClockInv => TypeOK
  <2> SUFFICES ASSUME ClockInv PROVE TypeOK
    OBVIOUS
  <2> DEFINE h == H!ToHebrew(Day(today))
  <2>1. Day(today) \in Int /\ -365 <= Day(today) /\ Day(today) <= 3652059
    BY DaysInRange DEF ClockInv
  <2>2. InRange(Day(today))
    BY <2>1, SMT DEF InRange
  <2>3. /\ h.month \in H!Months(h.year) /\ h.year = H!HebrewYear(Day(today))
        /\ h.day \in Int /\ h.day <= H!DaysInMonth(h.year, h.month)
        /\ Day(today) = H!Before(h.year, h.month) + h.day
    BY <2>2, ToHebrewIs
  <2>4. h.year \in Int
    BY <2>2, <2>3, InHebrewYear
  <2>5. H!DaysInMonth(h.year, h.month) \in {29, 30}
    BY <2>3, <2>4, MonthOfYear
  <2> HIDE DEF h
  <2>6. ~(h.day > H!DaysInMonth(h.year, h.month))
    BY <2>3, <2>5
  <2>7. H!ToGregorian(h.year, h.month, h.day) = Day(today)
    BY <2>3, <2>6 DEF H!ToGregorian
  <2> QED BY <2>3, <2>7 DEF TypeOK, ClockInv, h
<1>2. Init => ClockInv
  BY ClockInit
<1>3. ClockInv /\ [Next]_vars => ClockInv'
  BY ClockNext
<1> QED BY <1>1, <1>2, <1>3, PTL DEF Spec

\* On the day itself, and only then, the next occurrence is today: for every date of both
\* calendars that the dialogues take, both policies of Feb 29 and of the two Adars, every year.
THEOREM TodayIsTheDay ==
  ASSUME DialogueDates, FourDigitYears
  PROVE  Spec => []TodayWhenItFalls
<1>1. DaysInv => TodayWhenItFalls
  <2> SUFFICES ASSUME DaysInv PROVE TodayWhenItFalls
    OBVIOUS
  <2>1. PICK y \in Int : IsIn(today, y)
    BY DayInYear DEF DaysInv, ClockInv
  <2>2. NextOccurrence(today) = Day(today) <=> Own(y) = Day(today)
    BY <2>1, TodayIsOwn DEF DaysInv, ClockInv
  <2> QED BY <2>1, <2>2 DEF IsIn, TodayWhenItFalls
<1>2. Init => DaysInv
  BY DaysInit
<1>3. DaysInv /\ [Next]_vars => DaysInv'
  BY DaysNext
<1> QED BY <1>1, <1>2, <1>3, PTL DEF Spec

\* The next occurrence is never a day that has passed: what ReminderEngine assumes of NextOcc
\* holds of every date that the dialogues take.
THEOREM NextIsNotPast ==
  ASSUME DialogueDates, FourDigitYears
  PROVE  Spec => [](NextOccurrence(today) >= Day(today))
<1>1. DaysInv => NextOccurrence(today) >= Day(today)
  <2> SUFFICES ASSUME DaysInv PROVE NextOccurrence(today) >= Day(today)
    OBVIOUS
  <2>1. PICK y \in Int : IsIn(today, y)
    BY DayInYear DEF DaysInv, ClockInv
  <2>2. Day(today) \in Int /\ Own(y) \in Int
    BY <2>1, TodayIsOwn DEF DaysInv, ClockInv
  <2>3. Own(y + 1) \in Int /\ Begins(y + 1) \in Int /\ Begins(y + 1) <= Own(y + 1)
    <3>1. y + 1 \in Int
      OBVIOUS
    <3> QED BY <3>1, OwnInYear DEF DaysInv
  <2>4. /\ Day(today) < Begins(y + 1)
        /\ NextOccurrence(today) = IF Own(y) >= Day(today) THEN Own(y) ELSE Own(y + 1)
    BY <2>1 DEF IsIn
  <2> QED BY <2>2, <2>3, <2>4
<1>2. Init => DaysInv
  BY DaysInit
<1>3. DaysInv /\ [Next]_vars => DaysInv'
  BY DaysNext
<1> QED BY <1>1, <1>2, <1>3, PTL DEF Spec

\* A step of the clock: the year of today, and what comes next tomorrow.
LEMMA ClockStep ==
  ASSUME FourDigitYears, DaysInv, Next
  PROVE  \E y \in Int :
           /\ IsIn(today, y)
           /\ NextOccurrence(today') = IF Own(y) > Day(today) THEN Own(y) ELSE Own(y + 1)
<1>1. today' = Tomorrow(today)
  BY DEF Next, NextDay
<1>2. ClockInv'
  BY ClockNext DEF DaysInv
<1>3. PICK y \in Int : IsIn(today, y)
  BY DayInYear DEF DaysInv, ClockInv
<1> QED BY <1>1, <1>2, <1>3, DayAfter DEF DaysInv, ClockInv

\* Until it has passed, the next occurrence is the same whichever day it is computed on, across
\* the new years of both calendars.
THEOREM NextIsStable ==
  ASSUME DialogueDates, FourDigitYears
  PROVE  Spec => StableUntilPassed
<1>1. ASSUME DaysInv, Next, NextOccurrence(today) # Day(today)
      PROVE  NextOccurrence(today') = NextOccurrence(today)
  <2>1. PICK y \in Int : /\ IsIn(today, y)
                         /\ NextOccurrence(today') = IF Own(y) > Day(today) THEN Own(y) ELSE Own(y + 1)
    BY <1>1, ClockStep
  <2>2. Day(today) \in Int /\ Own(y) \in Int /\ Own(y) # Day(today)
    BY <1>1, <2>1, TodayIsOwn DEF DaysInv, ClockInv
  <2>3. NextOccurrence(today) = IF Own(y) >= Day(today) THEN Own(y) ELSE Own(y + 1)
    BY <2>1 DEF IsIn
  <2> QED BY <2>1, <2>2, <2>3
<1>2. DaysInv /\ [Next]_vars =>
        [NextOccurrence(today) # Day(today) => NextOccurrence(today') = NextOccurrence(today)]_vars
  BY <1>1
<1>3. Init => DaysInv
  BY DaysInit
<1>4. DaysInv /\ [Next]_vars => DaysInv'
  BY DaysNext
<1> QED BY <1>2, <1>3, <1>4, PTL DEF Spec, StableUntilPassed

\* Every year of the event's calendar has one occurrence, so that the age shown grows by one from
\* each to the next: leap years and leap months neither skip nor repeat one.
THEOREM YearsHaveOne ==
  ASSUME DialogueDates, FourDigitYears
  PROVE  Spec => OncePerYear
<1>1. ASSUME DaysInv, Next, NextOccurrence(today) = Day(today)
      PROVE  YearOf(NextOccurrence(today')) = YearOf(Day(today)) + 1
  <2>1. PICK y \in Int : /\ IsIn(today, y)
                         /\ NextOccurrence(today') = IF Own(y) > Day(today) THEN Own(y) ELSE Own(y + 1)
    BY <1>1, ClockStep
  <2>2. Day(today) \in Int /\ Own(y) \in Int /\ Own(y) = Day(today)
    BY <1>1, <2>1, TodayIsOwn DEF DaysInv, ClockInv
  <2>3. NextOccurrence(today') = Own(y + 1)
    BY <2>1, <2>2
  <2>4. -365 <= Day(today) /\ Day(today) <= 3652059
    BY <1>1, DaysInRange DEF DaysInv, ClockInv
  <2>5. InRange(Day(today))
    BY <2>2, <2>4, SMT DEF InRange
  <2>6. Begins(y) <= Day(today) /\ Day(today) < Begins(y + 1)
    BY <2>1 DEF IsIn
  <2>7. YearOf(Day(today)) = y
    BY <1>1, <2>5, <2>6, YearOfIs DEF DaysInv
  <2>8. y + 1 \in Int
    OBVIOUS
  <2>9. PICK a \in Int, b \in Int, c \in Int, d \in Int :
          /\ a = Begins(y) /\ b = Begins(y + 1) /\ c = Begins((y + 1) + 1) /\ d = Own(y + 1)
          /\ b <= d /\ d < c /\ b <= a + 385 /\ c <= b + 385
    <3>1. Begins(y) \in Int /\ Begins(y + 1) \in Int /\ Begins(y + 1) <= Begins(y) + 385
      BY <1>1, OwnInYear, YearsShort DEF DaysInv
    <3>2. /\ Begins((y + 1) + 1) \in Int /\ Own(y + 1) \in Int
          /\ Begins(y + 1) <= Own(y + 1) /\ Own(y + 1) < Begins((y + 1) + 1)
      BY <1>1, <2>8, OwnInYear DEF DaysInv
    <3>3. Begins((y + 1) + 1) <= Begins(y + 1) + 385
      BY <1>1, <2>8, YearsShort DEF DaysInv
    <3> QED BY <3>1, <3>2, <3>3
  <2>10. -365 <= d /\ d <= 3660000
    BY <2>2, <2>4, <2>6, <2>9, SMT
  <2>11. InRange(Own(y + 1))
    BY <2>9, <2>10 DEF InRange
  <2>12. YearOf(Own(y + 1)) = y + 1
    BY <1>1, <2>8, <2>9, <2>11, YearOfIs DEF DaysInv
  <2> QED BY <2>3, <2>7, <2>12
<1>2. DaysInv /\ [Next]_vars =>
        [NextOccurrence(today) = Day(today) => YearOf(NextOccurrence(today')) = YearOf(Day(today)) + 1]_vars
  BY <1>1
<1>3. Init => DaysInv
  BY DaysInit
<1>4. DaysInv /\ [Next]_vars => DaysInv'
  BY DaysNext
<1> QED BY <1>2, <1>3, <1>4, PTL DEF Spec, OncePerYear
=============================================================================
