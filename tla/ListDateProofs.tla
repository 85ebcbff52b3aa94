--------------------------- MODULE ListDateProofs ---------------------------
(* ListDate, proved for every date, every number of days and every number  *)
(* of turns of the loop.                                                   *)
EXTENDS ListDate, TLAPS

(* Going from December to January.                                         *)
LEMMA NextYear ==
  ASSUME NEW y \in Nat \ {0}
  PROVE  DaysBeforeYear(y + 1) = DaysBeforeYear(y) + 365 + IsLeapYear(y)
<1> DEFINE z == y - 1
<1>1. z \in Nat /\ y = z + 1  OBVIOUS
<1>2. (z + 1) \div 4 = (z \div 4) + (IF y % 4 = 0 THEN 1 ELSE 0)
  BY <1>1
<1>3. (z + 1) \div 100 = (z \div 100) + (IF y % 100 = 0 THEN 1 ELSE 0)
  BY <1>1
<1>4. (z + 1) \div 400 = (z \div 400) + (IF y % 400 = 0 THEN 1 ELSE 0)
  BY <1>1
<1>5. (y % 400 = 0 => y % 100 = 0) /\ (y % 100 = 0 => y % 4 = 0)
  OBVIOUS
<1> QED BY <1>1, <1>2, <1>3, <1>4, <1>5 DEF DaysBeforeYear, IsLeapYear

LEMMA LeapYearType == ASSUME NEW y \in Nat PROVE IsLeapYear(y) \in {0, 1}
BY DEF IsLeapYear

(* One turn of the loop: the days of the month that is left are taken off  *)
(* the day, and the date stands for the day it stood for.                  *)
LEMMA CarryKeepsTheDay ==
  ASSUME NEW d \in Date,
         NEW e, e = [year  |-> IF d.month = 12 THEN d.year + 1 ELSE d.year,
                     month |-> IF d.month = 12 THEN 1 ELSE d.month + 1,
                     day   |-> d.day - MonthLength(d)]
  PROVE  e \in Date /\ Ordinal(e) = Ordinal(d)
<1>1. d.year \in Nat \ {0} /\ d.month \in 1..12 /\ d.day \in Int
  BY DEF Date
<1>2. IsLeapYear(d.year) \in {0, 1} /\ IsLeapYear(d.year + 1) \in {0, 1}
  BY <1>1, LeapYearType
<1>3. LeapDay(d) = IF d.month = 2 THEN IsLeapYear(d.year) ELSE 0
  BY DEF LeapDay
<1>4. MonthLength(d) = days[d.month] + LeapDay(d) /\ MonthLength(d) \in Int
  BY <1>1, <1>2, <1>3 DEF MonthLength, days
<1>5. e \in Date
  BY <1>1, <1>4 DEF Date
<1>6. DaysBeforeYear(d.year) \in Int
  BY <1>1 DEF DaysBeforeYear
<1>7. CASE d.month = 12
  <2>1. e.year = d.year + 1 /\ e.month = 1 /\ e.day = d.day - 31
    BY <1>1, <1>3, <1>4, <1>7 DEF days
  <2>2. DaysBeforeYear(e.year) = DaysBeforeYear(d.year) + 365 + IsLeapYear(d.year)
    BY <1>1, <2>1, NextYear
  <2> QED
    BY <1>1, <1>2, <1>5, <1>6, <1>7, <2>1, <2>2 DEF Ordinal, DaysBeforeMonth
<1>8. CASE d.month \in 1..11
  <2>1. e.year = d.year /\ e.month = d.month + 1 /\ e.day = d.day - MonthLength(d)
    BY <1>8
  <2>2. DaysBeforeMonth[d.month + 1] = DaysBeforeMonth[d.month] + days[d.month]
    BY <1>8 DEF DaysBeforeMonth, days
  <2>3. DaysBeforeMonth[d.month] \in Int /\ days[d.month] \in Int
    BY <1>8 DEF DaysBeforeMonth, days
  <2> QED
    BY <1>1, <1>2, <1>3, <1>4, <1>5, <1>6, <1>8, <2>1, <2>2, <2>3 DEF Ordinal
<1> QED BY <1>1, <1>7, <1>8

(* Whatever today is and however many days are asked for: at every turn of *)
(* the loop of TimeUtil::ListDate the date stands for the day that is      *)
(* diff days from today.                                                   *)
THEOREM ListDateSameDay == Spec => []SameDay
<1>1. Init => SameDay
  <2> SUFFICES ASSUME Init PROVE SameDay
    OBVIOUS
  <2>1. now \in Date /\ diff \in Int /\ done \in BOOLEAN
    BY ListDateAssumption DEF Init, IsDate
  <2>2. d1 = [now EXCEPT !.day = now.day + diff]
    BY DEF Init
  <2>3. d1.year = now.year /\ d1.month = now.month /\ d1.day = now.day + diff
    BY <2>1, <2>2 DEF Date
  <2>4. d1 \in Date
    BY <2>1, <2>2 DEF Date
  <2>5. IsLeapYear(now.year) \in {0, 1} /\ DaysBeforeYear(now.year) \in Int
    BY <2>1, LeapYearType DEF Date, DaysBeforeYear
  <2>6. DaysBeforeMonth[now.month] \in Int /\ now.day \in Int
    BY <2>1 DEF Date, DaysBeforeMonth
  <2> QED BY <2>1, <2>3, <2>4, <2>5, <2>6 DEF SameDay, Ordinal
<1>2. SameDay /\ [Next]_vars => SameDay'
  <2> SUFFICES ASSUME SameDay, [Next]_vars PROVE SameDay'
    OBVIOUS
  <2>1. CASE Carry
    BY <2>1, CarryKeepsTheDay DEF Carry, SameDay, Ordinal
  <2>2. CASE Return
    BY <2>2 DEF Return, SameDay, Ordinal
  <2>3. CASE UNCHANGED vars
    BY <2>3 DEF vars, SameDay, Ordinal
  <2> QED BY <2>1, <2>2, <2>3 DEF Next
<1> QED BY <1>1, <1>2, PTL DEF Spec

(* February 29 as ListDate writes it.                                      *)
LeapDayOfMarch(date) ==
  date.month = 3 /\ date.day = 0 /\ IsLeapYear(date.year) = 1

(* DateOrLeapDay at every turn: the day is at least the first, and a loop  *)
(* that has ended has left a day the month has.                            *)
DueInv ==
  /\ SameDay
  /\ diff >= 0 => d1.day >= 1 \/ LeapDayOfMarch(d1)
  /\ done => d1.day <= days[d1.month]

(* Every month is at least as long as the table of the loop says.          *)
LEMMA MonthLengthBounds ==
  ASSUME NEW d \in Date
  PROVE  /\ days[d.month] \in Nat /\ LeapDay(d) \in {0, 1}
         /\ MonthLength(d) = days[d.month] + LeapDay(d)
<1>1. d.year \in Nat /\ d.month \in 1..12
  BY DEF Date
<1>2. LeapDay(d) \in {0, 1}
  BY <1>1, LeapYearType DEF LeapDay
<1> QED BY <1>1, <1>2 DEF MonthLength, days

(* Whatever today is, a loan for no negative number of days is due on a    *)
(* date of the calendar, or on day 0 of March in a leap year.              *)
THEOREM ListDateDateOrLeapDay == Spec => []DateOrLeapDay
<1>1. Init /\ SameDay => DueInv
  <2> SUFFICES ASSUME Init, SameDay PROVE DueInv
    OBVIOUS
  <2>1. now \in Date /\ now.day >= 1 /\ now.day \in Int /\ diff \in Int
    BY MonthLengthBounds DEF Init, IsDate, SameDay
  <2>2. d1.day = now.day + diff
    BY <2>1 DEF Init, Date
  <2>3. ~ done
    BY DEF Init
  <2> QED BY <2>1, <2>2, <2>3 DEF DueInv
<1>2. DueInv /\ SameDay' /\ [Next]_vars => DueInv'
  <2> SUFFICES ASSUME DueInv, SameDay', [Next]_vars PROVE DueInv'
    OBVIOUS
  <2>1. /\ d1 \in Date /\ d1.day \in Int /\ d1.month \in 1..12 /\ d1.year \in Nat
        /\ diff \in Int
    BY DEF DueInv, SameDay, Date
  <2>2. CASE Carry
    <3>1. /\ days[d1.month] \in Nat /\ LeapDay(d1) \in {0, 1}
          /\ MonthLength(d1) = days[d1.month] + LeapDay(d1)
      BY <2>1, MonthLengthBounds
    <3>2. /\ d1.day > days[d1.month]
          /\ d1'.day = d1.day - MonthLength(d1)
          /\ d1'.month = IF d1.month = 12 THEN 1 ELSE d1.month + 1
          /\ d1'.year = IF d1.month = 12 THEN d1.year + 1 ELSE d1.year
          /\ ~ done' /\ UNCHANGED diff
      BY <2>2 DEF Carry
    <3>3. CASE LeapDay(d1) = 0
      <4>1. d1'.day >= 1
        BY <2>1, <3>1, <3>2, <3>3
      <4> QED BY <3>2, <4>1 DEF DueInv
    <3>4. CASE LeapDay(d1) = 1
      <4>1. d1.month = 2 /\ IsLeapYear(d1.year) = 1
        BY <3>4 DEF LeapDay
      <4>2. d1'.month = 3 /\ IsLeapYear(d1'.year) = 1
        BY <3>2, <4>1
      <4>3. d1'.day >= 1 \/ d1'.day = 0
        BY <2>1, <3>1, <3>2, <3>4
      <4> QED BY <3>2, <4>2, <4>3 DEF DueInv, LeapDayOfMarch
    <3> QED BY <3>1, <3>3, <3>4
  <2>3. CASE Return
    BY <2>3 DEF Return, DueInv, LeapDayOfMarch
  <2>4. CASE UNCHANGED vars
    BY <2>4 DEF vars, DueInv, LeapDayOfMarch
  <2> QED BY <2>2, <2>3, <2>4 DEF Next
<1>3. DueInv => DateOrLeapDay
  <2> SUFFICES ASSUME DueInv, done, diff >= 0
               PROVE  IsDate(d1) \/ LeapDayOfMarch(d1)
    BY DEF DateOrLeapDay, LeapDayOfMarch
  <2>1. d1 \in Date /\ d1.day \in Int /\ d1.day <= days[d1.month]
    BY DEF DueInv, SameDay, Date
  <2>2. days[d1.month] \in Nat /\ MonthLength(d1) \in Nat
        /\ days[d1.month] <= MonthLength(d1)
    BY <2>1, MonthLengthBounds
  <2>3. CASE d1.day >= 1
    BY <2>1, <2>2, <2>3 DEF IsDate
  <2> QED BY <2>3 DEF DueInv
<1> QED BY ListDateSameDay, <1>1, <1>2, <1>3, PTL DEF Spec
=============================================================================
