------------------------------ MODULE ListDate ------------------------------
(***************************************************************************)
(* TimeUtil::ListDate: the date a loan is due, from today and the number   *)
(* of days asked for.  The handler of /update lets any number up to 90     *)
(* through, negative ones too.  The loop is modelled turn by turn.         *)
(***************************************************************************)
EXTENDS Integers

CONSTANTS
  Years,     \* the years today may be in
  Diffs      \* the numbers of days asked for

ASSUME ListDateAssumption ==
  /\ Years \subseteq Nat \ {0}
  /\ Diffs \subseteq Int /\ \A diff \in Diffs : diff <= 90

VARIABLES
  now,       \* today
  diff,      \* days from now on
  d1,        \* the result, as far as it is computed
  done       \* ListDate has returned

vars == <<now, diff, d1, done>>

days == <<31, 28, 31, 30, 31, 30, 31, 31, 30, 31, 30, 31>>

IsLeapYear(year) ==
  IF year % 400 = 0 \/ (year % 4 = 0 /\ year % 100 # 0) THEN 1 ELSE 0

(* Mutant: every February has 28 days.                                     *)
LeapDayForgotten(date) == 0

(* The extra day of February in a leap year.                               *)
LeapDay(date) == IF date.month = 2 THEN IsLeapYear(date.year) ELSE 0

MonthLength(date) == days[date.month] + LeapDay(date)

Date == [year : Nat \ {0}, month : 1..12, day : Int]

(* What localtime() gives.                                                 *)
IsDate(date) == date \in Date /\ date.day \in 1..MonthLength(date)

Init ==
  /\ now \in [year : Years, month : 1..12, day : 1..31]
  /\ IsDate(now)
  /\ diff \in Diffs
  /\ d1 = [now EXCEPT !.day = @ + diff]
  /\ done = FALSE

(* Mutant: >= for >.                                                       *)
CarryTooFar ==
  /\ ~ done
  /\ d1.day >= days[d1.month]
  /\ d1' = [year  |-> IF d1.month = 12 THEN d1.year + 1 ELSE d1.year,
            month |-> IF d1.month = 12 THEN 1 ELSE d1.month + 1,
            day   |-> d1.day - MonthLength(d1)]
  /\ UNCHANGED <<now, diff, done>>

(* Mutant: the turn on February 29 takes nothing off and goes nowhere.     *)
CarryUnlessLeapDay ==
  /\ ~ done
  /\ d1.day > days[d1.month]
  /\ d1' = IF d1.day <= MonthLength(d1) THEN d1
           ELSE [year  |-> IF d1.month = 12 THEN d1.year + 1 ELSE d1.year,
                 month |-> IF d1.month = 12 THEN 1 ELSE d1.month + 1,
                 day   |-> d1.day - MonthLength(d1)]
  /\ UNCHANGED <<now, diff, done>>

Carry ==
  /\ ~ done
  /\ d1.day > days[d1.month]
  /\ d1' = [year  |-> IF d1.month = 12 THEN d1.year + 1 ELSE d1.year,
            month |-> IF d1.month = 12 THEN 1 ELSE d1.month + 1,
            day   |-> d1.day - MonthLength(d1)]
  /\ UNCHANGED <<now, diff, done>>

Return ==
  /\ ~ done
  /\ d1.day <= days[d1.month]
  /\ done' = TRUE
  /\ UNCHANGED <<now, diff, d1>>

Next == Carry \/ Return

Spec == Init /\ [][Next]_vars /\ WF_vars(Next)

-----------------------------------------------------------------------------
(* The calendar ListDate is measured by: the number of a day.              *)

DaysBeforeYear(y) ==
  365 * (y - 1) + ((y - 1) \div 4) - ((y - 1) \div 100) + ((y - 1) \div 400)

DaysBeforeMonth == <<0, 31, 59, 90, 120, 151, 181, 212, 243, 273, 304, 334>>

Ordinal(date) ==
  DaysBeforeYear(date.year) + DaysBeforeMonth[date.month]
    + (IF date.month > 2 THEN IsLeapYear(date.year) ELSE 0) + date.day

(* The variables keep their types, and every turn of the loop stands for   *)
(* the same day: diff days from now, over the ends of months and years and *)
(* over leap days (the arithmetic of ListDate).                            *)
SameDay ==
  /\ now \in Date /\ diff \in Int /\ d1 \in Date /\ done \in BOOLEAN
  /\ Ordinal(d1) = Ordinal(now) + diff

(* A loan that is not for a negative time is due on a date of the          *)
(* calendar, except that February 29 comes out as day 0 of March.          *)
DateOrLeapDay ==
  done /\ diff >= 0 =>
    IsDate(d1) \/ (d1.month = 3 /\ d1.day = 0 /\ IsLeapYear(d1.year) = 1)

(* The loop ends: every turn, that of a leap day too, brings the day       *)
(* nearer to a month.                                                      *)
Returns == <>done

(* "计算diff天后的日期" (compute the date diff days later): the result is  *)
(* a date.                                                                 *)
DateReturned == done => IsDate(d1)
=============================================================================
