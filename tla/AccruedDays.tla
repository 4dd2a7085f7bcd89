----------------------------- MODULE AccruedDays -----------------------------
(***************************************************************************)
(* The days of service that severance, service bonus and final salary are  *)
(* computed from: AccruedDaysCalculator, on the calendar of twelve months  *)
(* of thirty days.  A date is a record of year, month and day; times of    *)
(* day, which the calculator cuts off, are left out.                       *)
(***************************************************************************)
EXTENDS Integers, FiniteSets

CONSTANT Years   \* the years dates are taken from

ASSUME YearsAssumption == Years \subseteq Int /\ \A y, z \in Years : y..z \subseteq Years

Leap(year) == (year % 4 = 0 /\ year % 100 # 0) \/ year % 400 = 0

MonthLength(year, month) ==
    CASE month = 2 -> IF Leap(year) THEN 29 ELSE 28
      [] month \in {4, 6, 9, 11} -> 30
      [] OTHER -> 31

Date(year, month, day) == [year |-> year, month |-> month, day |-> day]

FirstOf(year, month) == Date(year, month, 1)
EndOf(year, month) == Date(year, month, MonthLength(year, month))

Calendar == {d \in [year : Years, month : 1..12, day : 1..31] :
                d.day =< MonthLength(d.year, d.month)}

\* Day d is not after day e.
NotAfter(d, e) ==
    \/ d.year < e.year
    \/ d.year = e.year /\ d.month < e.month
    \/ d.year = e.year /\ d.month = e.month /\ d.day =< e.day

Later(d, e) == IF NotAfter(d, e) THEN e ELSE d

Least(m, n) == IF m =< n THEN m ELSE n

-----------------------------------------------------------------------------
\* Mutant: the 31st is a day of its own.
Calculate365Days(start, end, forceMonthEnd) ==
    (end.year - start.year) * 360 + (end.month - start.month) * 30
    + (IF forceMonthEnd THEN 30 ELSE end.day) - Least(start.day, 30) + 1

Calculate360Days(start, end, forceMonthEnd) ==
    (end.year - start.year) * 360 + (end.month - start.month) * 30
    + (IF forceMonthEnd THEN 30 ELSE Least(end.day, 30)) - Least(start.day, 30) + 1

\* What a payroll of a month counts: from startMonth to the end of the month.
AccruedInPayroll(employeeStart, year, month, startMonth) ==
    IF ~NotAfter(employeeStart, EndOf(year, month)) THEN 0
    ELSE Calculate360Days(Later(employeeStart, FirstOf(year, startMonth)),
                          EndOf(year, month), TRUE)

\* What a termination counts: from a first day to the last day of work.
AccruedUntil(employeeStart, end, from) ==
    LET start == Later(employeeStart, from)
    IN  IF NotAfter(employeeStart, end) /\ NotAfter(start, end)
        THEN Calculate360Days(start, end, FALSE)
        ELSE 0

SemesterStart(month) == IF month =< 6 THEN 1 ELSE 7

-----------------------------------------------------------------------------
(***************************************************************************)
(* The reference: a day by day count.  Of the days that were worked the    *)
(* 31sts do not count, and the last day of February counts for the days    *)
(* that it lacks to thirty.                                                *)
(***************************************************************************)
DaysBetween(start, end) == {d \in Calendar : NotAfter(start, d) /\ NotAfter(d, end)}

LastOfFebruary(d) == d.month = 2 /\ d.day = MonthLength(d.year, 2)

Lacking(d) == 30 - d.day

CountedDays(start, end) ==
    LET worked == DaysBetween(start, end)
        short == {d \in worked : LastOfFebruary(d) /\ ~Leap(d.year)}
        leap == {d \in worked : LastOfFebruary(d) /\ Leap(d.year)}
    IN  Cardinality({d \in worked : d.day # 31})
        + 2 * Cardinality(short) + Cardinality(leap)

\* A 31st counts as the 30th for whoever begins on it ...
Dawn(start) == IF start.day = 31 THEN 1 ELSE 0

\* ... and what the last day of February counts for more than itself.
Lost(end) == IF LastOfFebruary(end) THEN Lacking(end) ELSE 0

\* The days of work from start to end, none if it begins after the end.
WorkDays(start, end) ==
    IF NotAfter(start, end) THEN CountedDays(start, end) + Dawn(start) ELSE 0
=============================================================================
