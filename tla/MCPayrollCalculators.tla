------------------------ MODULE MCPayrollCalculators ------------------------
(***************************************************************************)
(* PayrollCalculators with rules whose divisions are exact, ranges of sick *)
(* days that two short leaves cross, and days around the ends of months.   *)
(***************************************************************************)
EXTENDS PayrollCalculators

SmallRules ==
    [minimumWage |-> 259200, monthlyDayBasis |-> 30, standardMonthlyHours |-> 10,
     daytimeMultiplier |-> 3, nighttimeMultiplier |-> 4, nighttimeRate |-> 1,
     sundayHolidayRate |-> 2, employeeHealthRate |-> 1, employeePensionRate |-> 2,
     monthlyTransport |-> 259200, salaryLimitInMinimumWages |-> 4,
     monthlyProrationDayBasis |-> 30, severanceDaysPerYear |-> 360,
     interestAnnualRate |-> 1, bonusDaysPerYear |-> 360,
     monthlyIbcDayBasis |-> 30, firstRangeEndDay |-> 2, firstRate |-> 2,
     secondRangeEndDay |-> 4, secondRate |-> 1, workRiskRate |-> 2]

\* Rules that the codec accepts too.
ZeroHourRules == [SmallRules EXCEPT !.standardMonthlyHours = 0]

TwoSalaries == {259200, 777600}

Novelty(type, quantity) ==
    [type |-> type, quantity |-> quantity, amount |-> None, dayType |-> None,
     leaveType |-> None, sickLeaveOrigin |-> None, sickLeaveStartDay |-> None,
     sickLeaveIbc |-> None]

OfAmount(type, amount) == [Novelty(type, None) EXCEPT !.amount = amount]

LeaveOf(type, quantity) == [Novelty("LEAVE", quantity) EXCEPT !.leaveType = type]

Sick(origin, from, quantity) ==
    [Novelty("SICK_LEAVE", quantity) EXCEPT !.sickLeaveOrigin = origin,
                                            !.sickLeaveStartDay = from,
                                            !.sickLeaveIbc = 36000]

\* Quantities are halves.
SomeNovelties ==
    {OfAmount("BONUS", 500), OfAmount("DEDUCTION", 300), Novelty("ABSENCE", 2),
     Novelty("OVERTIME", 4), Novelty("NIGHT_SURCHARGE", 3), Novelty("HOLIDAY_SURCHARGE", 2),
     [Novelty("OVERTIME_NIGHT", 2) EXCEPT !.dayType = "SUNDAY"],
     Novelty("VACATION", 30), Novelty("VACATION", 5), LeaveOf("PAID", 4),
     LeaveOf("UNPAID", 31), Sick("COMMON_DISEASE", 1, 3), Sick("COMMON_DISEASE", 2, 6),
     Sick("COMMON_DISEASE", 5, 2), Sick("WORK_ACCIDENT", 1, 4)}

TwoYears == {2023, 2024}

\* The first, a middle and the last days of months of every length and both semesters.
MonthEnds == {d \in Calendar : d.month \in {1, 2, 12} /\ d.day \in {1, 15, 28, 29, 30, 31}}

SomeVacation == {0, 5}
=============================================================================
