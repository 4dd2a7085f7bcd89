------------------------- MODULE PayrollCalculators -------------------------
(***************************************************************************)
(* What one employee is paid: the calculators of periodic payrolls, of     *)
(* severance and service bonus payrolls, and of an employment termination. *)
(*                                                                         *)
(* Amounts are integers in a unit small enough for the divisions of the    *)
(* instance to be exact, as they are for the code's decimals to 20 digits. *)
(* A rate is a number of RateUnit-ths and a quantity of days or hours one  *)
(* of Parts-ths; a month has a whole number of standard hours.  The names  *)
(* of concepts are left out.                                               *)
(*                                                                         *)
(* Rules       the PayrollRules of the calculation                         *)
(* RoundTo     the whole units that the transport allowance is rounded to  *)
(* NotFinite   a result whose totals are no numbers: Infinity or NaN       *)
(* Novelties   the novelties considered, at most MaxNovelties for one      *)
(* Salaries    monthly base salaries                                       *)
(* Dates       the dates employments begin and end on                      *)
(* VacationDays   quantities of pending vacation                           *)
(***************************************************************************)
EXTENDS AccruedDays, SequencesExt

CONSTANTS Rules, RoundTo, RateUnit, Parts, Novelties, MaxNovelties, Salaries, Dates,
          VacationDays, NotFinite, None

SickLeaveOrigins == {"COMMON_DISEASE", "WORK_ACCIDENT", "OCCUPATIONAL_DISEASE"}

ASSUME CalculatorAssumption ==
    /\ RoundTo \in Nat \ {0}
    /\ RateUnit \in Nat \ {0}
    /\ Parts \in Nat \ {0}
    /\ MaxNovelties \in Nat
    /\ Dates \subseteq Calendar
    /\ Salaries \subseteq Int
    /\ VacationDays \subseteq Int
    /\ None \notin Int \cup SickLeaveOrigins

\* What PayrollRulesCodec accepts.  A positive integer, a day basis among them, is
\* never zero; a positive decimal may be, the standard hours too: isPositive is true
\* of zero.
AcceptedRules ==
    {rules \in [minimumWage : Nat, monthlyDayBasis : Nat \ {0}, standardMonthlyHours : Nat,
                daytimeMultiplier : Nat, nighttimeMultiplier : Nat, nighttimeRate : Nat,
                sundayHolidayRate : Nat, employeeHealthRate : 0..RateUnit,
                employeePensionRate : 0..RateUnit, monthlyTransport : Nat,
                salaryLimitInMinimumWages : Nat, monthlyProrationDayBasis : Nat \ {0},
                severanceDaysPerYear : Nat \ {0}, interestAnnualRate : Nat,
                bonusDaysPerYear : Nat \ {0}, monthlyIbcDayBasis : Nat \ {0},
                firstRangeEndDay : Nat \ {0}, firstRate : 0..RateUnit,
                secondRangeEndDay : Nat \ {0}, secondRate : 0..RateUnit,
                workRiskRate : 0..RateUnit] :
        rules.firstRangeEndDay < rules.secondRangeEndDay}

ASSUME RulesAssumption == Rules \in AcceptedRules

\* What PayrollNoveltiesService stores: fields may be missing, but a sick leave has
\* its origin, base and start day, and a leave its type.
ASSUME NoveltiesAssumption ==
    /\ Novelties \subseteq
           [type : STRING, quantity : Int \cup {None}, amount : Int \cup {None},
            dayType : STRING \cup {None}, leaveType : STRING \cup {None},
            sickLeaveOrigin : STRING \cup {None}, sickLeaveStartDay : Int \cup {None},
            sickLeaveIbc : Int \cup {None}]
    /\ \A n \in Novelties :
           /\ n.type = "SICK_LEAVE" =>
                  /\ n.sickLeaveOrigin \in SickLeaveOrigins
                  /\ n.sickLeaveIbc \in Nat \ {0}
                  /\ n.sickLeaveStartDay \in Nat \ {0}
           /\ n.type = "LEAVE" => n.leaveType # None

VARIABLES
    input,    \* what is calculated
    result    \* the result, once calculated

vars == <<input, result>>

-----------------------------------------------------------------------------
\* The workedDays of every periodic payroll, whatever its length.
WORKED_DAYS == 30

Concept(code, type, amount) == [code |-> code, type |-> type, amount |-> amount]
Earning(code, amount) == Concept(code, "EARNING", amount)
Deduction(code, amount) == Concept(code, "DEDUCTION", amount)

Codes == {"BASE_SALARY", "TRANSPORT_ALLOWANCE", "BONUS", "OVERTIME", "OVERTIME_NIGHT",
          "NIGHT_SURCHARGE", "SUNDAY_SURCHARGE", "HOLIDAY_SURCHARGE", "VACATION", "LEAVE",
          "SICK_LEAVE", "ABSENCE", "DEDUCTION", "HEALTH", "PENSION", "SEVERANCE",
          "SEVERANCE_INTEREST", "SERVICE_BONUS", "TERMINATION_VACATION"}

Concepts == [code : Codes, type : {"EARNING", "DEDUCTION"}, amount : Int]

Total(numbers) == FoldLeft(LAMBDA total, x : total + x, 0, numbers)

\* The elements of a sequence that are in a set.
Those(s, S) == FoldLeft(LAMBDA kept, x : IF x \in S THEN Append(kept, x) ELSE kept, <<>>, s)

Each(s, Of(_)) == [i \in 1..Len(s) |-> Of(s[i])]

Sum(concepts) == Total(Each(concepts, LAMBDA c : c.amount))

OfType(novelties, types) == Those(novelties, {n \in Novelties : n.type \in types})

\* A missing number counts as zero.
Number(value) == IF value = None THEN 0 ELSE value

Quantity(n) == Number(n.quantity)

TotalQuantity(novelties) == Total(Each(novelties, Quantity))

AtRate(amount, rate) == (amount * rate) \div RateUnit

PerDay(salary) == salary \div Rules.monthlyDayBasis
PerHour(salary) == salary \div Rules.standardMonthlyHours

\* The unit of amounts is small enough for a day's salary to have exact parts.
ASSUME ExactAssumption == \A salary \in Salaries : PerDay(salary) % Parts = 0

For(price, quantity) == (price * quantity) \div Parts

\* Mutant: what is not paid takes no days.
CountedWhenPaid(n) ==
    /\ Quantity(n) > 0
    /\ n.type = "SICK_LEAVE" =>
           /\ n.sickLeaveOrigin # None
           /\ n.sickLeaveStartDay \notin {None, 0}
           /\ Number(n.sickLeaveIbc) > 0
    /\ n.type = "LEAVE" => n.leaveType \notin {None, "UNPAID"}

\* Novelties of days taken count when they have some and nothing they need is missing.
Counted(n) ==
    /\ Quantity(n) > 0
    /\ n.type = "SICK_LEAVE" =>
           /\ n.sickLeaveOrigin # None
           /\ n.sickLeaveStartDay \notin {None, 0}
           /\ Number(n.sickLeaveIbc) > 0
    /\ n.type = "LEAVE" => n.leaveType # None

DaysTaken(novelties, type) == Those(novelties, {n \in Novelties : n.type = type /\ Counted(n)})

-----------------------------------------------------------------------------
BaseSalary(salary, days) == <<Earning("BASE_SALARY", For(PerDay(salary), days))>>

Bonus(novelties) ==
    Each(OfType(novelties, {"BONUS"}), LAMBDA n : Earning("BONUS", Number(n.amount)))

Absence(salary, novelties) ==
    Each(OfType(novelties, {"ABSENCE"}),
         LAMBDA n : Deduction("ABSENCE", For(PerDay(salary), Quantity(n))))

Deductions(novelties) ==
    Each(OfType(novelties, {"DEDUCTION"}), LAMBDA n : Deduction("DEDUCTION", Number(n.amount)))

Health(base) == <<Deduction("HEALTH", AtRate(base, Rules.employeeHealthRate))>>

Pension(base) == <<Deduction("PENSION", AtRate(base, Rules.employeePensionRate))>>

OvertimeRate(n) ==
    (IF n.type = "OVERTIME_NIGHT" THEN Rules.nighttimeMultiplier ELSE Rules.daytimeMultiplier)
    + (IF n.dayType \in {"SUNDAY", "HOLIDAY"} THEN Rules.sundayHolidayRate ELSE 0)

Overtime(salary, novelties) ==
    Each(OfType(novelties, {"OVERTIME", "OVERTIME_NIGHT"}),
         LAMBDA n : Earning(n.type, AtRate(For(PerHour(salary), Quantity(n)), OvertimeRate(n))))

NightSurcharge(salary, novelties) ==
    Each(OfType(novelties, {"NIGHT_SURCHARGE"}),
         LAMBDA n : Earning(n.type, AtRate(For(PerHour(salary), Quantity(n)), Rules.nighttimeRate)))

SundayHoliday(salary, novelties) ==
    Each(OfType(novelties, {"SUNDAY_SURCHARGE", "HOLIDAY_SURCHARGE"}),
         LAMBDA n : Earning(n.type, AtRate(For(PerHour(salary), Quantity(n)),
                                             Rules.sundayHolidayRate)))

\* Rounded half up to whole units of RoundTo, the currency's.
RoundHalfUp(numerator, denominator) ==
    ((2 * numerator + denominator * RoundTo) \div (2 * denominator * RoundTo)) * RoundTo

TransportAllowance(salary, days) ==
    IF salary > AtRate(Rules.minimumWage, Rules.salaryLimitInMinimumWages) \/ days =< 0
    THEN <<>>
    ELSE LET eligible == Least(days, Rules.monthlyProrationDayBasis * Parts)
         IN  <<Earning("TRANSPORT_ALLOWANCE",
                       RoundHalfUp(Rules.monthlyTransport * eligible,
                                   Rules.monthlyProrationDayBasis * Parts))>>

Vacation(salary, novelties) ==
    Each(DaysTaken(novelties, "VACATION"),
         LAMBDA n : Earning("VACATION", For(PerDay(salary), Quantity(n))))

\* Days of unpaid leave are taken off the worked days and not paid.
Leave(salary, novelties) ==
    Each(Those(DaysTaken(novelties, "LEAVE"), {n \in Novelties : n.leaveType # "UNPAID"}),
         LAMBDA n : Earning("LEAVE", For(PerDay(salary), Quantity(n))))

-----------------------------------------------------------------------------
\* The rate of one day of a common disease, counted from its first day.
CommonDiseaseRate(sickDay) ==
    CASE sickDay =< Rules.firstRangeEndDay -> Rules.firstRate
      [] sickDay > Rules.firstRangeEndDay /\ sickDay =< Rules.secondRangeEndDay -> Rules.secondRate
      [] OTHER -> 0

\* A part of a day is a turn of the loop, like a day.
Turns(quantity) == (quantity + Parts - 1) \div Parts

\* Mutant: the days are counted from the beginning of the novelty.
CommonDiseaseOfNovelty(dailyIbc, startDay, quantity) ==
    Total([day \in 1..Turns(quantity) |-> AtRate(dailyIbc, CommonDiseaseRate(day))])

CommonDisease(dailyIbc, startDay, quantity) ==
    Total([day \in 1..Turns(quantity) |-> AtRate(dailyIbc, CommonDiseaseRate(startDay + day - 1))])

SickLeaveAmount(n) ==
    LET dailyIbc == n.sickLeaveIbc \div Rules.monthlyIbcDayBasis
    IN  CASE n.sickLeaveOrigin = "COMMON_DISEASE" ->
               CommonDisease(dailyIbc, n.sickLeaveStartDay, n.quantity)
          [] n.sickLeaveOrigin \in {"WORK_ACCIDENT", "OCCUPATIONAL_DISEASE"} ->
               AtRate(For(dailyIbc, n.quantity), Rules.workRiskRate)
          [] OTHER -> 0

\* A leave that pays nothing is no concept.
SickLeave(novelties) ==
    Each(Those(DaysTaken(novelties, "SICK_LEAVE"), {n \in Novelties : SickLeaveAmount(n) > 0}),
         LAMBDA n : Earning("SICK_LEAVE", SickLeaveAmount(n)))

-----------------------------------------------------------------------------
\* The days left to be paid as worked; unpaid and unpriced leaves take theirs.
OrdinaryWorkedDays(novelties) ==
    LET taken == TotalQuantity(DaysTaken(novelties, "SICK_LEAVE"))
                 + TotalQuantity(DaysTaken(novelties, "VACATION"))
                 + TotalQuantity(DaysTaken(novelties, "LEAVE"))
    IN  IF taken > WORKED_DAYS * Parts THEN 0 ELSE WORKED_DAYS * Parts - taken

\* Mutant: sick leaves do not count for contributions.
ContributionBaseWithoutSickLeave(salary, novelties) ==
    Sum(BaseSalary(salary, OrdinaryWorkedDays(novelties)))
    + Sum(Vacation(salary, novelties)) + Sum(Leave(salary, novelties))
    + Sum(Bonus(novelties)) + Sum(Overtime(salary, novelties))
    + Sum(NightSurcharge(salary, novelties)) + Sum(SundayHoliday(salary, novelties))

ContributionBase(salary, novelties) ==
    Sum(BaseSalary(salary, OrdinaryWorkedDays(novelties)))
    + Sum(SickLeave(novelties)) + Sum(Vacation(salary, novelties))
    + Sum(Leave(salary, novelties)) + Sum(Bonus(novelties))
    + Sum(Overtime(salary, novelties)) + Sum(NightSurcharge(salary, novelties))
    + Sum(SundayHoliday(salary, novelties))

Result(earned, deductions, concepts) ==
    [earnedTotal |-> earned, deductionsTotal |-> deductions,
     netPay |-> earned - deductions, concepts |-> concepts]

HourlyTypes ==
    {"OVERTIME", "OVERTIME_NIGHT", "NIGHT_SURCHARGE", "SUNDAY_SURCHARGE", "HOLIDAY_SURCHARGE"}

\* A salary divided by no hours is Infinity or NaN, and so is all that is added to the
\* price of an hour of it; without a novelty of hours the price is not used.
PricesZeroHours(novelties) ==
    /\ Rules.standardMonthlyHours = 0
    /\ \E i \in DOMAIN novelties : novelties[i].type \in HourlyTypes

\* What the concepts are and add up to, when hours have a price.
PricedPeriodic(salary, novelties) ==
    LET days == OrdinaryWorkedDays(novelties)
        base == ContributionBase(salary, novelties)
        earned == base + Sum(TransportAllowance(salary, days))
        deductions == Sum(Absence(salary, novelties)) + Sum(Deductions(novelties))
                      + Sum(Health(base)) + Sum(Pension(base))
    IN  Result(earned, deductions,
            BaseSalary(salary, days) \o SickLeave(novelties) \o Vacation(salary, novelties)
            \o Leave(salary, novelties) \o Bonus(novelties) \o Overtime(salary, novelties)
            \o NightSurcharge(salary, novelties) \o SundayHoliday(salary, novelties)
            \o TransportAllowance(salary, days) \o Absence(salary, novelties)
            \o Deductions(novelties) \o Health(base) \o Pension(base))

\* PayrollCalculatorService.calculate.
Periodic(salary, novelties) ==
    IF PricesZeroHours(novelties) THEN NotFinite ELSE PricedPeriodic(salary, novelties)

-----------------------------------------------------------------------------
\* The salary and a whole month's transport allowance.
SocialBenefitBase(salary) ==
    salary + Sum(TransportAllowance(salary, Rules.monthlyProrationDayBasis * Parts))

Severance(salary, days) ==
    LET base == SocialBenefitBase(salary)
        severance == (base * days) \div Rules.severanceDaysPerYear
        interest == (AtRate(severance, Rules.interestAnnualRate) * days)
                    \div Rules.severanceDaysPerYear
    IN  IF base =< 0 \/ days =< 0 THEN <<>>
        ELSE <<Earning("SEVERANCE", severance), Earning("SEVERANCE_INTEREST", interest)>>

ServiceBonus(salary, days) ==
    IF days =< 0 THEN <<>>
    ELSE <<Earning("SERVICE_BONUS",
                   (SocialBenefitBase(salary) * days) \div Rules.bonusDaysPerYear)>>

TerminationVacation(salary, pending) ==
    IF salary =< 0 \/ pending =< 0 THEN <<>>
    ELSE <<Earning("TERMINATION_VACATION", For(PerDay(salary), pending))>>

\* Nobody who has accrued no day gets an item.
SeverancePayroll(salary, start, year, month) ==
    LET days == AccruedInPayroll(start, year, month, 1)
    IN  IF days =< 0 THEN None
        ELSE Result(Sum(Severance(salary, days)), 0, Severance(salary, days))

ServiceBonusPayroll(salary, start, year, month) ==
    LET days == AccruedInPayroll(start, year, month, SemesterStart(month))
    IN  IF days =< 0 THEN None
        ELSE Result(Sum(ServiceBonus(salary, days)), 0, ServiceBonus(salary, days))

SalaryDays(i) == AccruedUntil(i.unpaidSalaryStartDate, i.terminationDate, i.unpaidSalaryStartDate)

SeveranceDays(i) ==
    AccruedUntil(i.employeeStartDate, i.terminationDate, FirstOf(i.terminationDate.year, 1))

ServiceBonusDays(i) ==
    AccruedUntil(i.employeeStartDate, i.terminationDate,
                 FirstOf(i.terminationDate.year, SemesterStart(i.terminationDate.month)))

\* TerminationPayrollCalculator.calculate.
Termination(i) ==
    LET parts == BaseSalary(i.salary, SalaryDays(i) * Parts)
                 \o Severance(i.salary, SeveranceDays(i))
                 \o ServiceBonus(i.salary, ServiceBonusDays(i))
                 \o TerminationVacation(i.salary, i.pendingVacationDays)
        earned == Sum(BaseSalary(i.salary, SalaryDays(i) * Parts))
                  + Sum(Severance(i.salary, SeveranceDays(i)))
                  + Sum(ServiceBonus(i.salary, ServiceBonusDays(i)))
                  + Sum(TerminationVacation(i.salary, i.pendingVacationDays))
    IN  Result(earned, 0, parts)

-----------------------------------------------------------------------------
PeriodicInputs ==
    [kind : {"PERIODIC"}, salary : Salaries,
     novelties : UNION {[1..n -> Novelties] : n \in 0..MaxNovelties}]

CollectiveInputs ==
    [kind : {"SEVERANCE", "BONUS"}, salary : Salaries, start : Dates,
     year : Years, month : 1..12]

\* An employment does not end before it begins, and the unpaid salary lies in it.
TerminationInputs ==
    {i \in [kind : {"TERMINATION"}, salary : Salaries, employeeStartDate : Dates,
            terminationDate : Dates, unpaidSalaryStartDate : Dates,
            pendingVacationDays : VacationDays] :
        /\ NotAfter(i.employeeStartDate, i.unpaidSalaryStartDate)
        /\ NotAfter(i.unpaidSalaryStartDate, i.terminationDate)}

Init ==
    /\ input \in PeriodicInputs \cup CollectiveInputs \cup TerminationInputs
    /\ result = None

Asked(kind) == input.kind = kind /\ result = None

CalculatePeriodic ==
    /\ Asked("PERIODIC")
    /\ result' = Periodic(input.salary, input.novelties)
    /\ UNCHANGED input

CalculateSeverance ==
    /\ Asked("SEVERANCE")
    /\ result' = SeverancePayroll(input.salary, input.start, input.year, input.month)
    /\ UNCHANGED input

CalculateServiceBonus ==
    /\ Asked("BONUS")
    /\ result' = ServiceBonusPayroll(input.salary, input.start, input.year, input.month)
    /\ UNCHANGED input

CalculateTermination ==
    /\ Asked("TERMINATION")
    /\ result' = Termination(input)
    /\ UNCHANGED input

Next == CalculatePeriodic \/ CalculateSeverance \/ CalculateServiceBonus \/ CalculateTermination

Spec == Init /\ [][Next]_vars

-----------------------------------------------------------------------------
Coded(concepts, codes) == Sum(Those(concepts, {c \in Concepts : c.code \in codes}))
Typed(concepts, type) == Sum(Those(concepts, {c \in Concepts : c.type = type}))

\* A calculation that has ended and that no hours of price zero entered.
Calculated ==
    result # None /\ (input.kind = "PERIODIC" => ~PricesZeroHours(input.novelties))

\* No rules that are accepted make what an employee is paid Infinity or NaN.
\* PayrollRulesCodec promises as much: standardMonthlyHours "must be greater than zero".
AmountsAreFinite == result # NotFinite

\* The totals, which calculators add up on the way and every report shows, are
\* those of the concepts an item is stored with, and the base of health and
\* pension is everything earned but the transport allowance.
ConceptsExplainTotals ==
    Calculated =>
        LET base == result.earnedTotal - Coded(result.concepts, {"TRANSPORT_ALLOWANCE"})
        IN  /\ result.earnedTotal = Typed(result.concepts, "EARNING")
            /\ result.deductionsTotal = Typed(result.concepts, "DEDUCTION")
            /\ result.netPay = result.earnedTotal - result.deductionsTotal
            /\ input.kind = "PERIODIC" =>
                   /\ Coded(result.concepts, {"HEALTH"}) = AtRate(base, Rules.employeeHealthRate)
                   /\ Coded(result.concepts, {"PENSION"}) = AtRate(base, Rules.employeePensionRate)

\* A leave for a common disease of several whole days pays what it would as two
\* novelties, the second beginning on the sick day after the first: what the
\* start day is recorded for, in particular across the ends of both ranges.
SickLeaveSplits ==
    input.kind = "PERIODIC" =>
        \A i \in DOMAIN input.novelties :
            LET n == input.novelties[i]
                Paid(from, days) == SickLeaveAmount([n EXCEPT !.sickLeaveStartDay = from,
                                                              !.quantity = days * Parts])
            IN  n.type = "SICK_LEAVE" /\ n.sickLeaveOrigin = "COMMON_DISEASE" =>
                    \A first, rest \in 1..Turns(Quantity(n)) :
                        Paid(n.sickLeaveStartDay, first + rest)
                            = Paid(n.sickLeaveStartDay, first)
                              + Paid(n.sickLeaveStartDay + first, rest)

\* The novelties of a kind, whatever the calculators make of them.
DaysOf(novelties, type) ==
    Those(novelties, {n \in Novelties : n.type = type /\ Quantity(n) > 0})

\* Each of the month's days is paid once: what vacations and paid leaves pay, the
\* ordinary salary does not, so that together they pay the days that are neither
\* sick nor unpaid.  Which novelties take days, three calculators decide each for
\* itself and the property does on its own.
DaysArePaidOnce ==
    (input.kind = "PERIODIC" /\ Calculated) =>
        LET off == TotalQuantity(DaysOf(input.novelties, "SICK_LEAVE"))
            leave == DaysOf(input.novelties, "LEAVE")
            unpaid == TotalQuantity(Those(leave, {n \in Novelties : n.leaveType = "UNPAID"}))
            taken == off + TotalQuantity(leave)
                     + TotalQuantity(DaysOf(input.novelties, "VACATION"))
        IN  taken =< WORKED_DAYS * Parts =>
                Coded(result.concepts, {"BASE_SALARY", "VACATION", "LEAVE"})
                    = For(PerDay(input.salary), WORKED_DAYS * Parts - off - unpaid)

\* Accrual against the calendar: the days of the 360-day year are the days worked,
\* 31sts aside and each February a month of thirty; work begun on a 31st counts from
\* the 30th.  A termination at the end of February is alone in not counting the days
\* that month lacks, so that it is paid fewer than the payroll of the month counts.
AccrualCountsDays ==
    /\ input.kind = "TERMINATION" =>
           LET start == input.unpaidSalaryStartDate
               end == input.terminationDate
           IN  SalaryDays(input) = WorkDays(start, end) - Lost(end)
    /\ input.kind \in {"SEVERANCE", "BONUS"} =>
           LET end == EndOf(input.year, input.month)
               from == IF input.kind = "BONUS" THEN SemesterStart(input.month) ELSE 1
           IN  AccruedInPayroll(input.start, input.year, input.month, from)
                   = WorkDays(Later(input.start, FirstOf(input.year, from)), end)
=============================================================================
