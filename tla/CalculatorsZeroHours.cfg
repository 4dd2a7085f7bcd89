\* A calculation is one step: the system stops after it.
SPECIFICATION Spec
CHECK_DEADLOCK FALSE
CONSTANTS
    None = None
    NotFinite = NotFinite
    Rules <- ZeroHourRules
    RoundTo = 960
    RateUnit = 2
    Parts = 2
    Novelties <- SomeNovelties
    MaxNovelties = 2
    Salaries <- TwoSalaries
    Years <- TwoYears
    Dates <- MonthEnds
    VacationDays <- SomeVacation
INVARIANT AmountsAreFinite
