\* Two employees, two rule sets, one payroll type for each calculation policy.
SPECIFICATION Spec
CONSTANTS
    r1 = r1
    r2 = r2
    ana = ana
    luis = luis
    co2025 = co2025
    co2026 = co2026
    None = None
    Requests <- TwoRequests
    Employees <- TwoEmployees
    RuleSets <- TwoRuleSets
    Accruing <- OneEmployee
    Types <- OneTypePerPolicy
    MaxVersion = 3
SYMMETRY RequestSymmetry
INVARIANTS
    OnePayrollPerPeriod
    ItemsPriceTheNovelties
    ItemsUseThePin
    VersionGuardsWhatWasRead
PROPERTIES
    PinIsNeverReplaced
    ConflictsAreReal
