\* One employee through approval, closing, reopening and recalculation.
SPECIFICATION Spec
CONSTANTS
    r1 = r1
    r2 = r2
    ana = ana
    luis = luis
    co2025 = co2025
    co2026 = co2026
    None = None
    Requests <- TwoRequests
    Employees <- OneEmployee
    RuleSets <- OneRuleSet
    Accruing <- OneEmployee
    Types <- Monthly
    MaxVersion = 6
SYMMETRY RequestSymmetry
INVARIANTS
    CalculatedHasItems
    AuditTellsTheHistory
    StampsFollowTheStatus
PROPERTIES
    ApprovedIsFrozen
    EveryChangeHasItsVersion
    ImplementsLifecycle
