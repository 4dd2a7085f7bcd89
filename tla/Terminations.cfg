\* Two requests on two terminations of one employee.
SPECIFICATION Spec
CONSTANTS
    r1 = r1
    r2 = r2
    ana = ana
    t1 = t1
    t2 = t2
    co2025 = co2025
    co2026 = co2026
    dates1 = dates1
    dates2 = dates2
    None = None
    Requests <- TwoRequests
    Employees <- OneEmployee
    Terminations <- TwoTerminations
    RuleSets <- TwoRuleSets
    Inputs <- TwoInputs
    MaxVersion = 2
SYMMETRY Symmetries
INVARIANTS
    ConceptsMatchTotals
    SettledOnce
    ClosedMeansInactive
    TransitionsAreAudited
PROPERTIES
    ApprovedIsFinal
    ApprovalIsOfWhatWasRead
    PinIsNeverReplaced
\* Once everybody has left there is nothing to do.
CHECK_DEADLOCK FALSE
