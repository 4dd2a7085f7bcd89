\* Two requests open a termination for the same employee.
SPECIFICATION Spec
CONSTANTS
    r1 = r1
    r2 = r2
    ana = ana
    t1 = t1
    t2 = t2
    co2025 = co2025
    co2026 = co2026
    dates1 = dates1
    dates2 = dates2
    None = None
    Requests <- TwoRequests
    Employees <- OneEmployee
    Terminations <- TwoTerminations
    RuleSets <- TwoRuleSets
    Inputs <- TwoInputs
    MaxVersion = 2
INVARIANTS
    OneActiveTermination
CHECK_DEADLOCK FALSE
