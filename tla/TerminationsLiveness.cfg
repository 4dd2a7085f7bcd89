\* Fair requests, one calculation for each termination.
SPECIFICATION FairSpec
CONSTANTS
    r1 = r1
    r2 = r2
    ana = ana
    t1 = t1
    t2 = t2
    co2025 = co2025
    co2026 = co2026
    dates1 = dates1
    dates2 = dates2
    None = None
    Requests <- TwoRequests
    Employees <- OneEmployee
    Terminations <- TwoTerminations
    RuleSets <- OneRuleSet
    Inputs <- OneInput
    MaxVersion = 1
PROPERTIES
    RequestsEnd
\* Once everybody has left there is nothing to do.
CHECK_DEADLOCK FALSE
