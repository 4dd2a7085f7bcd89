\* Fair requests, short histories.
SPECIFICATION FairSpec
CONSTANTS
    r1 = r1
    r2 = r2
    ana = ana
    luis = luis
    co2025 = co2025
    co2026 = co2026
    None = None
    Requests <- TwoRequests
    Employees <- OneEmployee
    RuleSets <- OneRuleSet
    Accruing <- OneEmployee
    Types <- Monthly
    MaxVersion = 2
PROPERTIES
    RequestsEnd
