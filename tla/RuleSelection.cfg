SPECIFICATION SelectionSpec
CONSTANTS
    r1 = r1
    r2 = r2
    CO = CO
    PE = PE
    c1 = c1
    fortnight = fortnight
    day = day
    termination = termination
    None = None
    Ids <- ThreeIds
    Contents <- OneContent
    Days <- FourDays
    Requests <- TwoRequests
    Periods <- TwoPeriods
    Terminations <- OneTermination
    First <- FirstDays
    Last <- LastDays
    Jurisdiction = CO
INVARIANTS
    PinCoversEveryDay
    OneRuleSetPerDay
    PinStillResolves
