SPECIFICATION Spec
CONSTANTS
    None = None
    MonthLength = 2
    MonthsPerYear = 2
    AccrueFrom = 1
    AnnualDays = 3
    AnnualDaysPerMonth = 1
    Employees = {e1, e2}
    Joined <- MCJoined
    Opening <- MCOpening
    RequestIds = {r1, r2}
    Sessions = {s1, s2}
    Ranges <- MCRanges
    Types = {"sick_half"}
    MaxPeriods = 1
SYMMETRY Symmetry
INVARIANTS
    TypeOK
    OnlyApprovedReachesLedger
    LedgerIsCharged
    OpeningBalanceOnce
    FullDaysAreWithheldOnce
CHECK_DEADLOCK FALSE
