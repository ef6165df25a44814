SPECIFICATION Spec
CONSTANTS
    None = None
    Leases = {1, 2}
    Units = {u1}
    Quotations = {}
    QuotedUnits = {u1}
    QuotedRent = 2
    Billed = {1, 2}
    UnitEdits = {}
    Rents = {2}
    Payments = {1, 2}
    Penalty = 1
    MaxLedger = 3
INVARIANTS
    TypeOK
    BalanceAdds
PROPERTY OverdueIsFlagged
CHECK_DEADLOCK FALSE
