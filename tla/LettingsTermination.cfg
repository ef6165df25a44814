SPECIFICATION Spec
CONSTANTS
    None = None
    Leases = {1, 2}
    Units = {u1}
    Quotations = {q1}
    QuotedUnits = {u1}
    QuotedRent = 2
    Billed = {1}
    UnitEdits = {"vacant"}
    Rents = {2}
    Payments = {1, 2}
    Penalty = 1
    MaxLedger = 4
PROPERTY TerminationVacatesOwnUnits
CHECK_DEADLOCK FALSE
