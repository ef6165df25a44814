SPECIFICATION Spec
CONSTANTS
    None = None
    Leases = {1, 2, 3}
    Units = {u1, u2}
    Quotations = {q1}
    QuotedUnits = {u1}
    QuotedRent = 2
    Billed = {}
    UnitEdits = {"vacant", "reserved"}
    Rents = {2}
    Payments = {}
    Penalty = 1
    MaxLedger = 0
INVARIANT RenewedOnce
PROPERTIES
    LeaseMovesForward
    OccupiedUntilReleased
CHECK_DEADLOCK FALSE
