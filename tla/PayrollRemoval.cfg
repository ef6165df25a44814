SPECIFICATION Spec
CONSTANTS
    None = None
    Employees = {e1}
    Joined = {e1}
    LoanIds = {}
    HrUsers = {hr}
    FinanceUsers = {fin}
    MaxPeriod = 1
    MaxAmount = 20
    Salaries = {3}
    UnpaidLeave = {0}
    Incentives = {0}
    ManualAmounts = {0, 2}
    Principals = {3}
    Terms = {1, 2}
    RoundingStep = 1
    BankFee = 1
PROPERTY OnlyUntouchedDraftsAreRemoved
CHECK_DEADLOCK FALSE
