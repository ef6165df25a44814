SPECIFICATION RaceSpec
CONSTANTS
    None = None
    Employees = {e1}
    Joined = {e1}
    LoanIds = {}
    HrUsers = {hr}
    FinanceUsers = {fin}
    MaxPeriod = 1
    MaxAmount = 20
    Salaries = {3}
    UnpaidLeave = {0}
    Incentives = {0}
    ManualAmounts = {0, 1}
    Principals = {2}
    Terms = {1}
    RoundingStep = 1
    BankFee = 1
    Sessions = {s1, s2}
PROPERTY DisbursedStaysDisbursed
CHECK_DEADLOCK FALSE
