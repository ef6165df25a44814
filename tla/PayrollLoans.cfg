\* Two months of payroll over one employee and one advance, with incentives and hand
\* adjustments that drive nets below zero.
SPECIFICATION Spec
CONSTANTS
    None = None
    Employees = {e1}
    Joined = {e1}
    LoanIds = {l1}
    HrUsers = {hr}
    FinanceUsers = {fin}
    MaxPeriod = 2
    MaxAmount = 20
    Salaries = {3}
    UnpaidLeave = {0}
    Incentives = {0, 1}
    ManualAmounts = {0, 4}
    Principals = {3}
    Terms = {1, 2}
    RoundingStep = 1
    BankFee = 1
INVARIANTS
    LadderInv
    ApprovalsMatchRung
    NoNegativeNetPastHr
    RecoveryIsTraceable
    DeductionMatchesInstalments
    LoanBalances
    AccrualsMatchDisbursement
PROPERTIES
    TypedFiguresSurvive
    FiguresAreFrozen
    DisbursedIsHistory
    RecoveredScheduleStands
    ClimbsLadder
CHECK_DEADLOCK FALSE
