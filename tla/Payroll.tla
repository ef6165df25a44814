------------------------------- MODULE Payroll -------------------------------
(***************************************************************************)
(* The monthly payroll: runs and their approval ladder (PayrollRunService), *)
(* payslip generation (PayrollService), hand adjustments                    *)
(* (PayslipsRelationManager), staff advances and their instalments          *)
(* (LoanScheduleService) and gratuity accruals.                             *)
(*                                                                         *)
(* Here every request is served alone, as a transaction of its own;         *)
(* PayrollRaces splits the requests that read before they write.            *)
(*                                                                         *)
(* A run is identified by its period: payroll_runs.period is unique.  A     *)
(* payslip is identified by <<period, employee>>: payslips is unique on     *)
(* (run, party).  Salaries, unpaid leave and finalised incentives live in   *)
(* other tables; a generation reads whatever they then hold, so they are    *)
(* inputs of the action.                                                    *)
(***************************************************************************)
EXTENDS LoanSchedule, FiniteSets

CONSTANTS
    Employees,       \* parties holding the employee role
    Joined,          \* those whose profile has a date of joining
    LoanIds,         \* identities of employee_loans rows
    HrUsers,         \* users holding HrApprove:PayrollRun
    FinanceUsers,    \* users holding FinanceApprove:PayrollRun
    None,            \* SQL NULL, or no such row
    MaxPeriod,       \* bound: the months considered are 1..MaxPeriod
    MaxAmount,       \* the largest figure a decimal(12,2) column holds
    Salaries,        \* inputs: the basic salary in force
    UnpaidLeave,     \* inputs: what unpaid leave withholds
    Incentives,      \* inputs: imported or typed incentives
    ManualAmounts,   \* inputs: the Other Deduction field
    Principals,      \* inputs: the amount field of the loan form
    Terms,           \* inputs: the months field of the loan form
    BankFee          \* payroll_bank_fee_amount

ASSUME PayrollAssumption ==
    /\ MaxPeriod \in Nat
    /\ MaxAmount \in Nat
    /\ BankFee \in Nat
    /\ Joined \subseteq Employees
    /\ None \notin HrUsers \cup FinanceUsers
    /\ Salaries \cup UnpaidLeave \cup Incentives \cup ManualAmounts \subseteq Nat
    /\ Principals \cup Terms \subseteq Nat \ {0}

Periods == 1..MaxPeriod
Amounts == 0..MaxAmount

\* PayrollRunStatus, in the order of the ladder; "none" is a missing row.
Statuses == {"draft", "hr_review", "finance_approval", "approved", "disbursed"}

NoRun == [status |-> "none", hrBy |-> None, financeBy |-> None]

RunRows == [status    : Statuses \cup {"none"},
            hrBy      : HrUsers \cup {None},
            financeBy : FinanceUsers \cup {None}]

\* The rows of payslips; allowances are left out, they go where basic goes.
\* earned and withheld are the totals of the payslip's own lines, by kind.
PayslipRows == [basic      : Amounts,
                unpaid     : Amounts,
                incentive  : Amounts,
                overridden : BOOLEAN,
                loan       : Amounts,
                manual     : Amounts,
                net        : (-MaxAmount)..MaxAmount,
                review     : BOOLEAN,
                earned     : Amounts,
                withheld   : Amounts]

PayslipIds == Periods \X Employees

LoanRows == [party     : Employees,
             principal : Principals,
             months    : Nat \ {0},
             start     : Periods,
             status    : {"active", "settled"},
             trashed   : BOOLEAN]

InstalmentRows == [due : Nat, amount : Int, payslip : PayslipIds \cup {None}]

\* NULL is no row and no reference.
ASSUME NoneAssumption ==
    None \notin PayslipIds /\ None \notin PayslipRows /\ None \notin LoanRows

VARIABLES
    run,         \* payroll_runs, by period
    payslip,     \* payslips with their payslip_lines, by id
    loan,        \* employee_loans, by id
    instalment,  \* loan_installments of each loan, by seq
    accrual,     \* eosg_accruals: the basic snapshot booked, by <<period, party>>
    reviewed     \* history: the periods whose current run was ever sent to HR

vars == <<run, payslip, loan, instalment, accrual, reviewed>>

-----------------------------------------------------------------------------
(* Payslip figures *)

Net(s) == (s.basic + s.incentive) - (s.unpaid + s.loan + s.manual)

\* Mutation of Priced: the flag is raised and never lowered.
MutStickyFlag(s) == [s EXCEPT !.net = Net(s), !.review = @ \/ Net(s) < 0]

\* A row with its net pay and its review flag re-derived from its figures.
Priced(s) == [s EXCEPT !.net = Net(s), !.review = Net(s) < 0]

\* The lines are written once, when the payslip is built.
Itemised(s) == [s EXCEPT !.earned   = s.basic + s.incentive,
                         !.withheld = s.unpaid + s.loan + s.manual]

\* What the salary, leave and incentive tables hold for one employee; None
\* stands for an employee who is not on the payroll of the period.
PayInputs == [basic : Salaries, unpaid : UnpaidLeave, incentive : Incentives]

-----------------------------------------------------------------------------
(* Instalments *)

RowsOf(inst) == UNION {{l} \X DOMAIN inst[l] : l \in LoanIds}

\* A planned schedule as new rows that no payslip has taken.
NewRows(principal, months, start) ==
    LET plan == Plan(principal, months, start)
    IN  [i \in DOMAIN plan |-> [due     |-> plan[i].due,
                                amount  |-> plan[i].amount,
                                payslip |-> None]]

\* A loan the default query scope still returns.
Exists(l) == loan[l] # None /\ ~loan[l].trashed

\* Mutation of IsEditable: a schedule may always be rewritten.
MutAlwaysEditable(l) == TRUE

\* EmployeeLoan::isEditable: payroll has recovered no part of it yet.
IsEditable(l) == \A i \in DOMAIN instalment[l] : instalment[l][i].payslip = None

\* Mutation of Released: the payslips go, the references to them stay.
MutReleaseNothing(p) == instalment

\* The schedules after every payslip of the period has let go of its rows.
Released(p) ==
    [l \in LoanIds |-> [i \in DOMAIN instalment[l] |->
        IF instalment[l][i].payslip \in {p} \X Employees
        THEN [instalment[l][i] EXCEPT !.payslip = None]
        ELSE instalment[l][i]]]

\* Mutation of DueInstallments: rows another payslip has taken are swept in too.
MutSweepTaken(inst, e, p) ==
    {r \in RowsOf(inst) : /\ Exists(r[1])
                          /\ loan[r[1]].party = e
                          /\ loan[r[1]].status = "active"
                          /\ inst[r[1]][r[2]].due <= p}

\* Rows due by period p that nothing has recovered, arrears included.
DueInstallments(inst, e, p) ==
    {r \in RowsOf(inst) : /\ Exists(r[1])
                          /\ loan[r[1]].party = e
                          /\ loan[r[1]].status = "active"
                          /\ inst[r[1]][r[2]].payslip = None
                          /\ inst[r[1]][r[2]].due <= p}

Total(inst, rows) == SumFunction([r \in rows |-> inst[r[1]][r[2]].amount])

\* The rows one payslip holds.
HeldBy(k) == {r \in RowsOf(instalment) : instalment[r[1]][r[2]].payslip = k}

-----------------------------------------------------------------------------
(* Generation *)

\* Mutation of BuildPayslip: the Other Deduction is not carried over.
MutForgetManual(k, pay, inst) ==
    LET overridden == payslip[k] # None /\ payslip[k].overridden
    IN  Itemised(Priced(
            [basic      |-> pay.basic,
             unpaid     |-> pay.unpaid,
             incentive  |-> IF overridden THEN payslip[k].incentive ELSE pay.incentive,
             overridden |-> overridden,
             loan       |-> Total(inst, DueInstallments(inst, k[2], k[1])),
             manual     |-> 0,
             net        |-> 0,
             review     |-> FALSE,
             earned     |-> 0,
             withheld   |-> 0]))

\* buildPayslip: what was typed by hand outlives the payslip it was typed on.
BuildPayslip(k, pay, inst) ==
    LET old        == payslip[k]
        overridden == old # None /\ old.overridden
    IN  Itemised(Priced(
            [basic      |-> pay.basic,
             unpaid     |-> pay.unpaid,
             incentive  |-> IF overridden THEN old.incentive ELSE pay.incentive,
             overridden |-> overridden,
             loan       |-> Total(inst, DueInstallments(inst, k[2], k[1])),
             manual     |-> IF old = None THEN 0 ELSE old.manual,
             net        |-> 0,
             review     |-> FALSE,
             earned     |-> 0,
             withheld   |-> 0]))

\* Rebuild every payslip of the period: the old ones are dropped and their
\* instalments released, then each employee on the payroll is priced and takes
\* the instalments due.  A figure too large for its column aborts it all.
GeneratePayslips(p, pay) ==
    LET free  == Released(p)
        built == [k \in PayslipIds |->
                    IF k[1] # p THEN payslip[k]
                    ELSE IF pay[k[2]] = None THEN None
                    ELSE BuildPayslip(k, pay[k[2]], free)]
    IN  /\ \A e \in Employees :
              pay[e] # None => BuildPayslip(<<p, e>>, pay[e], free) \in PayslipRows
        /\ payslip' = built
        /\ instalment' =
              [l \in LoanIds |-> [i \in DOMAIN free[l] |->
                  IF \E e \in Employees : /\ pay[e] # None
                                          /\ <<l, i>> \in DueInstallments(free, e, p)
                  THEN [free[l][i] EXCEPT !.payslip = <<p, loan[l].party>>]
                  ELSE free[l][i]]]

Pays == [Employees -> PayInputs \cup {None}]

-----------------------------------------------------------------------------
(* Runs *)

MoveTo(p, status) == run' = [run EXCEPT ![p].status = status]

\* Opening a run generates it at once when the user may generate.
CreateRun(p) ==
    /\ run[p] = NoRun
    /\ run' = [run EXCEPT ![p] = [NoRun EXCEPT !.status = "draft"]]
    /\ \/ UNCHANGED <<payslip, instalment>>
       \/ \E pay \in Pays : GeneratePayslips(p, pay)
    /\ UNCHANGED <<loan, accrual, reviewed>>

\* Offered for a draft only; the foreign keys drop its payslips and null the
\* reference of the instalments they held.
DeleteRun(p) ==
    /\ run[p].status = "draft"
    /\ run' = [run EXCEPT ![p] = NoRun]
    /\ payslip' = [k \in PayslipIds |-> IF k[1] = p THEN None ELSE payslip[k]]
    /\ instalment' = Released(p)
    /\ reviewed' = reviewed \ {p}
    /\ UNCHANGED <<loan, accrual>>

\* Mutation of Generate: a run past the draft may be generated too.
MutGenerateAnyRun(p) ==
    /\ run[p].status # "none"
    /\ \E pay \in Pays : GeneratePayslips(p, pay)
    /\ UNCHANGED <<run, loan, accrual, reviewed>>

Generate(p) ==
    /\ run[p].status = "draft"
    /\ \E pay \in Pays : GeneratePayslips(p, pay)
    /\ UNCHANGED <<run, loan, accrual, reviewed>>

\* The Adjust modal of a draft: two typed figures, the rest re-derived.  The
\* payslip's lines are not rewritten.
Adjusted(s, incentive, manual) ==
    Priced([s EXCEPT !.incentive  = incentive,
                     !.overridden = @ \/ incentive # s.incentive,
                     !.manual     = manual])

Adjust(p, e, incentive, manual) ==
    LET k   == <<p, e>>
        new == Adjusted(payslip[k], incentive, manual)
    IN  /\ run[p].status = "draft"
        /\ payslip[k] # None
        /\ new \in PayslipRows
        /\ payslip' = [payslip EXCEPT ![k] = new]
        /\ UNCHANGED <<run, loan, instalment, accrual, reviewed>>

SubmitForReview(p) ==
    /\ run[p].status = "draft"
    /\ \E e \in Employees : payslip[<<p, e>>] # None
    /\ MoveTo(p, "hr_review")
    /\ reviewed' = reviewed \cup {p}
    /\ UNCHANGED <<payslip, loan, instalment, accrual>>

\* Mutation of HrApprove: payslips flagged for review do not block.
MutApproveFlagged(p, u) ==
    /\ run[p].status = "hr_review"
    /\ run' = [run EXCEPT ![p] = [@ EXCEPT !.status = "finance_approval", !.hrBy = u]]
    /\ UNCHANGED <<payslip, loan, instalment, accrual, reviewed>>

HrApprove(p, u) ==
    /\ run[p].status = "hr_review"
    /\ \A e \in Employees : payslip[<<p, e>>] # None => ~payslip[<<p, e>>].review
    /\ run' = [run EXCEPT ![p] = [@ EXCEPT !.status = "finance_approval", !.hrBy = u]]
    /\ UNCHANGED <<payslip, loan, instalment, accrual, reviewed>>

FinanceApprove(p, u) ==
    /\ run[p].status = "finance_approval"
    /\ run' = [run EXCEPT ![p] = [@ EXCEPT !.status = "approved", !.financeBy = u]]
    /\ UNCHANGED <<payslip, loan, instalment, accrual, reviewed>>

\* No row of the loan is without a payslip.
IsFullyTaken(l) ==
    \A i \in DOMAIN instalment[l] : instalment[l][i].payslip # None

\* settleFullyRecoveredLoans, for the employees of the run.
Closes(p, l) ==
    /\ Exists(l)
    /\ loan[l].status = "active"
    /\ payslip[<<p, loan[l].party>>] # None
    /\ IsFullyTaken(l)

\* Mutation of BookAndSettle: accruals are booked on the net pay.
MutAccrueNet(p) ==
    /\ accrual' = [k \in PayslipIds |->
                     IF k[1] = p /\ k[2] \in Joined /\ payslip[k] # None
                     THEN payslip[k].net ELSE accrual[k]]
    /\ loan' = [l \in LoanIds |->
                  IF Closes(p, l) THEN [loan[l] EXCEPT !.status = "settled"]
                  ELSE loan[l]]

\* bookGratuityAccruals (one row per party and period, rewritten if there) and
\* settleFullyRecoveredLoans, in the transaction of the disbursement.
BookAndSettle(p) ==
    /\ accrual' = [k \in PayslipIds |->
                     IF k[1] = p /\ k[2] \in Joined /\ payslip[k] # None
                     THEN payslip[k].basic ELSE accrual[k]]
    /\ loan' = [l \in LoanIds |->
                  IF Closes(p, l) THEN [loan[l] EXCEPT !.status = "settled"]
                  ELSE loan[l]]

\* Mutation of Disburse: a run Finance has not released is paid out.
MutDisburseEarly(p) ==
    /\ run[p].status \in {"finance_approval", "approved"}
    /\ BookAndSettle(p)
    /\ MoveTo(p, "disbursed")
    /\ UNCHANGED <<payslip, instalment, reviewed>>

Disburse(p) ==
    /\ run[p].status = "approved"
    /\ BookAndSettle(p)
    /\ MoveTo(p, "disbursed")
    /\ UNCHANGED <<payslip, instalment, reviewed>>

\* Mutations of ReturnToDraft: the approvals are kept; a disbursed run is
\* reopened.
MutKeepApprovals(p) ==
    /\ run[p].status \notin {"none", "draft", "disbursed"}
    /\ MoveTo(p, "draft")
    /\ UNCHANGED <<payslip, loan, instalment, accrual, reviewed>>

MutReopenDisbursed(p) ==
    /\ run[p].status \notin {"none", "draft"}
    /\ run' = [run EXCEPT ![p] = [NoRun EXCEPT !.status = "draft"]]
    /\ UNCHANGED <<payslip, loan, instalment, accrual, reviewed>>

\* The service refuses a disbursed run; the page offers it off the draft only.
ReturnToDraft(p) ==
    /\ run[p].status \notin {"none", "draft", "disbursed"}
    /\ run' = [run EXCEPT ![p] = [NoRun EXCEPT !.status = "draft"]]
    /\ UNCHANGED <<payslip, loan, instalment, accrual, reviewed>>

-----------------------------------------------------------------------------
(* Advances *)

\* generateFor: the rows are replaced and the loan records their number.
SaveLoan(l, e, principal, months, start, status) ==
    LET rows == NewRows(principal, months, start)
    IN  /\ loan' = [loan EXCEPT ![l] =
                      [party |-> e, principal |-> principal, months |-> Len(rows),
                       start |-> start, status |-> status, trashed |-> FALSE]]
        /\ instalment' = [instalment EXCEPT ![l] = rows]
        /\ UNCHANGED <<run, payslip, accrual, reviewed>>

CreateLoan(l, e, principal, months, start) ==
    /\ loan[l] = None
    /\ SaveLoan(l, e, principal, months, start, "active")

\* Editing rewrites the fields and rebuilds the schedule; Build Schedule is the
\* same with the fields left as they are.
EditLoan(l, e, principal, months, start) ==
    /\ Exists(l)
    /\ IsEditable(l)
    /\ SaveLoan(l, e, principal, months, start, loan[l].status)

RebuildSchedule(l) ==
    /\ Exists(l)
    /\ IsEditable(l)
    /\ SaveLoan(l, loan[l].party, loan[l].principal, loan[l].months,
                loan[l].start, loan[l].status)

\* A soft delete: the rows stay, and no query of payroll sees them again.
DeleteLoan(l) ==
    /\ Exists(l)
    /\ IsEditable(l)
    /\ loan' = [loan EXCEPT ![l].trashed = TRUE]
    /\ UNCHANGED <<run, payslip, instalment, accrual, reviewed>>

-----------------------------------------------------------------------------
(* The journal voucher *)

\* The totals of a run's journal voucher: the lines of its payslips, the bank
\* fee, and what is payable to the bank (PayrollJournalVoucherService::forRun).
Voucher(p) ==
    LET slips   == {e \in Employees : payslip[<<p, e>>] # None}
        Sum(f(_)) == MapThenSumSet(LAMBDA e : f(payslip[<<p, e>>]), slips)
        payable == Sum(LAMBDA s : s.net) + BankFee
    IN  [debit  |-> Sum(LAMBDA s : s.earned) + BankFee,
         credit |-> Sum(LAMBDA s : s.withheld) + IF payable > 0 THEN payable ELSE 0]

-----------------------------------------------------------------------------

Init ==
    /\ run = [p \in Periods |-> NoRun]
    /\ payslip = [k \in PayslipIds |-> None]
    /\ loan = [l \in LoanIds |-> None]
    /\ instalment = [l \in LoanIds |-> <<>>]
    /\ accrual = [k \in PayslipIds |-> None]
    /\ reviewed = {}

RunNext ==
    \E p \in Periods :
        \/ CreateRun(p)
        \/ DeleteRun(p)
        \/ Generate(p)
        \/ \E e \in Employees, incentive \in Incentives, manual \in ManualAmounts :
              Adjust(p, e, incentive, manual)
        \/ SubmitForReview(p)
        \/ \E u \in HrUsers : HrApprove(p, u)
        \/ \E u \in FinanceUsers : FinanceApprove(p, u)
        \/ Disburse(p)
        \/ ReturnToDraft(p)

LoanNext ==
    \E l \in LoanIds :
        \/ \E e \in Employees, a \in Principals, n \in Terms, s \in Periods :
              CreateLoan(l, e, a, n, s) \/ EditLoan(l, e, a, n, s)
        \/ RebuildSchedule(l)
        \/ DeleteLoan(l)

Next == RunNext \/ LoanNext

Spec == Init /\ [][Next]_vars

-----------------------------------------------------------------------------
(* Properties *)

TypeOK ==
    /\ run \in [Periods -> RunRows]
    /\ payslip \in [PayslipIds -> PayslipRows \cup {None}]
    /\ loan \in [LoanIds -> LoanRows \cup {None}]
    /\ instalment \in [LoanIds -> Seq(InstalmentRows)]
    /\ accrual \in [PayslipIds -> Amounts \cup {None}]
    /\ reviewed \subseteq Periods

\* Every recovered instalment points at a payslip that exists, of the employee
\* who borrowed, in a month it was already due; an instalment left pointing at
\* a deleted payslip "would quietly write itself off" (PayrollService::clear).
RecoveryIsTraceable ==
    \A l \in LoanIds : \A i \in DOMAIN instalment[l] :
        LET row == instalment[l][i]
        IN  row.payslip # None =>
              /\ payslip[row.payslip] # None
              /\ Exists(l)
              /\ row.payslip[2] = loan[l].party
              /\ row.due <= row.payslip[1]

\* A payslip withholds exactly the instalments it holds, so money taken from
\* pay is money taken off a loan, and none of it twice.
DeductionMatchesInstalments ==
    \A k \in PayslipIds :
        payslip[k] # None => payslip[k].loan = Total(instalment, HeldBy(k))

\* Whatever has been recovered, the rows of a loan add up to its principal:
\* recovered plus outstanding is what was lent.
LoanBalances ==
    \A l \in LoanIds :
        loan[l] # None => AmountOf(instalment[l], DOMAIN instalment[l]) = loan[l].principal

\* The approvals a run carries are those of the rungs it has climbed since it
\* was last a draft (PayrollRunService::returnToDraft).
ApprovalsMatchRung ==
    \A p \in Periods :
        /\ run[p].hrBy # None
              <=> run[p].status \in {"finance_approval", "approved", "disbursed"}
        /\ run[p].financeBy # None
              <=> run[p].status \in {"approved", "disbursed"}

\* No run past HR asks an employee for money back: every net is payable.
NoNegativeNetPastHr ==
    \A p \in Periods, e \in Employees :
        run[p].status \in {"finance_approval", "approved", "disbursed"}
            /\ payslip[<<p, e>>] # None => payslip[<<p, e>>].net >= 0

\* The inductive invariant behind the two above: HR can only look at the stored
\* flag, so the flag has to agree with the stored net on every payslip.
LadderInv ==
    /\ TypeOK
    /\ ApprovalsMatchRung
    /\ NoNegativeNetPastHr
    /\ \A k \in PayslipIds :
          payslip[k] # None => (payslip[k].review <=> payslip[k].net < 0)

\* Gratuity is booked for the payslips of disbursed runs and for nothing else,
\* at the basic each payslip was priced on.
AccrualsMatchDisbursement ==
    \A k \in PayslipIds :
        accrual[k] = IF run[k[1]].status = "disbursed" /\ k[2] \in Joined /\ payslip[k] # None
                     THEN payslip[k].basic ELSE None

\* Past the draft the figures a payslip carries, and the instalments it holds,
\* stay as they are unless the run goes back to draft.
FiguresAreFrozen ==
    [][\A k \in PayslipIds :
          run[k[1]].status \notin {"none", "draft"} =>
              payslip'[k] = payslip[k] /\ HeldBy(k)' = HeldBy(k)]_vars

\* A disbursed month is history: its run, its payslips and its accruals never
\* change again.
DisbursedIsHistory ==
    [][\A k \in PayslipIds :
          run[k[1]].status = "disbursed" =>
              /\ run'[k[1]] = run[k[1]]
              /\ payslip'[k] = payslip[k]
              /\ accrual'[k] = accrual[k]]_vars

\* While a payslip holds part of a loan, the loan's terms and the amounts and
\* due months of its rows stand (LoanScheduleService::generateFor).
RecoveredScheduleStands ==
    [][\A l \in LoanIds :
          Exists(l) /\ (\E i \in DOMAIN instalment[l] : instalment[l][i].payslip # None) =>
              /\ loan'[l] = [loan[l] EXCEPT !.status = loan'[l].status]
              /\ Len(instalment'[l]) = Len(instalment[l])
              /\ \A i \in DOMAIN instalment[l] :
                    /\ instalment'[l][i].due = instalment[l][i].due
                    /\ instalment'[l][i].amount = instalment[l][i].amount]_vars

\* What a person typed into Adjust is discarded by nothing but another Adjust,
\* by the employee leaving the payroll or by deleting the run.
TypedFiguresSurvive ==
    [][\A p \in Periods, e \in Employees :
          LET k == <<p, e>>
          IN  /\ payslip[k] # None /\ payslip'[k] # None
              /\ ~ \E i \in Incentives, m \in ManualAmounts : Adjust(p, e, i, m)
              => /\ payslip'[k].manual = payslip[k].manual
                 /\ payslip'[k].overridden = payslip[k].overridden
                 /\ payslip[k].overridden =>
                       payslip'[k].incentive = payslip[k].incentive]_vars

=============================================================================
