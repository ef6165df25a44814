------------------------------ MODULE MCPayroll ------------------------------
(* Finite instances of Payroll, and the claims of its comments it is tested on. *)
EXTENDS Payroll

FiguresOf(p) == [e \in Employees |-> payslip[<<p, e>>]]

Ladder == INSTANCE PayrollLadder WITH
    Runs      <- Periods,
    Figures   <- [Employees -> PayslipRows \cup {None}],
    Blank     <- [e \in Employees |-> None],
    Payable   <- {f \in [Employees -> PayslipRows \cup {None}] :
                     \A e \in Employees : f[e] # None => f[e].net >= 0},
    Unsigned  <- None,
    status    <- [p \in Periods |-> run[p].status],
    figures   <- [p \in Periods |-> FiguresOf(p)],
    hrSigned  <- [p \in Periods |-> IF run[p].hrBy = None THEN None ELSE FiguresOf(p)],
    finSigned <- [p \in Periods |-> IF run[p].financeBy = None THEN None ELSE FiguresOf(p)]

\* The runs keep the promise of the ladder: whoever signed a run signed the
\* figures it still carries (PayrollRunService::returnToDraft).
ClimbsLadder == Ladder!Spec

\* "what this produces is a balanced, account-by-account sheet"
\* (PayrollJournalVoucherService): for every run with something to pay.
VoucherBalances ==
    \A p \in Periods : Voucher(p).debit = Voucher(p).credit

\* "An instalment [...] would read as already recovered and never be deducted
\* again -- the loan would quietly write itself off" is what clear() is there to
\* prevent: a loan closed as settled owes nothing.
SettledLoanOwesNothing ==
    \A l \in LoanIds :
        loan[l] # None /\ loan[l].status = "settled" =>
            IsFullyTaken(l)

\* "Only an untouched draft may be removed. Anything HR has seen is a record of
\* a review, whatever came of it." (PayrollRunsTable)
OnlyUntouchedDraftsAreRemoved ==
    [][\A p \in Periods :
          run[p].status # "none" /\ run'[p].status = "none" => p \notin reviewed]_vars
=============================================================================
