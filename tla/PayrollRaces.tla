----------------------------- MODULE PayrollRaces -----------------------------
(***************************************************************************)
(* The payroll under concurrent requests.                                   *)
(*                                                                         *)
(* Every handler of Payroll checks a model it loaded (or a count it took)   *)
(* and then writes, without a row lock and without checking again: the      *)
(* check is one step here and the write another.  A check made inside the   *)
(* transaction of the write is split off too: MySQL's default isolation     *)
(* (repeatable read) answers it from a snapshot.  What a handler reads      *)
(* while it writes is read at the write: interleavings finer than that are  *)
(* left out.                                                                *)
(*                                                                         *)
(* Eloquent's save() writes only the columns that differ from the loaded    *)
(* model, so a stale model leaves another request's columns alone.          *)
(***************************************************************************)
EXTENDS Payroll

CONSTANT Sessions   \* bound: requests in flight at once

VARIABLE request    \* the request each session is serving

raceVars == <<vars, request>>

Idle == [op |-> "idle"]

\* Mutation of Dirty: the whole row is written, stale columns included.
MutWholeRow(row, seen, new) == new

\* Columns written: those whose new value differs from the loaded one.
Dirty(row, seen, new) ==
    [c \in DOMAIN row |-> IF new[c] = seen[c] THEN row[c] ELSE new[c]]

Begin(s, req) ==
    /\ request[s] = Idle
    /\ request' = [request EXCEPT ![s] = req]
    /\ UNCHANGED vars

Finish(s) == request' = [request EXCEPT ![s] = Idle]

-----------------------------------------------------------------------------
(* The check: the row each handler loads, and the guard it holds it to *)

OnRun(op, p) == [op |-> op, period |-> p, seen |-> run[p], gone |-> FALSE]

BeginGenerate(s, p) ==
    /\ run[p].status = "draft"
    /\ Begin(s, OnRun("generate", p))

BeginSubmit(s, p) ==
    /\ run[p].status = "draft"
    /\ \E e \in Employees : payslip[<<p, e>>] # None
    /\ Begin(s, OnRun("submit", p))

BeginHrApprove(s, p) ==
    /\ run[p].status = "hr_review"
    /\ \A e \in Employees : payslip[<<p, e>>] # None => ~payslip[<<p, e>>].review
    /\ Begin(s, OnRun("hrApprove", p))

BeginFinanceApprove(s, p) ==
    /\ run[p].status = "finance_approval"
    /\ Begin(s, OnRun("financeApprove", p))

BeginDisburse(s, p) ==
    /\ run[p].status = "approved"
    /\ Begin(s, OnRun("disburse", p))

BeginReturnToDraft(s, p) ==
    /\ run[p].status \notin {"none", "draft", "disbursed"}
    /\ Begin(s, OnRun("returnToDraft", p))

BeginAdjust(s, p, e) ==
    /\ run[p].status = "draft"
    /\ payslip[<<p, e>>] # None
    /\ Begin(s, [op |-> "adjust", slip |-> <<p, e>>, seen |-> payslip[<<p, e>>],
                 gone |-> FALSE])

\* Edit, or Build Schedule when the fields stay as they are.
BeginSaveLoan(s, l, new) ==
    /\ Exists(l)
    /\ IsEditable(l)
    /\ Begin(s, [op |-> "saveLoan", loan |-> l, seen |-> loan[l],
                 new |-> [new EXCEPT !.status = loan[l].status]])

BeginDeleteLoan(s, l) ==
    /\ Exists(l)
    /\ IsEditable(l)
    /\ Begin(s, [op |-> "deleteLoan", loan |-> l])

-----------------------------------------------------------------------------
(* The write *)

PeriodOf(req) == IF req.op = "adjust" THEN req.slip[1] ELSE req.period

RunOps == {"generate", "submit", "hrApprove", "financeApprove", "disburse", "returnToDraft"}

\* The requests of the given kinds on period p hold a row that is now gone: what
\* they write matches nothing, even if a row of the same period is created since.
Orphaned(ops, p) ==
    [t \in Sessions |->
        IF request[t].op \in ops /\ PeriodOf(request[t]) = p
        THEN [request[t] EXCEPT !.gone = TRUE] ELSE request[t]]

\* The payslips of a deleted run fail their foreign key, and all rolls back.
\* Rebuilt payslips are new rows, out of reach of an Adjust in flight.
CommitGenerate(s) ==
    /\ request[s].op = "generate"
    /\ LET p == request[s].period
       IN  IF request[s].gone
           THEN Finish(s) /\ UNCHANGED <<payslip, instalment>>
           ELSE /\ \E pay \in Pays : GeneratePayslips(p, pay)
                /\ request' = [Orphaned({"adjust"}, p) EXCEPT ![s] = Idle]
    /\ UNCHANGED <<run, loan, accrual, reviewed>>

\* The loaded row on another rung.
Raised(s, status) == [request[s].seen EXCEPT !.status = status]

CommitMove(s, op, new) ==
    /\ request[s].op = op
    /\ run' = IF request[s].gone THEN run
              ELSE [run EXCEPT ![request[s].period] = Dirty(@, request[s].seen, new)]
    /\ Finish(s)

CommitSubmit(s) ==
    /\ CommitMove(s, "submit", Raised(s, "hr_review"))
    /\ reviewed' = IF request[s].gone THEN reviewed
                   ELSE reviewed \cup {request[s].period}
    /\ UNCHANGED <<payslip, loan, instalment, accrual>>

CommitHrApprove(s, u) ==
    /\ CommitMove(s, "hrApprove",
                  [Raised(s, "finance_approval") EXCEPT !.hrBy = u])
    /\ UNCHANGED <<payslip, loan, instalment, accrual, reviewed>>

CommitFinanceApprove(s, u) ==
    /\ CommitMove(s, "financeApprove",
                  [Raised(s, "approved") EXCEPT !.financeBy = u])
    /\ UNCHANGED <<payslip, loan, instalment, accrual, reviewed>>

CommitDisburse(s) ==
    /\ CommitMove(s, "disburse", Raised(s, "disbursed"))
    /\ IF request[s].gone THEN UNCHANGED <<accrual, loan>>
       ELSE BookAndSettle(request[s].period)
    /\ UNCHANGED <<payslip, instalment, reviewed>>

CommitReturnToDraft(s) ==
    /\ CommitMove(s, "returnToDraft", [NoRun EXCEPT !.status = "draft"])
    /\ UNCHANGED <<payslip, loan, instalment, accrual, reviewed>>

CommitAdjust(s, incentive, manual) ==
    /\ request[s].op = "adjust"
    /\ LET k    == request[s].slip
           seen == request[s].seen
       IN  IF request[s].gone THEN UNCHANGED payslip
           ELSE LET new == Adjusted(seen, incentive, manual)
                IN  /\ new \in PayslipRows
                    /\ payslip' = [payslip EXCEPT ![k] = Dirty(@, seen, new)]
    /\ Finish(s)
    /\ UNCHANGED <<run, loan, instalment, accrual, reviewed>>

\* The rows are deleted whoever holds them by now, and planned anew; the loan
\* row gets the columns that changed.
CommitSaveLoan(s) ==
    /\ request[s].op = "saveLoan"
    /\ LET l    == request[s].loan
           new  == request[s].new
           rows == NewRows(new.principal, new.months, new.start)
       IN  /\ instalment' = [instalment EXCEPT ![l] = rows]
           /\ loan' = [loan EXCEPT ![l] =
                          Dirty(@, request[s].seen, [new EXCEPT !.months = Len(rows)])]
    /\ Finish(s)
    /\ UNCHANGED <<run, payslip, accrual, reviewed>>

CommitDeleteLoan(s) ==
    /\ request[s].op = "deleteLoan"
    /\ loan' = [loan EXCEPT ![request[s].loan].trashed = TRUE]
    /\ Finish(s)
    /\ UNCHANGED <<run, payslip, instalment, accrual, reviewed>>

-----------------------------------------------------------------------------

RaceInit == Init /\ request = [s \in Sessions |-> Idle]

\* Requests that create a row of their own, or delete one, are single steps.
Alone ==
    \/ /\ \/ \E p \in Periods : CreateRun(p)
          \/ \E l \in LoanIds, e \in Employees, a \in Principals, n \in Terms, b \in Periods :
                CreateLoan(l, e, a, n, b)
       /\ UNCHANGED request
    \/ \E p \in Periods : DeleteRun(p) /\ request' = Orphaned(RunOps \cup {"adjust"}, p)

RaceNext ==
    \/ Alone
    \/ \E s \in Sessions, p \in Periods :
          \/ BeginGenerate(s, p)
          \/ BeginSubmit(s, p)
          \/ BeginHrApprove(s, p)
          \/ BeginFinanceApprove(s, p)
          \/ BeginDisburse(s, p)
          \/ BeginReturnToDraft(s, p)
          \/ \E e \in Employees : BeginAdjust(s, p, e)
    \/ \E s \in Sessions, l \in LoanIds :
          \/ BeginSaveLoan(s, l, loan[l])
          \/ \E e \in Employees, a \in Principals, n \in Terms, b \in Periods :
                BeginSaveLoan(s, l, [party |-> e, principal |-> a, months |-> n,
                                     start |-> b, status |-> "active", trashed |-> FALSE])
          \/ BeginDeleteLoan(s, l)
    \/ \E s \in Sessions :
          \/ CommitGenerate(s)
          \/ CommitSubmit(s)
          \/ \E u \in HrUsers : CommitHrApprove(s, u)
          \/ \E u \in FinanceUsers : CommitFinanceApprove(s, u)
          \/ CommitDisburse(s)
          \/ CommitReturnToDraft(s)
          \/ \E i \in Incentives, m \in ManualAmounts : CommitAdjust(s, i, m)
          \/ CommitSaveLoan(s)
          \/ CommitDeleteLoan(s)

RaceSpec == RaceInit /\ [][RaceNext]_raceVars

-----------------------------------------------------------------------------
(* Properties *)

\* However requests interleave, a recovered instalment points at a payslip that
\* exists, in a month it was due by (PayrollService::clear, the nulling foreign
\* key): a loan never writes itself off against a payslip that is gone.
RecoveryPointsAtPayslips ==
    \A l \in LoanIds : \A i \in DOMAIN instalment[l] :
        LET row == instalment[l][i]
        IN  row.payslip # None =>
              payslip[row.payslip] # None /\ row.due <= row.payslip[1]

\* An edit that was opened while the loan was active does not reopen a loan a
\* disbursement has closed since (PayrollRunService::settleFullyRecoveredLoans,
\* EditEmployeeLoan): the stale status is not among the columns it writes.
ClosingIsFinal ==
    [][\A l \in LoanIds :
          loan[l] # None /\ loan[l].status = "settled" =>
              loan'[l].status = "settled"]_raceVars

=============================================================================
