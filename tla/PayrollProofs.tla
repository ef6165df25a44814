---------------------------- MODULE PayrollProofs ----------------------------
(***************************************************************************)
(* Theorems about Payroll, for every number of employees, advances, months  *)
(* and every input set.                                                     *)
(***************************************************************************)
EXTENDS MCPayroll, ArithmeticProofs, SequenceTheorems

-----------------------------------------------------------------------------
(* The schedule of an advance *)

\* New rows are well typed and none is taken.
LEMMA NewRowsType ==
    ASSUME NEW P \in Nat \ {0}, NEW N \in Nat \ {0}, NEW s \in Nat
    PROVE  /\ NewRows(P, N, s) \in Seq(InstalmentRows)
           /\ Len(NewRows(P, N, s)) \in Nat \ {0}
           /\ \A i \in DOMAIN NewRows(P, N, s) : NewRows(P, N, s)[i].payslip = None
<1> DEFINE plan == Plan(P, N, s)
<1>1. plan \in Seq([due : Nat, amount : Int]) /\ Len(plan) \in Nat \ {0}
    BY PlanType
<1> HIDE DEF plan
<1>2. NewRows(P, N, s) = [i \in 1..Len(plan) |-> [due     |-> plan[i].due,
                                                  amount  |-> plan[i].amount,
                                                  payslip |-> None]]
    BY <1>1 DEF NewRows, plan
<1>3. ASSUME NEW i \in 1..Len(plan)
      PROVE  [due |-> plan[i].due, amount |-> plan[i].amount, payslip |-> None]
                \in InstalmentRows
    <2>1. plan[i] \in [due : Nat, amount : Int]
        BY <1>1, ElementOfSeq
    <2> QED
        BY <2>1 DEF InstalmentRows
<1>4. NewRows(P, N, s) \in [1..Len(plan) -> InstalmentRows]
    BY <1>2, <1>3
<1>5. NewRows(P, N, s) \in Seq(InstalmentRows) /\ Len(NewRows(P, N, s)) = Len(plan)
    BY <1>1, <1>4, SequenceOfFunction
<1> QED
    BY <1>1, <1>2, <1>5

-----------------------------------------------------------------------------
(* Type correctness *)

\* Letting go of a row keeps its type, and the length of its schedule.
LEMMA ReleasedType ==
    ASSUME TypeOK, NEW p \in Periods
    PROVE  /\ Released(p) \in [LoanIds -> Seq(InstalmentRows)]
           /\ \A l \in LoanIds : DOMAIN Released(p)[l] = DOMAIN instalment[l]
<1> SUFFICES ASSUME NEW l \in LoanIds
             PROVE  /\ Released(p)[l] \in Seq(InstalmentRows)
                    /\ DOMAIN Released(p)[l] = DOMAIN instalment[l]
    BY DEF Released
<1> DEFINE s == instalment[l]
<1>1. s \in Seq(InstalmentRows)
    BY DEF TypeOK
<1>2. DOMAIN s = 1..Len(s) /\ Len(s) \in Nat
    BY <1>1
<1>3. \A i \in 1..Len(s) : s[i] \in InstalmentRows
    BY <1>1, ElementOfSeq
<1> HIDE DEF s
<1>4. \A i \in 1..Len(s) : [s[i] EXCEPT !.payslip = None] \in InstalmentRows
    BY <1>3 DEF InstalmentRows
<1>5. Released(p)[l] = [i \in 1..Len(s) |->
                           IF s[i].payslip \in {p} \X Employees
                           THEN [s[i] EXCEPT !.payslip = None] ELSE s[i]]
    BY <1>2 DEF Released, s
<1>6. Released(p)[l] \in [1..Len(s) -> InstalmentRows]
    BY <1>3, <1>4, <1>5
<1> QED
    BY <1>2, <1>5, <1>6, SequenceOfFunction DEF s

\* Generation writes payslips that fit their columns and points instalments at
\* payslips of their borrower.
LEMMA GenerationType ==
    ASSUME TypeOK, NEW p \in Periods, NEW pay \in Pays, GeneratePayslips(p, pay)
    PROVE  /\ payslip' \in [PayslipIds -> PayslipRows \cup {None}]
           /\ instalment' \in [LoanIds -> Seq(InstalmentRows)]
<1> DEFINE free == Released(p)
<1>1. payslip' \in [PayslipIds -> PayslipRows \cup {None}]
    BY DEF GeneratePayslips, PayslipIds, TypeOK
<1>2. ASSUME NEW l \in LoanIds
      PROVE  instalment'[l] \in Seq(InstalmentRows)
    <2> DEFINE s == free[l]
               takes(i) == \E e \in Employees :
                              /\ pay[e] # None
                              /\ <<l, i>> \in DueInstallments(free, e, p)
    <2>1. s \in Seq(InstalmentRows)
        BY ReleasedType
    <2>2. DOMAIN s = 1..Len(s) /\ Len(s) \in Nat
        BY <2>1
    <2>3. \A i \in 1..Len(s) : s[i] \in InstalmentRows
        BY <2>1, ElementOfSeq
    <2>4. ASSUME NEW i \in 1..Len(s), takes(i)
          PROVE  [s[i] EXCEPT !.payslip = <<p, loan[l].party>>] \in InstalmentRows
        <3>1. loan[l].party \in Employees
            BY <2>4 DEF DueInstallments
        <3>2. <<p, loan[l].party>> \in PayslipIds
            BY <3>1 DEF PayslipIds
        <3> QED
            BY <2>3, <3>2 DEF InstalmentRows
    <2>5. instalment'[l] = [i \in DOMAIN s |->
                               IF takes(i) THEN [s[i] EXCEPT !.payslip = <<p, loan[l].party>>]
                               ELSE s[i]]
        BY DEF GeneratePayslips
    <2> HIDE DEF s, takes
    <2>6. instalment'[l] \in [1..Len(s) -> InstalmentRows]
        BY <2>2, <2>3, <2>4, <2>5
    <2> QED
        BY <2>2, <2>6, SequenceOfFunction
<1>3. DOMAIN instalment' = LoanIds /\ instalment' = [l \in LoanIds |-> instalment'[l]]
    BY DEF GeneratePayslips
<1> QED
    BY <1>1, <1>2, <1>3

\* Saving an advance keeps loans and schedules well typed.
LEMMA SaveLoanType ==
    ASSUME TypeOK, NEW l \in LoanIds, NEW e \in Employees, NEW a \in Principals,
           NEW n \in Nat \ {0}, NEW b \in Periods, NEW st \in {"active", "settled"},
           SaveLoan(l, e, a, n, b, st)
    PROVE  /\ loan' \in [LoanIds -> LoanRows \cup {None}]
           /\ instalment' \in [LoanIds -> Seq(InstalmentRows)]
<1>1. a \in Nat \ {0} /\ b \in Nat
    BY PayrollAssumption DEF Periods
<1> DEFINE rows == NewRows(a, n, b)
<1>2. rows \in Seq(InstalmentRows) /\ Len(rows) \in Nat \ {0}
    BY <1>1, NewRowsType
<1>3. loan' = [loan EXCEPT ![l] =
                 [party |-> e, principal |-> a, months |-> Len(rows),
                  start |-> b, status |-> st, trashed |-> FALSE]]
      /\ instalment' = [instalment EXCEPT ![l] = rows]
    BY DEF SaveLoan
<1> HIDE DEF rows
<1> QED
    BY <1>2, <1>3 DEF TypeOK, LoanRows

\* Every step keeps the state well typed.
LEMMA TypeStep ==
    ASSUME TypeOK, [Next]_vars
    PROVE  TypeOK'
<1> USE DEF TypeOK
<1>1. ASSUME NEW p \in Periods, CreateRun(p) PROVE TypeOK'
    <2>1. run' \in [Periods -> RunRows]
        BY <1>1 DEF CreateRun, NoRun, RunRows, Statuses
    <2>2. CASE UNCHANGED <<payslip, instalment>>
        BY <1>1, <2>1, <2>2 DEF CreateRun
    <2>3. CASE \E pay \in Pays : GeneratePayslips(p, pay)
        BY <1>1, <2>1, <2>3, GenerationType DEF CreateRun
    <2> QED
        BY <1>1, <2>2, <2>3 DEF CreateRun
<1>2. ASSUME NEW p \in Periods, DeleteRun(p) PROVE TypeOK'
    <2>1. run' \in [Periods -> RunRows]
        BY <1>2 DEF DeleteRun, NoRun, RunRows
    <2>2. payslip' \in [PayslipIds -> PayslipRows \cup {None}]
        BY <1>2 DEF DeleteRun
    <2>3. instalment' \in [LoanIds -> Seq(InstalmentRows)]
        BY <1>2, ReleasedType DEF DeleteRun
    <2> QED
        BY <1>2, <2>1, <2>2, <2>3 DEF DeleteRun
<1>3. ASSUME NEW p \in Periods, Generate(p) PROVE TypeOK'
    BY <1>3, GenerationType DEF Generate
<1>4. ASSUME NEW p \in Periods, NEW e \in Employees, NEW i \in Incentives,
             NEW m \in ManualAmounts, Adjust(p, e, i, m)
      PROVE  TypeOK'
    <2>1. payslip' \in [PayslipIds -> PayslipRows \cup {None}]
        BY <1>4 DEF Adjust
    <2> QED
        BY <1>4, <2>1 DEF Adjust
<1>5. ASSUME NEW p \in Periods, SubmitForReview(p) PROVE TypeOK'
    BY <1>5 DEF SubmitForReview, MoveTo, RunRows, Statuses
<1>6. ASSUME NEW p \in Periods, NEW u \in HrUsers, HrApprove(p, u) PROVE TypeOK'
    BY <1>6 DEF HrApprove, RunRows, Statuses
<1>7. ASSUME NEW p \in Periods, NEW u \in FinanceUsers, FinanceApprove(p, u) PROVE TypeOK'
    BY <1>7 DEF FinanceApprove, RunRows, Statuses
<1>8. ASSUME NEW p \in Periods, Disburse(p) PROVE TypeOK'
    <2>1. run' \in [Periods -> RunRows]
        BY <1>8 DEF Disburse, MoveTo, RunRows, Statuses
    <2>2. \A k \in PayslipIds : payslip[k] # None => payslip[k].basic \in Amounts
        BY DEF PayslipRows
    <2>3. accrual' \in [PayslipIds -> Amounts \cup {None}]
        BY <1>8, <2>2 DEF Disburse, BookAndSettle
    <2>4. \A l \in LoanIds : Closes(p, l) =>
              [loan[l] EXCEPT !.status = "settled"] \in LoanRows
        BY DEF Closes, Exists, LoanRows
    <2>5. loan' \in [LoanIds -> LoanRows \cup {None}]
        BY <1>8, <2>4 DEF Disburse, BookAndSettle
    <2> QED
        BY <1>8, <2>1, <2>3, <2>5 DEF Disburse
<1>9. ASSUME NEW p \in Periods, ReturnToDraft(p) PROVE TypeOK'
    BY <1>9 DEF ReturnToDraft, NoRun, RunRows, Statuses
<1>10. ASSUME NEW l \in LoanIds, NEW e \in Employees, NEW a \in Principals,
              NEW n \in Terms, NEW b \in Periods, CreateLoan(l, e, a, n, b)
       PROVE  TypeOK'
    <2>1. n \in Nat \ {0}
        BY PayrollAssumption
    <2> QED
        BY <1>10, <2>1, SaveLoanType DEF CreateLoan, SaveLoan
<1>11. ASSUME NEW l \in LoanIds, NEW e \in Employees, NEW a \in Principals,
              NEW n \in Terms, NEW b \in Periods, EditLoan(l, e, a, n, b)
       PROVE  TypeOK'
    <2>1. n \in Nat \ {0}
        BY PayrollAssumption
    <2>2. loan[l].status \in {"active", "settled"}
        BY <1>11 DEF EditLoan, Exists, LoanRows
    <2> QED
        BY <1>11, <2>1, <2>2, SaveLoanType DEF EditLoan, SaveLoan
<1>12. ASSUME NEW l \in LoanIds, RebuildSchedule(l) PROVE TypeOK'
    <2>1. loan[l] \in LoanRows
        BY <1>12 DEF RebuildSchedule, Exists
    <2> QED
        BY <1>12, <2>1, SaveLoanType DEF RebuildSchedule, SaveLoan, LoanRows
<1>13. ASSUME NEW l \in LoanIds, DeleteLoan(l) PROVE TypeOK'
    BY <1>13 DEF DeleteLoan, Exists, LoanRows
<1>14. CASE UNCHANGED vars
    BY <1>14 DEF vars
<1> QED
    BY <1>1, <1>2, <1>3, <1>4, <1>5, <1>6, <1>7, <1>8, <1>9, <1>10, <1>11,
       <1>12, <1>13, <1>14
       DEF Next, RunNext, LoanNext

\* Whatever users do, the tables stay well typed.
THEOREM TypeCorrectness == Spec => []TypeOK
<1>1. Init => TypeOK
    BY EmptySeq DEF Init, TypeOK, NoRun, RunRows
<1> QED
    BY <1>1, TypeStep, PTL DEF Spec

-----------------------------------------------------------------------------
(* The ladder *)

\* Pricing a payslip sets its flag to that of its net.
LEMMA PricedFlag ==
    ASSUME NEW k \in PayslipIds, NEW pay, NEW inst, NEW i, NEW m
    PROVE  /\ BuildPayslip(k, pay, inst).review <=> BuildPayslip(k, pay, inst).net < 0
           /\ payslip[k] \in PayslipRows =>
                (Adjusted(payslip[k], i, m).review <=> Adjusted(payslip[k], i, m).net < 0)
<1>1. BuildPayslip(k, pay, inst).review <=> BuildPayslip(k, pay, inst).net < 0
    BY DEF BuildPayslip, Itemised, Priced
<1>2. ASSUME payslip[k] \in PayslipRows
      PROVE  Adjusted(payslip[k], i, m).review <=> Adjusted(payslip[k], i, m).net < 0
    BY <1>2 DEF Adjusted, Priced, PayslipRows
<1> QED
    BY <1>1, <1>2

\* Every step keeps approvals on their rungs and negative nets off the ladder.
LEMMA LadderStep ==
    ASSUME LadderInv, [Next]_vars
    PROVE  LadderInv'
<1> DEFINE Flags == \A k \in PayslipIds :
               payslip[k] # None => (payslip[k].review <=> payslip[k].net < 0)
           Signed == {"finance_approval", "approved", "disbursed"}
<1>a. TypeOK /\ ApprovalsMatchRung /\ NoNegativeNetPastHr /\ Flags
    BY DEF LadderInv
<1>b. SUFFICES ApprovalsMatchRung' /\ NoNegativeNetPastHr' /\ Flags'
    BY TypeStep DEF LadderInv
<1>c. run \in [Periods -> RunRows] /\ None \notin HrUsers /\ None \notin FinanceUsers
    BY <1>a, PayrollAssumption DEF TypeOK
<1>d. \A p \in Periods, e \in Employees : <<p, e>> \in PayslipIds
    BY DEF PayslipIds
<1>e. payslip \in [PayslipIds -> PayslipRows \cup {None}]
    BY <1>a DEF TypeOK
\* Generating a period prices its payslips and touches no other.
<1>g. ASSUME NEW p \in Periods, NEW pay \in Pays, GeneratePayslips(p, pay)
      PROVE  Flags' /\ \A k \in PayslipIds : k[1] # p => payslip'[k] = payslip[k]
    <2>1. ASSUME NEW k \in PayslipIds
          PROVE  payslip'[k] = IF k[1] # p THEN payslip[k]
                               ELSE IF pay[k[2]] = None THEN None
                               ELSE BuildPayslip(k, pay[k[2]], Released(p))
        BY <1>g, <2>1 DEF GeneratePayslips
    <2> QED
        BY <1>a, <2>1, PricedFlag
\* A step that leaves a run's row and payslips alone, or turns it into a draft
\* without approvals, keeps both parts for that run.
<1>s. ASSUME UNCHANGED <<run, payslip>>
      PROVE  ApprovalsMatchRung' /\ NoNegativeNetPastHr' /\ Flags'
    BY <1>a, <1>s DEF ApprovalsMatchRung, NoNegativeNetPastHr
<1>1. ASSUME NEW p \in Periods, CreateRun(p)
      PROVE  ApprovalsMatchRung' /\ NoNegativeNetPastHr' /\ Flags'
    <2>1. run' = [run EXCEPT ![p] = [NoRun EXCEPT !.status = "draft"]]
        BY <1>1 DEF CreateRun
    <2>2. Flags' /\ \A k \in PayslipIds : k[1] # p => payslip'[k] = payslip[k]
        BY <1>1, <1>a, <1>g DEF CreateRun
    <2>3. ApprovalsMatchRung'
        BY <1>a, <1>c, <2>1 DEF ApprovalsMatchRung, NoRun
    <2>4. NoNegativeNetPastHr'
        BY <1>a, <1>c, <1>d, <2>1, <2>2 DEF NoNegativeNetPastHr, NoRun
    <2> QED
        BY <2>2, <2>3, <2>4
<1>2. ASSUME NEW p \in Periods, DeleteRun(p)
      PROVE  ApprovalsMatchRung' /\ NoNegativeNetPastHr' /\ Flags'
    <2>1. run' = [run EXCEPT ![p] = NoRun]
        BY <1>2 DEF DeleteRun
    <2>2. payslip' = [k \in PayslipIds |-> IF k[1] = p THEN None ELSE payslip[k]]
        BY <1>2 DEF DeleteRun
    <2>3. ApprovalsMatchRung'
        BY <1>a, <1>c, <2>1 DEF ApprovalsMatchRung, NoRun
    <2>4. NoNegativeNetPastHr'
        BY <1>a, <1>c, <1>d, <2>1, <2>2 DEF NoNegativeNetPastHr, NoRun
    <2> QED
        BY <1>a, <2>2, <2>3, <2>4
<1>3. ASSUME NEW p \in Periods, Generate(p)
      PROVE  ApprovalsMatchRung' /\ NoNegativeNetPastHr' /\ Flags'
    <2>1. UNCHANGED run /\ run[p].status = "draft"
        BY <1>3 DEF Generate
    <2>2. Flags' /\ \A k \in PayslipIds : k[1] # p => payslip'[k] = payslip[k]
        BY <1>3, <1>g DEF Generate
    <2> QED
        BY <1>a, <1>d, <2>1, <2>2 DEF ApprovalsMatchRung, NoNegativeNetPastHr
<1>4. ASSUME NEW p \in Periods, NEW e \in Employees, NEW i \in Incentives,
             NEW m \in ManualAmounts, Adjust(p, e, i, m)
      PROVE  ApprovalsMatchRung' /\ NoNegativeNetPastHr' /\ Flags'
    <2>1. UNCHANGED run /\ run[p].status = "draft" /\ payslip[<<p, e>>] # None
        BY <1>4 DEF Adjust
    <2>2. payslip' = [payslip EXCEPT ![<<p, e>>] = Adjusted(payslip[<<p, e>>], i, m)]
        BY <1>4 DEF Adjust
    <2>3. Adjusted(payslip[<<p, e>>], i, m).review
              <=> Adjusted(payslip[<<p, e>>], i, m).net < 0
        BY <1>d, <1>e, <2>1, PricedFlag
    <2>4. Flags'
        BY <1>a, <1>d, <1>e, <2>2, <2>3
    <2> QED
        BY <1>a, <1>d, <1>e, <2>1, <2>2, <2>4
           DEF ApprovalsMatchRung, NoNegativeNetPastHr
<1>5. ASSUME NEW p \in Periods, SubmitForReview(p)
      PROVE  ApprovalsMatchRung' /\ NoNegativeNetPastHr' /\ Flags'
    BY <1>5, <1>a, <1>c
       DEF SubmitForReview, MoveTo, ApprovalsMatchRung, NoNegativeNetPastHr, RunRows
<1>6. ASSUME NEW p \in Periods, NEW u \in HrUsers, HrApprove(p, u)
      PROVE  ApprovalsMatchRung' /\ NoNegativeNetPastHr' /\ Flags'
    <2>1. \A e \in Employees : payslip[<<p, e>>] # None => payslip[<<p, e>>].net >= 0
        <3> SUFFICES ASSUME NEW e \in Employees, payslip[<<p, e>>] # None
                     PROVE  payslip[<<p, e>>].net >= 0
            OBVIOUS
        <3>1. ~payslip[<<p, e>>].review
            BY <1>6 DEF HrApprove
        <3>2. payslip[<<p, e>>].net \in Int
            BY <1>d, <1>e, PayrollAssumption DEF PayslipRows
        <3> QED
            BY <1>a, <1>d, <3>1, <3>2
    <2>2. ApprovalsMatchRung' /\ Flags'
        BY <1>6, <1>a, <1>c DEF HrApprove, ApprovalsMatchRung, RunRows
    <2>3. NoNegativeNetPastHr'
        BY <1>6, <1>a, <1>c, <2>1 DEF HrApprove, NoNegativeNetPastHr, RunRows
    <2> QED
        BY <2>2, <2>3
<1>7. ASSUME NEW p \in Periods, NEW u \in FinanceUsers, FinanceApprove(p, u)
      PROVE  ApprovalsMatchRung' /\ NoNegativeNetPastHr' /\ Flags'
    BY <1>7, <1>a, <1>c
       DEF FinanceApprove, ApprovalsMatchRung, NoNegativeNetPastHr, RunRows
<1>8. ASSUME NEW p \in Periods, Disburse(p)
      PROVE  ApprovalsMatchRung' /\ NoNegativeNetPastHr' /\ Flags'
    BY <1>8, <1>a, <1>c
       DEF Disburse, MoveTo, ApprovalsMatchRung, NoNegativeNetPastHr, RunRows
<1>9. ASSUME NEW p \in Periods, ReturnToDraft(p)
      PROVE  ApprovalsMatchRung' /\ NoNegativeNetPastHr' /\ Flags'
    BY <1>9, <1>a, <1>c
       DEF ReturnToDraft, ApprovalsMatchRung, NoNegativeNetPastHr, NoRun
<1>10. ASSUME NEW l \in LoanIds, LoanNext
       PROVE  ApprovalsMatchRung' /\ NoNegativeNetPastHr' /\ Flags'
    BY <1>10, <1>s
       DEF LoanNext, CreateLoan, EditLoan, RebuildSchedule, DeleteLoan, SaveLoan
<1>11. CASE UNCHANGED vars
    BY <1>11, <1>s DEF vars
<1> QED
    BY <1>1, <1>2, <1>3, <1>4, <1>5, <1>6, <1>7, <1>8, <1>9, <1>10, <1>11
       DEF Next, RunNext, LoanNext

\* The ladder invariant holds of every reachable state.
THEOREM LadderInvariance == Spec => []LadderInv
<1>1. Init => LadderInv
    BY EmptySeq DEF Init, LadderInv, TypeOK, NoRun, RunRows,
                    ApprovalsMatchRung, NoNegativeNetPastHr
<1> QED
    BY <1>1, LadderStep, PTL DEF Spec

\* A run carries exactly the approvals of the rungs it has climbed.
THEOREM ApprovalsOnTheirRung == Spec => []ApprovalsMatchRung
<1>1. LadderInv => ApprovalsMatchRung
    BY DEF LadderInv
<1> QED
    BY <1>1, LadderInvariance, PTL

\* No payslip of a run past HR has a negative net.
THEOREM NobodyIsAskedForMoneyBack == Spec => []NoNegativeNetPastHr
<1>1. LadderInv => NoNegativeNetPastHr
    BY DEF LadderInv
<1> QED
    BY <1>1, LadderInvariance, PTL

-----------------------------------------------------------------------------
(* The abstract ladder *)

\* The payslips after a generation.
LEMMA GeneratedPayslips ==
    ASSUME NEW p \in Periods, NEW pay \in Pays, GeneratePayslips(p, pay),
           NEW k \in PayslipIds
    PROVE  /\ k[1] # p => payslip'[k] = payslip[k]
           /\ k[1] = p /\ pay[k[2]] # None => payslip'[k] # None
<1>1. payslip'[k] = IF k[1] # p THEN payslip[k]
                    ELSE IF pay[k[2]] = None THEN None
                    ELSE BuildPayslip(k, pay[k[2]], Released(p))
    BY DEF GeneratePayslips
<1>2. ASSUME k[1] = p, pay[k[2]] # None
      PROVE  BuildPayslip(k, pay[k[2]], Released(p)) \in PayslipRows
    <2>1. k = <<p, k[2]>> /\ k[2] \in Employees
        BY <1>2 DEF PayslipIds
    <2> QED
        BY <1>2, <2>1 DEF GeneratePayslips
<1> QED
    BY <1>1, <1>2, NoneAssumption

\* The ladder's figures have their type.
LEMMA FiguresType ==
    ASSUME TypeOK, NEW p \in Periods
    PROVE  FiguresOf(p) \in [Employees -> PayslipRows \cup {None}]
    BY DEF TypeOK, FiguresOf, PayslipIds

\* Generation moves the figures of its own month only.
LEMMA GeneratedFigures ==
    ASSUME NEW p \in Periods, NEW pay \in Pays, GeneratePayslips(p, pay),
           NEW q \in Periods, q # p
    PROVE  FiguresOf(q)' = FiguresOf(q)
<1>1. \A e \in Employees : payslip'[<<q, e>>] = payslip[<<q, e>>]
    BY GeneratedPayslips DEF PayslipIds
<1> QED
    BY <1>1 DEF FiguresOf

\* No run exists at first, so nothing has been signed.
LEMMA LadderInit == Init => Ladder!Init
<1> SUFFICES ASSUME Init PROVE Ladder!Init
    OBVIOUS
<1>1. \A p \in Periods : FiguresOf(p) = [e \in Employees |-> None]
    BY DEF Init, FiguresOf, PayslipIds
<1> QED
    BY <1>1 DEF Init, Ladder!Init, NoRun

\* A run that keeps its row and its figures keeps its place on the ladder, so a
\* step that moves run p only has to be looked at there.
Elsewhere(p) ==
    \A q \in Periods \ {p} : run'[q] = run[q] /\ FiguresOf(q)' = FiguresOf(q)

\* A new run is opened as a draft, generated or still empty.
LEMMA OpenStep ==
    ASSUME LadderInv, LadderInv', NEW p \in Periods, CreateRun(p)
    PROVE  Ladder!Open(p)
<1>1. Elsewhere(p)
    BY GeneratedFigures DEF CreateRun, Elsewhere, LadderInv, TypeOK, FiguresOf
<1>2. run[p].status = "none" /\ run'[p].status = "draft"
    BY DEF CreateRun, NoRun, LadderInv, TypeOK
<1>3. /\ run[p].hrBy = None /\ run'[p].hrBy = None
      /\ run[p].financeBy = None /\ run'[p].financeBy = None
    BY DEF CreateRun, NoRun, LadderInv, TypeOK
<1>4. FiguresOf(p)' \in [Employees -> PayslipRows \cup {None}]
    BY FiguresType DEF LadderInv, FiguresOf, TypeOK, PayslipIds
<1> QED
    BY <1>1, <1>2, <1>3, <1>4 DEF Ladder!Open, Ladder!Climb, Ladder!NewFigures, Elsewhere

\* What is common to the steps that move nobody's figures.
LEMMA FiguresStand ==
    ASSUME UNCHANGED payslip
    PROVE  \A q \in Periods : FiguresOf(q)' = FiguresOf(q)
    BY DEF FiguresOf

\* Generating and adjusting move the figures of one unsigned draft.
LEMMA ReviseStep ==
    ASSUME LadderInv, LadderInv', NEW p \in Periods,
           Generate(p) \/ \E e \in Employees, incentive \in Incentives, manual \in ManualAmounts :
                             Adjust(p, e, incentive, manual)
    PROVE  Ladder!Revise(p)
<1>1. UNCHANGED run /\ run[p].status = "draft"
    BY DEF Generate, Adjust
<1>2. \A q \in Periods \ {p} : FiguresOf(q)' = FiguresOf(q)
    <2>1. CASE Generate(p)
        BY <2>1, GeneratedFigures DEF Generate
    <2>2. CASE \E e \in Employees, incentive \in Incentives, manual \in ManualAmounts :
                  Adjust(p, e, incentive, manual)
        <3>1. PICK e \in Employees, incentive \in Incentives, manual \in ManualAmounts :
                  payslip' = [payslip EXCEPT ![<<p, e>>] = Adjusted(payslip[<<p, e>>], incentive, manual)]
            BY <2>2 DEF Adjust
        <3>2. \A q \in Periods \ {p}, f \in Employees : payslip'[<<q, f>>] = payslip[<<q, f>>]
            BY <3>1 DEF LadderInv, TypeOK, PayslipIds
        <3> QED
            BY <3>2 DEF FiguresOf
    <2> QED
        BY <2>1, <2>2
<1>3. FiguresOf(p)' \in [Employees -> PayslipRows \cup {None}]
    BY FiguresType DEF LadderInv, FiguresOf, TypeOK, PayslipIds
<1>4. run[p].hrBy = None /\ run[p].financeBy = None
    BY <1>1 DEF LadderInv, ApprovalsMatchRung
<1> QED
    BY <1>1, <1>2, <1>3, <1>4 DEF Ladder!Revise, Ladder!NewFigures

\* Deleting a draft takes its figures with it.
LEMMA DiscardStep ==
    ASSUME LadderInv, LadderInv', NEW p \in Periods, DeleteRun(p)
    PROVE  Ladder!Discard(p)
<1>1. \A q \in Periods : FiguresOf(q)' = IF q = p THEN [e \in Employees |-> None]
                                         ELSE FiguresOf(q)
    BY DEF DeleteRun, FiguresOf, PayslipIds
<1>2. \A q \in Periods \ {p} : run'[q] = run[q]
    BY DEF DeleteRun, LadderInv, TypeOK
<1>3. /\ run[p].status = "draft" /\ run'[p].status = "none"
      /\ run[p].hrBy = None /\ run'[p].hrBy = None
      /\ run[p].financeBy = None /\ run'[p].financeBy = None
    BY DEF DeleteRun, NoRun, LadderInv, TypeOK, ApprovalsMatchRung
<1> QED
    BY <1>1, <1>2, <1>3 DEF Ladder!Discard, Ladder!Climb

\* Only a run with payslips goes to HR.
LEMMA SubmitStep ==
    ASSUME LadderInv, LadderInv', NEW p \in Periods, SubmitForReview(p)
    PROVE  Ladder!Submit(p)
<1>1. \A q \in Periods : FiguresOf(q)' = FiguresOf(q)
    BY FiguresStand DEF SubmitForReview
<1>2. FiguresOf(p) # [e \in Employees |-> None]
    BY DEF SubmitForReview, FiguresOf
<1>3. run' = [run EXCEPT ![p].status = "hr_review"] /\ run[p].status = "draft"
    BY DEF SubmitForReview, MoveTo
<1>4. \A q \in Periods : /\ run'[q].status = IF q = p THEN "hr_review" ELSE run[q].status
                         /\ run'[q].hrBy = run[q].hrBy
                         /\ run'[q].financeBy = run[q].financeBy
    BY <1>3 DEF LadderInv, TypeOK, RunRows
<1> QED
    BY <1>1, <1>2, <1>3, <1>4 DEF Ladder!Submit, Ladder!Climb

\* What HR passes is payable, because the stored flag agrees with the net.
LEMMA HrSignStep ==
    ASSUME LadderInv, LadderInv', NEW p \in Periods, NEW u \in HrUsers, HrApprove(p, u)
    PROVE  Ladder!HrSign(p)
<1>1. \A q \in Periods : FiguresOf(q)' = FiguresOf(q)
    BY FiguresStand DEF HrApprove
<1>2. FiguresOf(p) \in {f \in [Employees -> PayslipRows \cup {None}] :
                            \A e \in Employees : f[e] # None => f[e].net >= 0}
    <2>1. FiguresOf(p) \in [Employees -> PayslipRows \cup {None}]
        BY FiguresType DEF LadderInv
    <2>2. \A e \in Employees : payslip[<<p, e>>] # None => payslip[<<p, e>>].net >= 0
        <3> SUFFICES ASSUME NEW e \in Employees, payslip[<<p, e>>] # None
                     PROVE  payslip[<<p, e>>].net >= 0
            OBVIOUS
        <3>1. <<p, e>> \in PayslipIds
            BY DEF PayslipIds
        <3>2. payslip[<<p, e>>] \in PayslipRows
            BY <3>1 DEF LadderInv, TypeOK
        <3>3. ~(payslip[<<p, e>>].net < 0)
            BY <3>1 DEF LadderInv, HrApprove
        <3>4. payslip[<<p, e>>].net \in Int
            BY <3>2, PayrollAssumption DEF PayslipRows
        <3> QED
            BY <3>3, <3>4
    <2> QED
        BY <2>1, <2>2 DEF FiguresOf
<1>3. /\ run[p].status = "hr_review"
      /\ \A q \in Periods :
            /\ run'[q].status = IF q = p THEN "finance_approval" ELSE run[q].status
            /\ q # p => run'[q].hrBy = run[q].hrBy
            /\ run'[q].financeBy = run[q].financeBy
    BY DEF HrApprove, LadderInv, TypeOK, RunRows
<1>4. run'[p].hrBy # None
    BY <1>3 DEF LadderInv, ApprovalsMatchRung
<1> QED
    BY <1>1, <1>2, <1>3, <1>4 DEF Ladder!HrSign, Ladder!Climb

\* What Finance releases is what HR signed.
LEMMA FinanceSignStep ==
    ASSUME LadderInv, LadderInv', NEW p \in Periods, NEW u \in FinanceUsers,
           FinanceApprove(p, u)
    PROVE  Ladder!FinanceSign(p)
<1>1. \A q \in Periods : FiguresOf(q)' = FiguresOf(q)
    BY FiguresStand DEF FinanceApprove
<1>2. /\ run[p].status = "finance_approval"
      /\ \A q \in Periods :
            /\ run'[q].status = IF q = p THEN "approved" ELSE run[q].status
            /\ q # p => run'[q].financeBy = run[q].financeBy
            /\ run'[q].hrBy = run[q].hrBy
    BY DEF FinanceApprove, LadderInv, TypeOK, RunRows
<1>3. run[p].hrBy # None /\ run'[p].financeBy # None
    BY <1>2 DEF LadderInv, ApprovalsMatchRung
<1> QED
    BY <1>1, <1>2, <1>3 DEF Ladder!FinanceSign, Ladder!Climb

\* What is disbursed carries both signatures, on the figures it still has.
LEMMA PayStep ==
    ASSUME LadderInv, LadderInv', NEW p \in Periods, Disburse(p)
    PROVE  Ladder!Pay(p)
<1>1. \A q \in Periods : FiguresOf(q)' = FiguresOf(q)
    BY FiguresStand DEF Disburse
<1>2. run' = [run EXCEPT ![p].status = "disbursed"] /\ run[p].status = "approved"
    BY DEF Disburse, MoveTo
<1>3. \A q \in Periods : /\ run'[q].status = IF q = p THEN "disbursed" ELSE run[q].status
                         /\ run'[q].hrBy = run[q].hrBy
                         /\ run'[q].financeBy = run[q].financeBy
    BY <1>2 DEF LadderInv, TypeOK, RunRows
<1>4. run[p].hrBy # None /\ run[p].financeBy # None
    BY <1>2 DEF LadderInv, ApprovalsMatchRung
<1> QED
    BY <1>1, <1>2, <1>3, <1>4 DEF Ladder!Pay, Ladder!Climb

\* Going back to draft strikes both signatures out.
LEMMA ReopenStep ==
    ASSUME LadderInv, LadderInv', NEW p \in Periods, ReturnToDraft(p)
    PROVE  Ladder!Reopen(p)
<1>1. \A q \in Periods : FiguresOf(q)' = FiguresOf(q)
    BY FiguresStand DEF ReturnToDraft
<1>2. \A q \in Periods \ {p} : run'[q] = run[q]
    BY DEF ReturnToDraft, LadderInv, TypeOK
<1>3. run'[p].status = "draft" /\ run'[p].hrBy = None /\ run'[p].financeBy = None
    BY DEF ReturnToDraft, NoRun, LadderInv, TypeOK
<1>4. run[p].status \in {"hr_review", "finance_approval", "approved"}
    BY DEF ReturnToDraft, LadderInv, TypeOK, RunRows, Statuses
<1> QED
    BY <1>1, <1>2, <1>3, <1>4 DEF Ladder!Reopen, Ladder!Climb

\* The ladder sees nothing of advances, accruals and history.
LEMMA ElsewhereStutters ==
    ASSUME UNCHANGED <<run, payslip>>
    PROVE  UNCHANGED Ladder!vars
    BY FiguresStand DEF Ladder!vars

\* Every step of the payroll is a step of the ladder, or one it does not see.
LEMMA LadderSimulation ==
    LadderInv /\ LadderInv' /\ [Next]_vars => [Ladder!Next]_(Ladder!vars)
<1> SUFFICES ASSUME LadderInv, LadderInv', [Next]_vars
             PROVE  [Ladder!Next]_(Ladder!vars)
    OBVIOUS
<1>1. CASE UNCHANGED vars
    BY <1>1, ElsewhereStutters DEF vars
<1>2. CASE LoanNext
    BY <1>2, ElsewhereStutters
       DEF LoanNext, CreateLoan, EditLoan, RebuildSchedule, DeleteLoan, SaveLoan
<1>3. CASE RunNext
    <2>1. PICK p \in Periods :
              \/ CreateRun(p)
              \/ DeleteRun(p)
              \/ Generate(p)
              \/ \E e \in Employees, incentive \in Incentives, manual \in ManualAmounts :
                    Adjust(p, e, incentive, manual)
              \/ SubmitForReview(p)
              \/ \E u \in HrUsers : HrApprove(p, u)
              \/ \E u \in FinanceUsers : FinanceApprove(p, u)
              \/ Disburse(p)
              \/ ReturnToDraft(p)
        BY <1>3 DEF RunNext
    <2>2. \/ Ladder!Open(p) \/ Ladder!Revise(p) \/ Ladder!Discard(p) \/ Ladder!Submit(p)
          \/ Ladder!HrSign(p) \/ Ladder!FinanceSign(p) \/ Ladder!Pay(p) \/ Ladder!Reopen(p)
        BY <2>1, OpenStep, DiscardStep, ReviseStep, SubmitStep, HrSignStep,
           FinanceSignStep, PayStep, ReopenStep
    <2> QED
        BY <2>2 DEF Ladder!Next
<1> QED
    BY <1>1, <1>2, <1>3 DEF Next

\* The payroll implements the approval ladder: whatever the salaries, the leave,
\* the incentives and the advances are, figures move only in a draft and what is
\* paid out is what HR and Finance both signed (PayrollRunService).
THEOREM PayrollImplementsLadder == Spec => ClimbsLadder
    BY LadderInit, LadderSimulation, LadderInvariance, PTL DEF Spec, ClimbsLadder, Ladder!Spec

-----------------------------------------------------------------------------
(* What a disbursement settles *)

\* A step changes the run, the payslips or the accruals of no disbursed month.
LEMMA HistoryStep ==
    ASSUME TypeOK, [Next]_vars, NEW k \in PayslipIds, run[k[1]].status = "disbursed"
    PROVE  /\ run'[k[1]] = run[k[1]]
           /\ payslip'[k] = payslip[k]
           /\ accrual'[k] = accrual[k]
<1>a. k[1] \in Periods /\ k[2] \in Employees /\ k = <<k[1], k[2]>>
    BY DEF PayslipIds
<1>b. run \in [Periods -> RunRows] /\ payslip \in [PayslipIds -> PayslipRows \cup {None}]
    BY DEF TypeOK
<1>c. run[k[1]] # NoRun
    BY DEF NoRun
<1>1. ASSUME NEW p \in Periods, CreateRun(p)
      PROVE  run'[k[1]] = run[k[1]] /\ payslip'[k] = payslip[k] /\ accrual'[k] = accrual[k]
    <2>1. k[1] # p
        BY <1>1, <1>c DEF CreateRun
    <2>2. run'[k[1]] = run[k[1]] /\ UNCHANGED accrual
        BY <1>1, <1>a, <1>b, <2>1 DEF CreateRun
    <2>3. payslip'[k] = payslip[k]
        BY <1>1, <2>1, GeneratedPayslips DEF CreateRun
    <2> QED
        BY <2>2, <2>3
<1>2. ASSUME NEW p \in Periods, DeleteRun(p)
      PROVE  run'[k[1]] = run[k[1]] /\ payslip'[k] = payslip[k] /\ accrual'[k] = accrual[k]
    BY <1>2, <1>a, <1>b DEF DeleteRun
<1>3. ASSUME NEW p \in Periods, Generate(p)
      PROVE  run'[k[1]] = run[k[1]] /\ payslip'[k] = payslip[k] /\ accrual'[k] = accrual[k]
    <2>1. k[1] # p
        BY <1>3 DEF Generate
    <2> QED
        BY <1>3, <2>1, GeneratedPayslips DEF Generate
<1>4. ASSUME NEW p \in Periods, NEW e \in Employees, NEW x \in Incentives,
             NEW m \in ManualAmounts, Adjust(p, e, x, m)
      PROVE  run'[k[1]] = run[k[1]] /\ payslip'[k] = payslip[k] /\ accrual'[k] = accrual[k]
    <2>1. k # <<p, e>>
        BY <1>4 DEF Adjust
    <2> QED
        BY <1>4, <1>b, <2>1 DEF Adjust
<1>5. ASSUME NEW p \in Periods, SubmitForReview(p)
      PROVE  run'[k[1]] = run[k[1]] /\ payslip'[k] = payslip[k] /\ accrual'[k] = accrual[k]
    BY <1>5, <1>a, <1>b DEF SubmitForReview, MoveTo
<1>6. ASSUME NEW p \in Periods, NEW u \in HrUsers, HrApprove(p, u)
      PROVE  run'[k[1]] = run[k[1]] /\ payslip'[k] = payslip[k] /\ accrual'[k] = accrual[k]
    BY <1>6, <1>a, <1>b DEF HrApprove
<1>7. ASSUME NEW p \in Periods, NEW u \in FinanceUsers, FinanceApprove(p, u)
      PROVE  run'[k[1]] = run[k[1]] /\ payslip'[k] = payslip[k] /\ accrual'[k] = accrual[k]
    BY <1>7, <1>a, <1>b DEF FinanceApprove
<1>8. ASSUME NEW p \in Periods, Disburse(p)
      PROVE  run'[k[1]] = run[k[1]] /\ payslip'[k] = payslip[k] /\ accrual'[k] = accrual[k]
    BY <1>8, <1>a, <1>b DEF Disburse, BookAndSettle, MoveTo
<1>9. ASSUME NEW p \in Periods, ReturnToDraft(p)
      PROVE  run'[k[1]] = run[k[1]] /\ payslip'[k] = payslip[k] /\ accrual'[k] = accrual[k]
    BY <1>9, <1>a, <1>b DEF ReturnToDraft
<1>10. ASSUME LoanNext
       PROVE  run'[k[1]] = run[k[1]] /\ payslip'[k] = payslip[k] /\ accrual'[k] = accrual[k]
    BY <1>10 DEF LoanNext, CreateLoan, EditLoan, RebuildSchedule, DeleteLoan, SaveLoan
<1>11. CASE UNCHANGED vars
    BY <1>11 DEF vars
<1> QED
    BY <1>1, <1>2, <1>3, <1>4, <1>5, <1>6, <1>7, <1>8, <1>9, <1>10, <1>11
       DEF Next, RunNext

\* Once a month is paid out its run, its payslips and its accruals never change.
THEOREM DisbursedMonthsAreHistory == Spec => DisbursedIsHistory
<1>1. TypeOK /\ [Next]_vars =>
          [\A k \in PayslipIds :
              run[k[1]].status = "disbursed" =>
                  /\ run'[k[1]] = run[k[1]]
                  /\ payslip'[k] = payslip[k]
                  /\ accrual'[k] = accrual[k]]_vars
    BY HistoryStep
<1> QED
    BY <1>1, TypeCorrectness, PTL DEF Spec, DisbursedIsHistory

-----------------------------------------------------------------------------
(* Gratuity accruals *)

\* Only Disburse makes a month disbursed.
LEMMA BecomesDisbursed ==
    ASSUME TypeOK, [Next]_vars, NEW q \in Periods,
           run[q].status # "disbursed", run'[q].status = "disbursed"
    PROVE  Disburse(q)
<1>a. run \in [Periods -> RunRows]
    BY DEF TypeOK
<1>1. ASSUME NEW p \in Periods, CreateRun(p) PROVE FALSE
    BY <1>1, <1>a DEF CreateRun, NoRun
<1>2. ASSUME NEW p \in Periods, DeleteRun(p) PROVE FALSE
    BY <1>2, <1>a DEF DeleteRun, NoRun
<1>3. ASSUME UNCHANGED run PROVE FALSE
    BY <1>3
<1>4. ASSUME NEW p \in Periods, SubmitForReview(p) PROVE FALSE
    BY <1>4, <1>a DEF SubmitForReview, MoveTo, RunRows
<1>5. ASSUME NEW p \in Periods, NEW u \in HrUsers, HrApprove(p, u) PROVE FALSE
    BY <1>5, <1>a DEF HrApprove, RunRows
<1>6. ASSUME NEW p \in Periods, NEW u \in FinanceUsers, FinanceApprove(p, u) PROVE FALSE
    BY <1>6, <1>a DEF FinanceApprove, RunRows
<1>7. ASSUME NEW p \in Periods, ReturnToDraft(p) PROVE FALSE
    BY <1>7, <1>a DEF ReturnToDraft, NoRun
<1>8. ASSUME NEW p \in Periods, Disburse(p) PROVE p = q
    BY <1>8, <1>a DEF Disburse, MoveTo
<1>9. LoanNext \/ UNCHANGED vars => UNCHANGED run
    BY DEF LoanNext, CreateLoan, EditLoan, RebuildSchedule, DeleteLoan, SaveLoan, vars
<1> QED
    BY <1>1, <1>2, <1>3, <1>4, <1>5, <1>6, <1>7, <1>8, <1>9
       DEF Next, RunNext, Generate, Adjust

\* Accruals are booked by Disburse, for its own month.
LEMMA AccrualsMoveOnDisburse ==
    ASSUME [Next]_vars, NEW k \in PayslipIds, ~Disburse(k[1]),
           accrual \in [PayslipIds -> Amounts \cup {None}]
    PROVE  accrual'[k] = accrual[k]
<1>1. ASSUME NEW p \in Periods, Disburse(p) PROVE accrual'[k] = accrual[k]
    <2>1. k[1] # p
        BY <1>1
    <2> QED
        BY <1>1, <2>1 DEF Disburse, BookAndSettle
<1>2. ASSUME UNCHANGED accrual PROVE accrual'[k] = accrual[k]
    BY <1>2
<1>3. LoanNext \/ UNCHANGED vars => UNCHANGED accrual
    BY DEF LoanNext, CreateLoan, EditLoan, RebuildSchedule, DeleteLoan, SaveLoan, vars
<1> QED
    BY <1>1, <1>2, <1>3
       DEF Next, RunNext, CreateRun, DeleteRun, Generate, Adjust, SubmitForReview,
           HrApprove, FinanceApprove, ReturnToDraft

\* Every step keeps the accruals those of the disbursed payslips.
LEMMA AccrualStep ==
    ASSUME TypeOK, AccrualsMatchDisbursement, [Next]_vars
    PROVE  AccrualsMatchDisbursement'
<1> SUFFICES ASSUME NEW k \in PayslipIds
             PROVE  accrual'[k] = IF run'[k[1]].status = "disbursed" /\ k[2] \in Joined
                                        /\ payslip'[k] # None
                                  THEN payslip'[k].basic ELSE None
    BY DEF AccrualsMatchDisbursement
<1>1. k[1] \in Periods
    BY DEF PayslipIds
<1>2. accrual[k] = IF run[k[1]].status = "disbursed" /\ k[2] \in Joined /\ payslip[k] # None
                   THEN payslip[k].basic ELSE None
    BY DEF AccrualsMatchDisbursement
<1>3. CASE run[k[1]].status = "disbursed"
    BY <1>2, <1>3, HistoryStep
<1>4. CASE run[k[1]].status # "disbursed" /\ Disburse(k[1])
    <2>1. accrual'[k] = IF k[2] \in Joined /\ payslip[k] # None
                        THEN payslip[k].basic ELSE accrual[k]
        BY <1>4 DEF Disburse, BookAndSettle
    <2>2. payslip'[k] = payslip[k] /\ run'[k[1]].status = "disbursed"
        BY <1>1, <1>4 DEF Disburse, MoveTo, TypeOK, RunRows
    <2> QED
        BY <1>2, <1>4, <2>1, <2>2
<1>5. CASE run[k[1]].status # "disbursed" /\ ~Disburse(k[1])
    <2>1. accrual'[k] = accrual[k]
        BY <1>5, AccrualsMoveOnDisburse DEF TypeOK
    <2>2. run'[k[1]].status # "disbursed"
        BY <1>1, <1>5, BecomesDisbursed
    <2> QED
        BY <1>2, <1>5, <2>1, <2>2
<1> QED
    BY <1>3, <1>4, <1>5

\* Gratuity is booked for every payslip a disbursed run pays to somebody with a
\* date of joining, at the basic it was priced on, and for nothing else.
THEOREM AccrualsFollowDisbursement == Spec => []AccrualsMatchDisbursement
<1>1. Init => AccrualsMatchDisbursement
    BY DEF Init, AccrualsMatchDisbursement, NoRun, PayslipIds
<1>2. TypeOK /\ AccrualsMatchDisbursement /\ [Next]_vars => AccrualsMatchDisbursement'
    BY AccrualStep
<1> QED
    BY <1>1, <1>2, TypeCorrectness, PTL DEF Spec

-----------------------------------------------------------------------------
(* Typed figures *)

\* A rebuilt payslip carries over what was typed on the one it replaces.
LEMMA BuildKeepsTypedFigures ==
    ASSUME NEW k, NEW pay, NEW inst, payslip[k] # None
    PROVE  LET new == BuildPayslip(k, pay, inst)
           IN  /\ new.manual = payslip[k].manual
               /\ payslip[k].overridden \in BOOLEAN => new.overridden = payslip[k].overridden
               /\ payslip[k].overridden => new.incentive = payslip[k].incentive
    BY DEF BuildPayslip, Itemised, Priced

\* A step that is not an Adjust of payslip k keeps its typed figures.
LEMMA TypedStep ==
    ASSUME TypeOK, [Next]_vars, NEW p \in Periods, NEW e \in Employees,
           payslip[<<p, e>>] # None, payslip'[<<p, e>>] # None,
           ~ \E i \in Incentives, m \in ManualAmounts : Adjust(p, e, i, m)
    PROVE  /\ payslip'[<<p, e>>].manual = payslip[<<p, e>>].manual
           /\ payslip'[<<p, e>>].overridden = payslip[<<p, e>>].overridden
           /\ payslip[<<p, e>>].overridden =>
                 payslip'[<<p, e>>].incentive = payslip[<<p, e>>].incentive
<1> DEFINE k == <<p, e>>
           Kept == /\ payslip'[k].manual = payslip[k].manual
                   /\ payslip'[k].overridden = payslip[k].overridden
                   /\ payslip[k].overridden => payslip'[k].incentive = payslip[k].incentive
<1>a. k \in PayslipIds /\ k[1] = p /\ k[2] = e
    BY DEF PayslipIds
<1>b. payslip \in [PayslipIds -> PayslipRows \cup {None}] /\ payslip[k].overridden \in BOOLEAN
    BY <1>a DEF TypeOK, PayslipRows
<1>1. ASSUME payslip'[k] = payslip[k] PROVE Kept
    BY <1>1
<1>2. ASSUME NEW q \in Periods, NEW pay \in Pays, GeneratePayslips(q, pay) PROVE Kept
    <2>1. payslip'[k] = IF k[1] # q THEN payslip[k]
                        ELSE IF pay[k[2]] = None THEN None
                        ELSE BuildPayslip(k, pay[k[2]], Released(q))
        BY <1>2, <1>a DEF GeneratePayslips
    <2>2. CASE k[1] # q
        BY <2>1, <2>2, <1>1
    <2>3. CASE k[1] = q
        <3>1. payslip'[k] = BuildPayslip(k, pay[k[2]], Released(q))
            BY <2>1, <2>3
        <3> HIDE DEF k
        <3> QED
            BY <3>1, <1>b, BuildKeepsTypedFigures DEF k
    <2> QED
        BY <2>2, <2>3
<1>3. ASSUME NEW q \in Periods, CreateRun(q) PROVE Kept
    BY <1>1, <1>2, <1>3 DEF CreateRun
<1>4. ASSUME NEW q \in Periods, DeleteRun(q) PROVE Kept
    <2>1. payslip'[k] = payslip[k]
        BY <1>4, <1>a DEF DeleteRun
    <2> QED
        BY <1>1, <2>1
<1>5. ASSUME NEW q \in Periods, Generate(q) PROVE Kept
    BY <1>2, <1>5 DEF Generate
<1>6. ASSUME NEW q \in Periods, NEW d \in Employees, NEW i \in Incentives,
             NEW m \in ManualAmounts, Adjust(q, d, i, m)
      PROVE  Kept
    <2>1. <<q, d>> # k
        BY <1>6
    <2>2. payslip'[k] = payslip[k]
        BY <1>6, <1>a, <1>b, <2>1 DEF Adjust
    <2> QED
        BY <1>1, <2>2
<1>7. ASSUME UNCHANGED payslip PROVE Kept
    BY <1>1, <1>7
<1>8. LoanNext \/ UNCHANGED vars => UNCHANGED payslip
    BY DEF LoanNext, CreateLoan, EditLoan, RebuildSchedule, DeleteLoan, SaveLoan, vars
<1> HIDE DEF Kept
<1>9. Kept
    BY <1>3, <1>4, <1>5, <1>6, <1>7, <1>8
       DEF Next, RunNext, SubmitForReview, HrApprove, FinanceApprove, Disburse, ReturnToDraft
<1> QED
    BY <1>9 DEF Kept

\* What somebody typed on a payslip outlives every regeneration of its run.
THEOREM TypedFiguresOutliveGeneration == Spec => TypedFiguresSurvive
<1>1. TypeOK /\ [Next]_vars =>
          [\A p \in Periods, e \in Employees :
              LET k == <<p, e>>
              IN  /\ payslip[k] # None /\ payslip'[k] # None
                  /\ ~ \E i \in Incentives, m \in ManualAmounts : Adjust(p, e, i, m)
                  => /\ payslip'[k].manual = payslip[k].manual
                     /\ payslip'[k].overridden = payslip[k].overridden
                     /\ payslip[k].overridden =>
                           payslip'[k].incentive = payslip[k].incentive]_vars
    BY TypedStep
<1> QED
    BY <1>1, TypeCorrectness, PTL DEF Spec, TypedFiguresSurvive

=============================================================================
