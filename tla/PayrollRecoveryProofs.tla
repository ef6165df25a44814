------------------------ MODULE PayrollRecoveryProofs ------------------------
(***************************************************************************)
(* Theorems about Payroll that relate payslips to the instalments they hold, *)
(* and about what no step may change; at the end, what of that is left when  *)
(* the checks and the writes of requests interleave (PayrollRaces).          *)
(***************************************************************************)
EXTENDS PayrollRaces, PayrollProofs

-----------------------------------------------------------------------------
(* Traceability of recoveries *)

\* What the schedules are after a generation, row by row.
LEMMA GeneratedRows ==
    ASSUME TypeOK, NEW p \in Periods, NEW pay \in Pays, GeneratePayslips(p, pay),
           NEW l \in LoanIds
    PROVE  /\ DOMAIN instalment'[l] = DOMAIN instalment[l]
           /\ \A i \in DOMAIN instalment[l] :
                 LET new == instalment'[l][i]
                     old == instalment[l][i]
                 IN  /\ new.due = old.due
                     /\ new.amount = old.amount
                     /\ \/ /\ Exists(l)
                           /\ old.due <= p
                           /\ pay[loan[l].party] # None
                           /\ new.payslip = <<p, loan[l].party>>
                           /\ old.payslip \in {None} \cup ({p} \X Employees)
                        \/ /\ new.payslip = old.payslip
                           /\ old.payslip \notin {p} \X Employees
                        \/ /\ new.payslip = None
                           /\ old.payslip \in {p} \X Employees
<1> DEFINE free == Released(p)
           takes(i) == \E e \in Employees : /\ pay[e] # None
                                            /\ <<l, i>> \in DueInstallments(free, e, p)
<1>1. DOMAIN free[l] = DOMAIN instalment[l]
    BY ReleasedType
<1>2. \A i \in DOMAIN instalment[l] :
          free[l][i] = IF instalment[l][i].payslip \in {p} \X Employees
                       THEN [instalment[l][i] EXCEPT !.payslip = None]
                       ELSE instalment[l][i]
    BY DEF Released
<1>3. instalment'[l] = [i \in DOMAIN free[l] |->
                           IF takes(i) THEN [free[l][i] EXCEPT !.payslip = <<p, loan[l].party>>]
                           ELSE free[l][i]]
    BY DEF GeneratePayslips
<1>4. ASSUME NEW i \in DOMAIN instalment[l], takes(i)
      PROVE  /\ Exists(l)
             /\ pay[loan[l].party] # None
             /\ free[l][i].payslip = None
             /\ free[l][i].due <= p
    BY <1>4 DEF DueInstallments
<1>5. \A i \in DOMAIN instalment[l] : instalment[l][i] \in InstalmentRows
    BY ElementOfSeq DEF TypeOK
<1> HIDE DEF free, takes
<1>6. ASSUME NEW i \in DOMAIN instalment[l]
      PROVE  LET new == instalment'[l][i]
                 old == instalment[l][i]
             IN  /\ new.due = old.due
                 /\ new.amount = old.amount
                 /\ \/ /\ Exists(l)
                       /\ old.due <= p
                       /\ pay[loan[l].party] # None
                       /\ new.payslip = <<p, loan[l].party>>
                       /\ old.payslip \in {None} \cup ({p} \X Employees)
                    \/ /\ new.payslip = old.payslip
                       /\ old.payslip \notin {p} \X Employees
                    \/ /\ new.payslip = None
                       /\ old.payslip \in {p} \X Employees
    <2> DEFINE old == instalment[l][i]
               mid == free[l][i]
               new == instalment'[l][i]
    <2>1. old \in InstalmentRows
        BY <1>5
    <2>2. mid = IF old.payslip \in {p} \X Employees
                THEN [old EXCEPT !.payslip = None] ELSE old
        BY <1>2
    <2>3. new = IF takes(i) THEN [mid EXCEPT !.payslip = <<p, loan[l].party>>] ELSE mid
        BY <1>1, <1>3
    <2>4. takes(i) => /\ Exists(l)
                      /\ pay[loan[l].party] # None
                      /\ mid.payslip = None
                      /\ mid.due <= p
        BY <1>4
    <2> HIDE DEF old, mid, new
    <2>5. mid.due = old.due /\ mid.amount = old.amount /\ mid \in [due : Nat, amount : Int, payslip : PayslipIds \cup {None}]
        BY <2>1, <2>2 DEF InstalmentRows
    <2>6. new.due = old.due /\ new.amount = old.amount
        BY <2>3, <2>5
    <2>7. CASE takes(i)
        <3>1. new.payslip = <<p, loan[l].party>>
            BY <2>3, <2>5, <2>7
        <3>2. old.payslip \in {None} \cup ({p} \X Employees)
            BY <2>2, <2>4, <2>7
        <3> QED
            BY <2>4, <2>5, <2>6, <2>7, <3>1, <3>2 DEF old, new
    <2>8. CASE ~takes(i)
        <3>1. \/ new.payslip = old.payslip /\ old.payslip \notin {p} \X Employees
              \/ new.payslip = None /\ old.payslip \in {p} \X Employees
            BY <2>1, <2>2, <2>3, <2>8 DEF InstalmentRows
        <3> QED
            BY <2>6, <3>1 DEF old, new
    <2> QED
        BY <2>7, <2>8
<1> QED
    BY <1>1, <1>3, <1>6

\* The claim of RecoveryIsTraceable about one row.
Traceable(l, i) ==
    LET row == instalment[l][i]
    IN  row.payslip # None =>
          /\ payslip[row.payslip] # None
          /\ Exists(l)
          /\ row.payslip[2] = loan[l].party
          /\ row.due <= row.payslip[1]

\* The invariant is that claim of every row.
LEMMA TraceableRows ==
    RecoveryIsTraceable <=> \A l \in LoanIds : \A i \in DOMAIN instalment[l] : Traceable(l, i)
    BY DEF RecoveryIsTraceable, Traceable

\* Generation hands every row it takes to a payslip it builds for the borrower.
LEMMA GenerationTraceable ==
    ASSUME TypeOK, RecoveryIsTraceable, UNCHANGED loan,
           NEW p \in Periods, NEW pay \in Pays, GeneratePayslips(p, pay)
    PROVE  RecoveryIsTraceable'
<1> SUFFICES ASSUME NEW l \in LoanIds, NEW i \in DOMAIN instalment'[l],
                    instalment'[l][i].payslip # None
             PROVE  Traceable(l, i)'
    BY DEF RecoveryIsTraceable, Traceable
<1> DEFINE new == instalment'[l][i]
           old == instalment[l][i]
<1>1. i \in DOMAIN instalment[l]
    BY GeneratedRows
<1>2. old \in InstalmentRows
    BY <1>1, ElementOfSeq DEF TypeOK
<1>3. new.due = old.due
    BY <1>1, GeneratedRows
<1>4. \/ /\ Exists(l)
         /\ old.due <= p
         /\ pay[loan[l].party] # None
         /\ new.payslip = <<p, loan[l].party>>
      \/ /\ new.payslip = old.payslip
         /\ old.payslip \notin {p} \X Employees
    BY <1>1, GeneratedRows
<1>5. CASE Exists(l) /\ old.due <= p /\ pay[loan[l].party] # None
           /\ new.payslip = <<p, loan[l].party>>
    <2>1. loan[l].party \in Employees
        BY <1>5 DEF Exists, TypeOK, LoanRows
    <2>2. <<p, loan[l].party>> \in PayslipIds
        BY <2>1 DEF PayslipIds
    <2>3. payslip'[<<p, loan[l].party>>] # None
        BY <1>5, <2>2, GeneratedPayslips
    <2>4. Exists(l)'
        BY <1>5 DEF Exists
    <2> QED
        BY <1>3, <1>5, <2>3, <2>4 DEF Traceable
<1>6. CASE new.payslip = old.payslip /\ old.payslip \notin {p} \X Employees
    <2>1. old.payslip \in PayslipIds /\ old.payslip # None
        BY <1>2, <1>6 DEF InstalmentRows
    <2>2. old.payslip[1] # p
        BY <1>6, <2>1 DEF PayslipIds
    <2>3. payslip'[old.payslip] = payslip[old.payslip]
        BY <2>1, <2>2, GeneratedPayslips
    <2>4. Traceable(l, i)
        BY <1>1, TraceableRows
    <2> QED
        BY <1>3, <1>6, <2>1, <2>3, <2>4 DEF Traceable, Exists
<1> QED
    BY <1>4, <1>5, <1>6

\* Deleting a run releases what its payslips held.
LEMMA DeletionTraceable ==
    ASSUME TypeOK, RecoveryIsTraceable, NEW p \in Periods, DeleteRun(p)
    PROVE  RecoveryIsTraceable'
<1> SUFFICES ASSUME NEW l \in LoanIds, NEW i \in DOMAIN instalment'[l],
                    instalment'[l][i].payslip # None
             PROVE  Traceable(l, i)'
    BY DEF RecoveryIsTraceable, Traceable
<1> DEFINE old == instalment[l][i]
<1>1. i \in DOMAIN instalment[l]
    BY ReleasedType DEF DeleteRun
<1>2. old \in InstalmentRows
    BY <1>1, ElementOfSeq DEF TypeOK
<1>3. instalment'[l][i] = IF old.payslip \in {p} \X Employees
                          THEN [old EXCEPT !.payslip = None] ELSE old
    BY <1>1 DEF DeleteRun, Released
<1>4. instalment'[l][i] = old /\ old.payslip \notin {p} \X Employees
    BY <1>2, <1>3 DEF InstalmentRows
<1>5. old.payslip \in PayslipIds /\ old.payslip[1] # p
    BY <1>2, <1>4 DEF InstalmentRows, PayslipIds
<1>6. payslip'[old.payslip] = payslip[old.payslip]
    BY <1>5 DEF DeleteRun
<1>7. Traceable(l, i) /\ UNCHANGED loan
    BY <1>1, TraceableRows DEF DeleteRun
<1> QED
    BY <1>4, <1>6, <1>7 DEF Traceable, Exists

\* An advance is rewritten only while no payslip holds a row of it.
LEMMA SavingTraceable ==
    ASSUME TypeOK, RecoveryIsTraceable, NEW l \in LoanIds, NEW e \in Employees,
           NEW a \in Principals, NEW n \in Nat \ {0}, NEW b \in Periods, NEW st,
           SaveLoan(l, e, a, n, b, st)
    PROVE  RecoveryIsTraceable'
<1> DEFINE rows == NewRows(a, n, b)
<1>1. \A i \in DOMAIN rows : rows[i].payslip = None
    <2>1. a \in Nat \ {0} /\ b \in Nat
        BY PayrollAssumption DEF Periods
    <2> QED
        BY <2>1, NewRowsType
<1>2. instalment' = [instalment EXCEPT ![l] = rows] /\ UNCHANGED payslip
      /\ \A m \in LoanIds \ {l} : loan'[m] = loan[m]
    BY DEF SaveLoan, TypeOK
<1> HIDE DEF rows
<1>3. instalment'[l] = rows /\ \A m \in LoanIds \ {l} : instalment'[m] = instalment[m]
    BY <1>2 DEF TypeOK
<1>4. ASSUME NEW m \in LoanIds, NEW i \in DOMAIN instalment'[m] PROVE Traceable(m, i)'
    <2>1. CASE m = l
        BY <1>1, <1>3, <2>1 DEF Traceable
    <2>2. CASE m # l
        BY <1>2, <1>3, <2>2, TraceableRows DEF Traceable, Exists
    <2> QED
        BY <2>1, <2>2
<1> QED
    BY <1>4 DEF RecoveryIsTraceable, Traceable

\* Steps that leave payslips and instalments alone, and of each loan at most
\* the status.
LEMMA StatusTraceable ==
    ASSUME RecoveryIsTraceable, UNCHANGED <<payslip, instalment>>,
           \A l \in LoanIds : Exists(l) => /\ Exists(l)'
                                           /\ loan'[l].party = loan[l].party
    PROVE  RecoveryIsTraceable'
<1> SUFFICES ASSUME NEW l \in LoanIds, NEW i \in DOMAIN instalment'[l]
             PROVE  Traceable(l, i)'
    BY DEF RecoveryIsTraceable, Traceable
<1>1. Traceable(l, i)
    BY TraceableRows
<1> QED
    BY <1>1 DEF Traceable

\* Every step keeps recoveries traceable.
LEMMA TraceableStep ==
    ASSUME TypeOK, RecoveryIsTraceable, [Next]_vars
    PROVE  RecoveryIsTraceable'
<1>1. ASSUME NEW p \in Periods, CreateRun(p) PROVE RecoveryIsTraceable'
    <2>1. CASE UNCHANGED <<payslip, instalment>>
        BY <1>1, <2>1, StatusTraceable DEF CreateRun, Exists
    <2>2. CASE \E pay \in Pays : GeneratePayslips(p, pay)
        BY <1>1, <2>2, GenerationTraceable DEF CreateRun
    <2> QED
        BY <1>1, <2>1, <2>2 DEF CreateRun
<1>2. ASSUME NEW p \in Periods, DeleteRun(p) PROVE RecoveryIsTraceable'
    BY <1>2, DeletionTraceable
<1>3. ASSUME NEW p \in Periods, Generate(p) PROVE RecoveryIsTraceable'
    BY <1>3, GenerationTraceable DEF Generate
<1>4. ASSUME NEW p \in Periods, NEW e \in Employees, NEW x \in Incentives,
             NEW m \in ManualAmounts, Adjust(p, e, x, m)
      PROVE  RecoveryIsTraceable'
    <2>1. UNCHANGED <<loan, instalment>>
        BY <1>4 DEF Adjust
    <2>2. \A k \in PayslipIds : payslip[k] # None => payslip'[k] # None
        BY <1>4, NoneAssumption DEF Adjust, TypeOK
    <2>3. SUFFICES ASSUME NEW l \in LoanIds, NEW i \in DOMAIN instalment'[l]
                   PROVE  Traceable(l, i)'
        BY DEF RecoveryIsTraceable, Traceable
    <2>4. Traceable(l, i) /\ i \in DOMAIN instalment[l]
        BY <2>1, TraceableRows
    <2>5. instalment[l][i] \in InstalmentRows
        BY <2>4, ElementOfSeq DEF TypeOK
    <2>6. instalment[l][i].payslip \in PayslipIds \cup {None}
        BY <2>5 DEF InstalmentRows
    <2> QED
        BY <2>1, <2>2, <2>4, <2>6 DEF Traceable, Exists
<1>5. ASSUME NEW p \in Periods, SubmitForReview(p) PROVE RecoveryIsTraceable'
    BY <1>5, StatusTraceable DEF SubmitForReview, Exists
<1>6. ASSUME NEW p \in Periods, NEW u \in HrUsers, HrApprove(p, u)
      PROVE  RecoveryIsTraceable'
    BY <1>6, StatusTraceable DEF HrApprove, Exists
<1>7. ASSUME NEW p \in Periods, NEW u \in FinanceUsers, FinanceApprove(p, u)
      PROVE  RecoveryIsTraceable'
    BY <1>7, StatusTraceable DEF FinanceApprove, Exists
<1>8. ASSUME NEW p \in Periods, Disburse(p) PROVE RecoveryIsTraceable'
    <2>1. UNCHANGED <<payslip, instalment>>
        BY <1>8 DEF Disburse
    <2>2. ASSUME NEW l \in LoanIds, Exists(l)
          PROVE  Exists(l)' /\ loan'[l].party = loan[l].party
        <3>1. loan[l] \in LoanRows
            BY <2>2 DEF TypeOK, Exists
        <3>2. loan'[l] = loan[l] \/ loan'[l] = [loan[l] EXCEPT !.status = "settled"]
            BY <1>8 DEF Disburse, BookAndSettle
        <3>3. loan'[l] \in LoanRows /\ loan'[l].trashed = loan[l].trashed
                                    /\ loan'[l].party = loan[l].party
            BY <3>1, <3>2 DEF LoanRows
        <3> QED
            BY <2>2, <3>3, NoneAssumption DEF Exists
    <2> QED
        BY <2>1, <2>2, StatusTraceable
<1>9. ASSUME NEW p \in Periods, ReturnToDraft(p) PROVE RecoveryIsTraceable'
    BY <1>9, StatusTraceable DEF ReturnToDraft, Exists
<1>10. ASSUME NEW l \in LoanIds, NEW e \in Employees, NEW a \in Principals,
              NEW n \in Terms, NEW b \in Periods,
              CreateLoan(l, e, a, n, b) \/ EditLoan(l, e, a, n, b)
       PROVE  RecoveryIsTraceable'
    <2>1. n \in Nat \ {0}
        BY PayrollAssumption
    <2> QED
        BY <1>10, <2>1, SavingTraceable DEF CreateLoan, EditLoan
<1>11. ASSUME NEW l \in LoanIds, RebuildSchedule(l) PROVE RecoveryIsTraceable'
    <2>1. loan[l] \in LoanRows
        BY <1>11 DEF RebuildSchedule, Exists, TypeOK
    <2> QED
        BY <1>11, <2>1, SavingTraceable DEF RebuildSchedule, LoanRows
<1>12. ASSUME NEW d \in LoanIds, DeleteLoan(d) PROVE RecoveryIsTraceable'
    <2>1. UNCHANGED <<payslip, instalment>>
          /\ \A m \in LoanIds \ {d} : loan'[m] = loan[m]
        BY <1>12 DEF DeleteLoan, TypeOK
    <2>2. SUFFICES ASSUME NEW l \in LoanIds, NEW i \in DOMAIN instalment'[l]
                   PROVE  Traceable(l, i)'
        BY DEF RecoveryIsTraceable, Traceable
    <2>3. Traceable(l, i)
        BY <2>1, TraceableRows
    <2>4. CASE l = d
        BY <1>12, <2>1, <2>4 DEF DeleteLoan, IsEditable, Traceable
    <2>5. CASE l # d
        BY <2>1, <2>3, <2>5 DEF Traceable, Exists
    <2> QED
        BY <2>4, <2>5
<1>13. CASE UNCHANGED vars
    BY <1>13, StatusTraceable DEF vars, Exists
<1> QED
    BY <1>1, <1>2, <1>3, <1>4, <1>5, <1>6, <1>7, <1>8, <1>9, <1>10, <1>11,
       <1>12, <1>13
       DEF Next, RunNext, LoanNext

\* No instalment is ever recovered by a payslip that is not there, of somebody
\* else, or of a month before it fell due.
THEOREM RecoveriesAreTraceable == Spec => []RecoveryIsTraceable
<1>1. Init => RecoveryIsTraceable
    BY DEF Init, RecoveryIsTraceable
<1>2. TypeOK /\ RecoveryIsTraceable /\ [Next]_vars => RecoveryIsTraceable'
    BY TraceableStep
<1> QED
    BY <1>1, <1>2, TypeCorrectness, PTL DEF Spec

-----------------------------------------------------------------------------
(* Figures past the draft *)

\* Payslip k holds row i of loan l.
Holds(k, l, i) == i \in DOMAIN instalment[l] /\ instalment[l][i].payslip = k

\* A step that gives no row to payslip k and takes none from it.
LEMMA SameRowsHeld ==
    ASSUME NEW k, \A l \in LoanIds : \A i : Holds(k, l, i)' <=> Holds(k, l, i)
    PROVE  HeldBy(k)' = HeldBy(k)
<1>1. \A r : r \in RowsOf(instalment) <=>
                 \E l \in LoanIds : \E i \in DOMAIN instalment[l] : r = <<l, i>>
    BY DEF RowsOf
<1>2. \A r : r \in RowsOf(instalment)' <=>
                 \E l \in LoanIds : \E i \in DOMAIN instalment'[l] : r = <<l, i>>
    BY DEF RowsOf
<1>3. \A r : r \in HeldBy(k) <=> \E l \in LoanIds : \E i : r = <<l, i>> /\ Holds(k, l, i)
    BY <1>1 DEF HeldBy, Holds
<1>4. \A r : r \in HeldBy(k)' <=> \E l \in LoanIds : \E i : r = <<l, i>> /\ Holds(k, l, i)'
    BY <1>2 DEF HeldBy, Holds
<1> QED
    BY <1>3, <1>4

\* Rewriting an advance touches rows no payslip holds.
LEMMA SavingHolds ==
    ASSUME TypeOK, NEW k \in PayslipIds, NEW l \in LoanIds, NEW e \in Employees,
           NEW a \in Principals, NEW n \in Nat \ {0}, NEW b \in Periods, NEW st,
           SaveLoan(l, e, a, n, b, st), IsEditable(l)
    PROVE  HeldBy(k)' = HeldBy(k)
<1> DEFINE rows == NewRows(a, n, b)
<1>1. \A i \in DOMAIN rows : rows[i].payslip = None
    <2>1. a \in Nat \ {0} /\ b \in Nat
        BY PayrollAssumption DEF Periods
    <2> QED
        BY <2>1, NewRowsType
<1>2. instalment' = [instalment EXCEPT ![l] = rows]
    BY DEF SaveLoan
<1> HIDE DEF rows
<1>3. instalment'[l] = rows /\ \A m \in LoanIds \ {l} : instalment'[m] = instalment[m]
    BY <1>2 DEF TypeOK
<1>4. ASSUME NEW m \in LoanIds, NEW i PROVE Holds(k, m, i)' <=> Holds(k, m, i)
    <2>1. CASE m = l
        BY <1>1, <1>3, <2>1, NoneAssumption DEF Holds, IsEditable
    <2>2. CASE m # l
        BY <1>3, <2>2 DEF Holds
    <2> QED
        BY <2>1, <2>2
<1> QED
    BY <1>4, SameRowsHeld

\* A generation moves the rows held by the payslips of its own month.
LEMMA GenerationHolds ==
    ASSUME TypeOK, NEW p \in Periods, NEW pay \in Pays, GeneratePayslips(p, pay),
           NEW k \in PayslipIds, k[1] # p
    PROVE  payslip'[k] = payslip[k] /\ HeldBy(k)' = HeldBy(k)
<1>1. ASSUME NEW l \in LoanIds, NEW i PROVE Holds(k, l, i)' <=> Holds(k, l, i)
    <2>1. k # None /\ k \notin {p} \X Employees
          /\ \A e : <<p, e>> # k
        BY NoneAssumption DEF PayslipIds
    <2> QED
        BY <2>1, GeneratedRows DEF Holds
<1> QED
    BY <1>1, SameRowsHeld, GeneratedPayslips

\* Deleting a run releases the rows its own payslips held.
LEMMA DeletionHolds ==
    ASSUME TypeOK, NEW p \in Periods, DeleteRun(p), NEW k \in PayslipIds, k[1] # p
    PROVE  payslip'[k] = payslip[k] /\ HeldBy(k)' = HeldBy(k)
<1>1. k # None /\ k \notin {p} \X Employees
    BY NoneAssumption
<1>2. ASSUME NEW l \in LoanIds, NEW i PROVE Holds(k, l, i)' <=> Holds(k, l, i)
    <2>1. DOMAIN instalment'[l] = DOMAIN instalment[l]
        BY ReleasedType DEF DeleteRun
    <2>2. ASSUME i \in DOMAIN instalment[l]
          PROVE  instalment'[l][i].payslip = k <=> instalment[l][i].payslip = k
        <3>1. instalment[l][i] \in InstalmentRows
            BY <2>2, ElementOfSeq DEF TypeOK
        <3>2. instalment'[l][i] = IF instalment[l][i].payslip \in {p} \X Employees
                                  THEN [instalment[l][i] EXCEPT !.payslip = None]
                                  ELSE instalment[l][i]
            BY <2>2 DEF DeleteRun, Released
        <3> QED
            BY <1>1, <3>1, <3>2 DEF InstalmentRows
    <2> QED
        BY <2>1, <2>2 DEF Holds
<1>3. payslip'[k] = payslip[k]
    BY DEF DeleteRun
<1> QED
    BY <1>2, <1>3, SameRowsHeld

\* A step that leaves payslips and instalments alone.
LEMMA UntouchedHolds ==
    ASSUME NEW k \in PayslipIds, UNCHANGED <<payslip, instalment>>
    PROVE  payslip'[k] = payslip[k] /\ HeldBy(k)' = HeldBy(k)
    BY DEF HeldBy, RowsOf

\* A step moves no figure and no recovery of a month past its draft.
LEMMA FreezeStep ==
    ASSUME TypeOK, RecoveryIsTraceable, [Next]_vars,
           NEW k \in PayslipIds, run[k[1]].status \notin {"none", "draft"}
    PROVE  payslip'[k] = payslip[k] /\ HeldBy(k)' = HeldBy(k)
<1> DEFINE Stands == payslip'[k] = payslip[k] /\ HeldBy(k)' = HeldBy(k)
<1>1. ASSUME NEW p \in Periods, CreateRun(p) PROVE Stands
    <2>1. k[1] # p
        BY <1>1 DEF CreateRun, NoRun
    <2> QED
        BY <1>1, <2>1, GenerationHolds, UntouchedHolds DEF CreateRun
<1>2. ASSUME NEW p \in Periods, DeleteRun(p) PROVE Stands
    <2>1. k[1] # p
        BY <1>2 DEF DeleteRun
    <2> QED
        BY <1>2, <2>1, DeletionHolds
<1>3. ASSUME NEW p \in Periods, Generate(p) PROVE Stands
    <2>1. k[1] # p
        BY <1>3 DEF Generate
    <2> QED
        BY <1>3, <2>1, GenerationHolds DEF Generate
<1>4. ASSUME NEW p \in Periods, NEW e \in Employees, NEW x \in Incentives,
             NEW m \in ManualAmounts, Adjust(p, e, x, m)
      PROVE  Stands
    <2>1. k # <<p, e>> /\ UNCHANGED instalment
        BY <1>4 DEF Adjust
    <2>2. payslip'[k] = payslip[k]
        BY <1>4, <2>1 DEF Adjust, TypeOK
    <2>3. HeldBy(k)' = HeldBy(k)
        BY <2>1 DEF HeldBy, RowsOf
    <2> QED
        BY <2>2, <2>3
<1>5. ASSUME NEW p \in Periods,
             \/ SubmitForReview(p)
             \/ \E u \in HrUsers : HrApprove(p, u)
             \/ \E u \in FinanceUsers : FinanceApprove(p, u)
             \/ Disburse(p)
             \/ ReturnToDraft(p)
      PROVE  Stands
    BY <1>5, UntouchedHolds
       DEF SubmitForReview, HrApprove, FinanceApprove, Disburse, ReturnToDraft
<1>6. ASSUME NEW l \in LoanIds, NEW e \in Employees, NEW a \in Principals,
             NEW n \in Terms, NEW b \in Periods,
             CreateLoan(l, e, a, n, b) \/ EditLoan(l, e, a, n, b)
      PROVE  Stands
    <2>1. n \in Nat \ {0}
        BY PayrollAssumption
    <2>2. IsEditable(l)
        <3>1. CASE CreateLoan(l, e, a, n, b)
            BY <3>1 DEF CreateLoan, RecoveryIsTraceable, Exists, IsEditable
        <3>2. CASE EditLoan(l, e, a, n, b)
            BY <3>2 DEF EditLoan
        <3> QED
            BY <1>6, <3>1, <3>2
    <2>3. PICK st : SaveLoan(l, e, a, n, b, st)
        BY <1>6 DEF CreateLoan, EditLoan
    <2> QED
        BY <2>1, <2>2, <2>3, SavingHolds DEF SaveLoan
<1>7. ASSUME NEW l \in LoanIds, RebuildSchedule(l) PROVE Stands
    <2>1. loan[l] \in LoanRows
        BY <1>7 DEF RebuildSchedule, Exists, TypeOK
    <2>2. UNCHANGED payslip
        BY <1>7 DEF RebuildSchedule, SaveLoan
    <2>3. HeldBy(k)' = HeldBy(k)
        BY <1>7, <2>1, SavingHolds DEF RebuildSchedule, LoanRows
    <2> QED
        BY <2>2, <2>3
<1>8. ASSUME NEW l \in LoanIds, DeleteLoan(l) PROVE Stands
    BY <1>8, UntouchedHolds DEF DeleteLoan
<1>9. CASE UNCHANGED vars
    BY <1>9, UntouchedHolds DEF vars
<1> QED
    BY <1>1, <1>2, <1>3, <1>4, <1>5, <1>6, <1>7, <1>8, <1>9
       DEF Next, RunNext, LoanNext

\* No step moves a payslip, or the instalments it holds, of a run past its draft:
\* not a generation of another month that sweeps arrears, not an edit of the
\* advance (PayrollRunService, LoanScheduleService).
THEOREM FiguresFrozenPastDraft == Spec => FiguresAreFrozen
<1>1. TypeOK /\ RecoveryIsTraceable /\ [Next]_vars =>
          [\A k \in PayslipIds :
              run[k[1]].status \notin {"none", "draft"} =>
                  payslip'[k] = payslip[k] /\ HeldBy(k)' = HeldBy(k)]_vars
    BY FreezeStep
<1> QED
    BY <1>1, TypeCorrectness, RecoveriesAreTraceable, PTL DEF Spec, FiguresAreFrozen

-----------------------------------------------------------------------------
(* Advances under recovery *)

\* The terms of loan l and the rows of its schedule, but not who holds them.
Stood(l) ==
    /\ loan'[l] = [loan[l] EXCEPT !.status = loan'[l].status]
    /\ Len(instalment'[l]) = Len(instalment[l])
    /\ \A i \in DOMAIN instalment[l] :
          /\ instalment'[l][i].due = instalment[l][i].due
          /\ instalment'[l][i].amount = instalment[l][i].amount

\* A step that leaves the loan itself alone and its rows' dues and amounts.
LEMMA SameScheduleStands ==
    ASSUME TypeOK, TypeOK', NEW l \in LoanIds, Exists(l), loan'[l] = loan[l],
           DOMAIN instalment'[l] = DOMAIN instalment[l],
           \A i \in DOMAIN instalment[l] :
              /\ instalment'[l][i].due = instalment[l][i].due
              /\ instalment'[l][i].amount = instalment[l][i].amount
    PROVE  Stood(l)
<1>1. loan[l] \in LoanRows
    BY DEF Exists, TypeOK
<1>2. loan'[l] = [loan[l] EXCEPT !.status = loan'[l].status]
    BY <1>1 DEF LoanRows
<1>3. instalment[l] \in Seq(InstalmentRows) /\ instalment'[l] \in Seq(InstalmentRows)
    BY DEF TypeOK
<1>4. Len(instalment'[l]) = Len(instalment[l])
    BY <1>3, LenProperties
<1> QED
    BY <1>2, <1>4 DEF Stood

\* A step rewrites no advance that payroll has begun to recover.
LEMMA StandsStep ==
    ASSUME TypeOK, TypeOK', [Next]_vars, NEW l \in LoanIds, Exists(l), ~IsEditable(l)
    PROVE  Stood(l)
<1>1. ASSUME NEW p \in Periods, CreateRun(p) \/ Generate(p) PROVE Stood(l)
    <2>1. CASE UNCHANGED instalment
        BY <1>1, <2>1, SameScheduleStands DEF CreateRun, Generate
    <2>2. CASE \E pay \in Pays : GeneratePayslips(p, pay)
        BY <1>1, <2>2, GeneratedRows, SameScheduleStands DEF CreateRun, Generate
    <2> QED
        BY <1>1, <2>1, <2>2 DEF CreateRun, Generate
<1>2. ASSUME NEW p \in Periods, DeleteRun(p) PROVE Stood(l)
    <2>1. DOMAIN instalment'[l] = DOMAIN instalment[l] /\ UNCHANGED loan
        BY <1>2, ReleasedType DEF DeleteRun
    <2>2. ASSUME NEW i \in DOMAIN instalment[l]
          PROVE  /\ instalment'[l][i].due = instalment[l][i].due
                 /\ instalment'[l][i].amount = instalment[l][i].amount
        <3>1. instalment[l][i] \in InstalmentRows
            BY ElementOfSeq DEF TypeOK
        <3>2. instalment'[l][i] = IF instalment[l][i].payslip \in {p} \X Employees
                                  THEN [instalment[l][i] EXCEPT !.payslip = None]
                                  ELSE instalment[l][i]
            BY <1>2 DEF DeleteRun, Released
        <3> QED
            BY <3>1, <3>2 DEF InstalmentRows
    <2> QED
        BY <2>1, <2>2, SameScheduleStands
<1>3. ASSUME NEW p \in Periods,
             \/ \E e \in Employees, x \in Incentives, m \in ManualAmounts : Adjust(p, e, x, m)
             \/ SubmitForReview(p)
             \/ \E u \in HrUsers : HrApprove(p, u)
             \/ \E u \in FinanceUsers : FinanceApprove(p, u)
             \/ ReturnToDraft(p)
      PROVE  Stood(l)
    BY <1>3, SameScheduleStands
       DEF Adjust, SubmitForReview, HrApprove, FinanceApprove, ReturnToDraft
<1>4. ASSUME NEW p \in Periods, Disburse(p) PROVE Stood(l)
    <2>1. loan[l] \in LoanRows
        BY DEF Exists, TypeOK
    <2>2. loan'[l] = loan[l] \/ loan'[l] = [loan[l] EXCEPT !.status = "settled"]
        BY <1>4 DEF Disburse, BookAndSettle
    <2>3. loan'[l] = [loan[l] EXCEPT !.status = loan'[l].status]
        BY <2>1, <2>2 DEF LoanRows
    <2> QED
        BY <1>4, <2>3 DEF Disburse, Stood
<1>5. ASSUME NEW m \in LoanIds, m # l,
             \/ \E e \in Employees, a \in Principals, n \in Terms, b \in Periods :
                   CreateLoan(m, e, a, n, b) \/ EditLoan(m, e, a, n, b)
             \/ RebuildSchedule(m)
             \/ DeleteLoan(m)
      PROVE  Stood(l)
    <2>1. loan'[l] = loan[l] /\ instalment'[l] = instalment[l]
        BY <1>5 DEF CreateLoan, EditLoan, RebuildSchedule, DeleteLoan, SaveLoan, TypeOK
    <2> QED
        BY <2>1, SameScheduleStands
<1>6. /\ \A e \in Employees, a \in Principals, n \in Terms, b \in Periods :
            ~CreateLoan(l, e, a, n, b) /\ ~EditLoan(l, e, a, n, b)
      /\ ~RebuildSchedule(l)
      /\ ~DeleteLoan(l)
    BY DEF CreateLoan, EditLoan, RebuildSchedule, DeleteLoan, Exists
<1>7. CASE UNCHANGED vars
    BY <1>7, SameScheduleStands DEF vars
<1> QED
    BY <1>1, <1>2, <1>3, <1>4, <1>5, <1>6, <1>7 DEF Next, RunNext, LoanNext

\* Whoever edits an advance, rebuilds its schedule or deletes it finds it locked
\* once a payslip has taken a row of it (EmployeeLoan::isEditable).
THEOREM RecoveryLocksTheSchedule == Spec => RecoveredScheduleStands
<1>1. TypeOK /\ TypeOK' /\ [Next]_vars =>
          [\A l \in LoanIds :
              Exists(l) /\ (\E i \in DOMAIN instalment[l] : instalment[l][i].payslip # None) =>
                  /\ loan'[l] = [loan[l] EXCEPT !.status = loan'[l].status]
                  /\ Len(instalment'[l]) = Len(instalment[l])
                  /\ \A i \in DOMAIN instalment[l] :
                        /\ instalment'[l][i].due = instalment[l][i].due
                        /\ instalment'[l][i].amount = instalment[l][i].amount]_vars
    BY StandsStep DEF Stood, IsEditable
<1> QED
    BY <1>1, TypeCorrectness, PTL DEF Spec, RecoveredScheduleStands

-----------------------------------------------------------------------------
(* What a payslip withholds *)

\* The claim of DeductionMatchesInstalments about one payslip.
Deduction(k) == payslip[k] # None => payslip[k].loan = Total(instalment, HeldBy(k))

\* A row of the schedules is a loan and a position in its schedule.
LEMMA RowIsAPair ==
    ASSUME NEW inst, NEW r
    PROVE  r \in RowsOf(inst) <=> \E l \in LoanIds : \E i \in DOMAIN inst[l] : r = <<l, i>>
    BY DEF RowsOf

\* A step after which payslip k holds the same rows, worth the same.
KeepsRows(k) ==
    /\ HeldBy(k)' = HeldBy(k)
    /\ \A l \in LoanIds : \A i \in DOMAIN instalment[l] :
          instalment[l][i].payslip = k => instalment'[l][i].amount = instalment[l][i].amount

\* Such a step keeps what the rows add up to.
LEMMA TotalStands ==
    ASSUME NEW k, KeepsRows(k)
    PROVE  Total(instalment, HeldBy(k))' = Total(instalment, HeldBy(k))
<1>1. \A r \in HeldBy(k) :
          instalment'[r[1]][r[2]].amount = instalment[r[1]][r[2]].amount
    BY RowIsAPair DEF HeldBy, KeepsRows
<1>2. [r \in HeldBy(k) |-> instalment'[r[1]][r[2]].amount]
          = [r \in HeldBy(k) |-> instalment[r[1]][r[2]].amount]
    BY <1>1
<1>3. HeldBy(k)' = HeldBy(k)
    BY DEF KeepsRows
<1>4. Total(instalment, HeldBy(k))' = Total(instalment', HeldBy(k)')
    BY DEF Total
<1> QED
    BY <1>2, <1>3, <1>4 DEF Total

\* A payslip that such a step leaves alone withholds what it holds.
LEMMA DeductionStands ==
    ASSUME NEW k, Deduction(k), KeepsRows(k),
           payslip'[k] # None => payslip[k] # None /\ payslip'[k].loan = payslip[k].loan
    PROVE  Deduction(k)'
<1>1. Total(instalment, HeldBy(k))' = Total(instalment, HeldBy(k))
    BY TotalStands
<1> QED
    BY <1>1 DEF Deduction

\* A payslip just built withholds the rows it takes: those due, of its employee.
LEMMA BuiltPayslipDeducts ==
    ASSUME TypeOK, NEW p \in Periods, NEW pay \in Pays, GeneratePayslips(p, pay),
           NEW k \in PayslipIds, k[1] = p, pay[k[2]] # None
    PROVE  Deduction(k)'
<1> DEFINE free == Released(p)
           due  == DueInstallments(free, k[2], p)
           takes(l, i) == \E e \in Employees : /\ pay[e] # None
                                               /\ <<l, i>> \in DueInstallments(free, e, p)
<1>1. k = <<p, k[2]>> /\ k[2] \in Employees
    BY DEF PayslipIds
<1>2. payslip'[k].loan = Total(free, due)
    <2>1. payslip'[k] = BuildPayslip(k, pay[k[2]], free)
        BY DEF GeneratePayslips
    <2> QED
        BY <2>1 DEF BuildPayslip, Itemised, Priced
<1>3. \A l \in LoanIds : instalment'[l] =
          [i \in DOMAIN free[l] |->
              IF takes(l, i) THEN [free[l][i] EXCEPT !.payslip = <<p, loan[l].party>>]
              ELSE free[l][i]]
    BY DEF GeneratePayslips
<1>4. \A l \in LoanIds : \A i \in DOMAIN free[l] :
          free[l][i] \in InstalmentRows /\ free[l][i].payslip \notin {p} \X Employees
    <2> SUFFICES ASSUME NEW l \in LoanIds, NEW i \in DOMAIN free[l]
                 PROVE  /\ free[l][i] \in InstalmentRows
                        /\ free[l][i].payslip \notin {p} \X Employees
        OBVIOUS
    <2>1. i \in DOMAIN instalment[l] /\ instalment[l][i] \in InstalmentRows
        BY ReleasedType, ElementOfSeq DEF TypeOK
    <2>2. free[l][i] = IF instalment[l][i].payslip \in {p} \X Employees
                       THEN [instalment[l][i] EXCEPT !.payslip = None] ELSE instalment[l][i]
        BY <2>1 DEF Released
    <2>3. None \notin {p} \X Employees
        BY NoneAssumption DEF PayslipIds
    <2> HIDE DEF free
    <2> QED
        BY <2>1, <2>2, <2>3 DEF InstalmentRows
<1>5. ASSUME NEW l \in LoanIds, NEW i \in DOMAIN free[l]
      PROVE  <<l, i>> \in due <=>
                 takes(l, i) /\ loan[l].party = k[2]
    BY <1>1, <1>5 DEF DueInstallments
<1> HIDE DEF free
<1>6. ASSUME NEW l \in LoanIds, NEW i \in DOMAIN free[l]
      PROVE  /\ instalment'[l][i].payslip = k <=> <<l, i>> \in due
             /\ instalment'[l][i].amount = free[l][i].amount
    <2>1. free[l][i] \in [due : Nat, amount : Int, payslip : PayslipIds \cup {None}]
          /\ free[l][i].payslip # k
        BY <1>1, <1>4 DEF InstalmentRows
    <2>2. CASE takes(l, i)
        <3>1. instalment'[l][i] = [free[l][i] EXCEPT !.payslip = <<p, loan[l].party>>]
            BY <1>3, <2>2
        <3>2. /\ instalment'[l][i].payslip = <<p, loan[l].party>>
              /\ instalment'[l][i].amount = free[l][i].amount
            BY <2>1, <3>1
        <3> HIDE DEF takes, due
        <3> QED
            BY <1>1, <1>5, <2>2, <3>2
    <2>3. CASE ~takes(l, i)
        <3>1. instalment'[l][i] = free[l][i]
            BY <1>3, <2>3
        <3> HIDE DEF takes, due
        <3> QED
            BY <1>5, <2>1, <2>3, <3>1
    <2> QED
        BY <2>2, <2>3
<1>7. \A l \in LoanIds : DOMAIN instalment'[l] = DOMAIN free[l]
    BY <1>3
<1>8. HeldBy(k)' = due
    <2>1. \A r : r \in HeldBy(k)' <=> \E l \in LoanIds : \E i \in DOMAIN instalment'[l] :
                                          r = <<l, i>> /\ instalment'[l][i].payslip = k
        BY DEF HeldBy, RowsOf
    <2>2. \A r : r \in due => \E l \in LoanIds : \E i \in DOMAIN free[l] : r = <<l, i>>
        BY RowIsAPair DEF DueInstallments
    <2> HIDE DEF due
    <2>3. ASSUME NEW r \in HeldBy(k)'
          PROVE  r \in due
        <3>1. PICK l \in LoanIds : \E i \in DOMAIN instalment'[l] :
                        r = <<l, i>> /\ instalment'[l][i].payslip = k
            BY <2>1
        <3>2. PICK i \in DOMAIN instalment'[l] : r = <<l, i>> /\ instalment'[l][i].payslip = k
            BY <3>1
        <3>3. i \in DOMAIN free[l]
            BY <1>7
        <3> QED
            BY <1>6, <3>2, <3>3
    <2>4. ASSUME NEW r \in due
          PROVE  r \in HeldBy(k)'
        <3>1. PICK l \in LoanIds : \E i \in DOMAIN free[l] : r = <<l, i>>
            BY <2>2
        <3>2. PICK i \in DOMAIN free[l] : r = <<l, i>>
            BY <3>1
        <3>3. i \in DOMAIN instalment'[l] /\ instalment'[l][i].payslip = k
            BY <1>6, <1>7, <3>2
        <3> QED
            BY <2>1, <3>2, <3>3
    <2> QED
        BY <2>3, <2>4
<1>9. \A r \in due : instalment'[r[1]][r[2]].amount = free[r[1]][r[2]].amount
    <2>1. \A r : r \in due => \E l \in LoanIds : \E i \in DOMAIN free[l] : r = <<l, i>>
        BY RowIsAPair DEF DueInstallments
    <2> HIDE DEF due
    <2> QED
        BY <1>6, <2>1
<1> HIDE DEF due
<1>10. [r \in due |-> instalment'[r[1]][r[2]].amount]
           = [r \in due |-> free[r[1]][r[2]].amount]
    BY <1>9
<1>11. Total(instalment, HeldBy(k))' = Total(instalment', HeldBy(k)')
    BY DEF Total
<1> QED
    BY <1>2, <1>8, <1>10, <1>11 DEF Deduction, Total

\* No payslip holds a row of a loan that is not there.
LEMMA AbsentLoanEditable ==
    ASSUME RecoveryIsTraceable, NEW l \in LoanIds, loan[l] = None
    PROVE  IsEditable(l)
    BY DEF RecoveryIsTraceable, IsEditable, Exists

\* Rewriting an advance leaves alone what every payslip withholds.
LEMMA SavingDeducts ==
    ASSUME TypeOK, NEW k \in PayslipIds, Deduction(k), NEW l \in LoanIds,
           NEW e \in Employees, NEW a \in Principals, NEW n \in Nat \ {0},
           NEW b \in Periods, NEW st,
           SaveLoan(l, e, a, n, b, st), IsEditable(l)
    PROVE  Deduction(k)'
<1>1. \A m \in LoanIds \ {l} : instalment'[m] = instalment[m]
    BY DEF SaveLoan, TypeOK
<1>2. KeepsRows(k)
    BY <1>1, SavingHolds, NoneAssumption DEF KeepsRows, IsEditable
<1> QED
    BY <1>2, DeductionStands DEF SaveLoan

\* A generation: the payslips of its month are built on the rows they take,
\* the payslips of other months keep theirs.
LEMMA GenerationDeducts ==
    ASSUME TypeOK, NEW p \in Periods, NEW pay \in Pays, GeneratePayslips(p, pay),
           NEW k \in PayslipIds, Deduction(k)
    PROVE  Deduction(k)'
<1>1. CASE k[1] = p /\ pay[k[2]] # None
    BY <1>1, BuiltPayslipDeducts
<1>2. CASE k[1] = p /\ pay[k[2]] = None
    BY <1>2 DEF GeneratePayslips, Deduction
<1>3. CASE k[1] # p
    <2>1. KeepsRows(k)
        BY <1>3, GenerationHolds, GeneratedRows DEF KeepsRows
    <2> QED
        BY <1>3, <2>1, GenerationHolds, DeductionStands
<1> QED
    BY <1>1, <1>2, <1>3

\* Deleting a run releases rows and reprices none.
LEMMA DeletionAmounts ==
    ASSUME TypeOK, NEW p \in Periods, DeleteRun(p),
           NEW l \in LoanIds, NEW i \in DOMAIN instalment[l]
    PROVE  instalment'[l][i].amount = instalment[l][i].amount
<1>1. instalment[l][i] \in InstalmentRows
    BY ElementOfSeq DEF TypeOK
<1>2. instalment'[l][i] = IF instalment[l][i].payslip \in {p} \X Employees
                          THEN [instalment[l][i] EXCEPT !.payslip = None]
                          ELSE instalment[l][i]
    BY DEF DeleteRun, Released
<1> QED
    BY <1>1, <1>2 DEF InstalmentRows

\* Deleting a run drops its payslips and leaves the rows of the others.
LEMMA DeletionDeducts ==
    ASSUME TypeOK, NEW p \in Periods, DeleteRun(p), NEW k \in PayslipIds, Deduction(k)
    PROVE  Deduction(k)'
<1>1. CASE k[1] = p
    BY <1>1 DEF DeleteRun, Deduction
<1>2. CASE k[1] # p
    <2>2. KeepsRows(k)
        BY <1>2, DeletionAmounts, DeletionHolds DEF KeepsRows
    <2> QED
        BY <1>2, <2>2, DeletionHolds, DeductionStands
<1> QED
    BY <1>1, <1>2

\* An adjustment re-derives the figures around the deduction, not the deduction.
LEMMA AdjustmentDeducts ==
    ASSUME TypeOK, NEW p \in Periods, NEW e \in Employees, NEW x \in Incentives,
           NEW m \in ManualAmounts, Adjust(p, e, x, m),
           NEW k \in PayslipIds, Deduction(k)
    PROVE  Deduction(k)'
<1>1. UNCHANGED instalment /\ payslip[<<p, e>>] # None
      /\ payslip' = [payslip EXCEPT ![<<p, e>>] = Adjusted(payslip[<<p, e>>], x, m)]
    BY DEF Adjust
<1>2. KeepsRows(k)
    BY <1>1 DEF KeepsRows, HeldBy, RowsOf
<1>3. CASE k = <<p, e>>
    <2>1. payslip[k] \in PayslipRows
        BY <1>1, <1>3 DEF TypeOK
    <2>2. Adjusted(payslip[k], x, m).loan = payslip[k].loan
        BY <2>1 DEF Adjusted, Priced, PayslipRows
    <2>3. payslip'[k] = Adjusted(payslip[k], x, m)
        BY <1>1, <1>3 DEF TypeOK
    <2> QED
        BY <1>1, <1>2, <1>3, <2>2, <2>3, DeductionStands
<1>4. CASE k # <<p, e>>
    <2>1. payslip'[k] = payslip[k]
        BY <1>1, <1>4 DEF TypeOK
    <2> QED
        BY <1>2, <2>1, DeductionStands
<1> QED
    BY <1>3, <1>4

\* A step that leaves payslips and instalments alone.
LEMMA UntouchedDeducts ==
    ASSUME NEW k \in PayslipIds, Deduction(k), UNCHANGED <<payslip, instalment>>
    PROVE  Deduction(k)'
<1>1. KeepsRows(k)
    BY UntouchedHolds DEF KeepsRows
<1> QED
    BY <1>1, DeductionStands

\* Every step keeps what a payslip withholds equal to what it holds.
LEMMA DeductionStep ==
    ASSUME TypeOK, RecoveryIsTraceable, [Next]_vars, NEW k \in PayslipIds, Deduction(k)
    PROVE  Deduction(k)'
<1>1. ASSUME NEW p \in Periods, CreateRun(p) PROVE Deduction(k)'
    BY <1>1, GenerationDeducts, UntouchedDeducts DEF CreateRun
<1>2. ASSUME NEW p \in Periods, DeleteRun(p) PROVE Deduction(k)'
    BY <1>2, DeletionDeducts
<1>3. ASSUME NEW p \in Periods, Generate(p) PROVE Deduction(k)'
    BY <1>3, GenerationDeducts DEF Generate
<1>4. ASSUME NEW p \in Periods, NEW e \in Employees, NEW x \in Incentives,
             NEW m \in ManualAmounts, Adjust(p, e, x, m)
      PROVE  Deduction(k)'
    BY <1>4, AdjustmentDeducts
<1>5. ASSUME NEW p \in Periods,
             \/ SubmitForReview(p)
             \/ \E u \in HrUsers : HrApprove(p, u)
             \/ \E u \in FinanceUsers : FinanceApprove(p, u)
             \/ Disburse(p)
             \/ ReturnToDraft(p)
      PROVE  Deduction(k)'
    BY <1>5, UntouchedDeducts
       DEF SubmitForReview, HrApprove, FinanceApprove, Disburse, ReturnToDraft
<1>6. ASSUME NEW l \in LoanIds, NEW e \in Employees, NEW a \in Principals,
             NEW n \in Terms, NEW b \in Periods,
             CreateLoan(l, e, a, n, b) \/ EditLoan(l, e, a, n, b)
      PROVE  Deduction(k)'
    <2>1. n \in Nat \ {0}
        BY PayrollAssumption
    <2>2. IsEditable(l)
        BY <1>6, AbsentLoanEditable DEF CreateLoan, EditLoan
    <2> QED
        BY <1>6, <2>1, <2>2, SavingDeducts DEF CreateLoan, EditLoan
<1>7. ASSUME NEW l \in LoanIds, RebuildSchedule(l) PROVE Deduction(k)'
    <2>1. loan[l] \in LoanRows
        BY <1>7 DEF RebuildSchedule, Exists, TypeOK
    <2> QED
        BY <1>7, <2>1, SavingDeducts DEF RebuildSchedule, LoanRows
<1>8. ASSUME NEW l \in LoanIds, DeleteLoan(l) PROVE Deduction(k)'
    BY <1>8, UntouchedDeducts DEF DeleteLoan
<1>9. CASE UNCHANGED vars
    BY <1>9, UntouchedDeducts DEF vars
<1> QED
    BY <1>1, <1>2, <1>3, <1>4, <1>5, <1>6, <1>7, <1>8, <1>9
       DEF Next, RunNext, LoanNext

\* Whatever is generated, deleted, adjusted, lent or rebuilt, and in whichever
\* order, a payslip withholds exactly the instalments it holds.
THEOREM DeductionsAreInstalments == Spec => []DeductionMatchesInstalments
<1>1. Init => DeductionMatchesInstalments
    BY DEF Init, DeductionMatchesInstalments
<1>2. TypeOK /\ RecoveryIsTraceable /\ DeductionMatchesInstalments /\ [Next]_vars
          => DeductionMatchesInstalments'
    <2> SUFFICES ASSUME TypeOK, RecoveryIsTraceable, DeductionMatchesInstalments,
                        [Next]_vars, NEW k \in PayslipIds
                 PROVE  Deduction(k)'
        BY DEF DeductionMatchesInstalments, Deduction
    <2>1. Deduction(k)
        BY DEF DeductionMatchesInstalments, Deduction
    <2> QED
        BY <2>1, DeductionStep
<1> QED
    BY <1>1, <1>2, TypeCorrectness, RecoveriesAreTraceable, PTL DEF Spec

-----------------------------------------------------------------------------
(* What the rows of a loan add up to *)

\* The claim of LoanBalances about one loan.
Balanced(l) ==
    loan[l] # None => AmountOf(instalment[l], DOMAIN instalment[l]) = loan[l].principal

\* A step that moves no amount of the schedule and leaves the principal.
LEMMA BalanceStands ==
    ASSUME NEW l \in LoanIds, Balanced(l),
           DOMAIN instalment'[l] = DOMAIN instalment[l],
           \A i \in DOMAIN instalment[l] : instalment'[l][i].amount = instalment[l][i].amount,
           loan'[l] # None => loan[l] # None /\ loan'[l].principal = loan[l].principal
    PROVE  Balanced(l)'
<1>1. [i \in DOMAIN instalment'[l] |-> instalment'[l][i].amount]
          = [i \in DOMAIN instalment[l] |-> instalment[l][i].amount]
    OBVIOUS
<1>2. AmountOf(instalment[l], DOMAIN instalment[l])'
          = AmountOf(instalment'[l], DOMAIN instalment'[l])
    BY DEF AmountOf
<1> QED
    BY <1>1, <1>2 DEF Balanced, AmountOf

\* A schedule just written repays the principal just written.
LEMMA SavedLoanBalances ==
    ASSUME TypeOK, NEW l \in LoanIds, NEW e \in Employees, NEW a \in Principals,
           NEW n \in Nat \ {0}, NEW b \in Periods, NEW st,
           SaveLoan(l, e, a, n, b, st)
    PROVE  Balanced(l)'
<1> DEFINE rows == NewRows(a, n, b)
<1>1. a \in Nat \ {0} /\ b \in Nat
    BY PayrollAssumption DEF Periods
<1>2. DOMAIN rows = DOMAIN Plan(a, n, b)
      /\ \A i \in DOMAIN rows : rows[i].amount = Plan(a, n, b)[i].amount
    BY DEF NewRows
<1>3. instalment'[l] = rows /\ loan'[l].principal = a
    BY DEF SaveLoan, TypeOK
<1> HIDE DEF rows
<1>4. AmountOf(rows, DOMAIN rows) = a
    BY <1>1, <1>2, PlanRepaysPrincipal
<1>5. AmountOf(instalment[l], DOMAIN instalment[l])'
          = AmountOf(instalment'[l], DOMAIN instalment'[l])
    BY DEF AmountOf
<1> QED
    BY <1>3, <1>4, <1>5 DEF Balanced

\* Every step keeps the rows of a loan adding up to its principal.
LEMMA BalanceStep ==
    ASSUME TypeOK, [Next]_vars, NEW l \in LoanIds, Balanced(l)
    PROVE  Balanced(l)'
<1>1. ASSUME NEW p \in Periods, CreateRun(p) \/ Generate(p) PROVE Balanced(l)'
    <2>1. UNCHANGED loan
        BY <1>1 DEF CreateRun, Generate
    <2>2. CASE UNCHANGED instalment
        BY <2>1, <2>2, BalanceStands
    <2>3. ASSUME NEW pay \in Pays, GeneratePayslips(p, pay) PROVE Balanced(l)'
        BY <2>1, <2>3, GeneratedRows, BalanceStands
    <2> QED
        BY <1>1, <2>2, <2>3 DEF CreateRun, Generate
<1>2. ASSUME NEW p \in Periods, DeleteRun(p) PROVE Balanced(l)'
    <2>1. DOMAIN instalment'[l] = DOMAIN instalment[l] /\ UNCHANGED loan
        BY <1>2, ReleasedType DEF DeleteRun
    <2>2. \A i \in DOMAIN instalment[l] : instalment'[l][i].amount = instalment[l][i].amount
        BY <1>2, DeletionAmounts
    <2> QED
        BY <2>1, <2>2, BalanceStands
<1>3. ASSUME NEW p \in Periods,
             \/ \E e \in Employees, x \in Incentives, m \in ManualAmounts : Adjust(p, e, x, m)
             \/ SubmitForReview(p)
             \/ \E u \in HrUsers : HrApprove(p, u)
             \/ \E u \in FinanceUsers : FinanceApprove(p, u)
             \/ ReturnToDraft(p)
      PROVE  Balanced(l)'
    BY <1>3, BalanceStands
       DEF Adjust, SubmitForReview, HrApprove, FinanceApprove, ReturnToDraft
<1>4. ASSUME NEW p \in Periods, Disburse(p) PROVE Balanced(l)'
    <2>1. UNCHANGED instalment
        BY <1>4 DEF Disburse
    <2>2. \/ loan'[l] = loan[l]
          \/ /\ loan[l] # None
             /\ loan'[l] = [loan[l] EXCEPT !.status = "settled"]
        BY <1>4 DEF Disburse, BookAndSettle, Closes, Exists
    <2>3. loan[l] # None => loan[l] \in LoanRows
        BY DEF TypeOK
    <2> QED
        BY <2>1, <2>2, <2>3, BalanceStands DEF LoanRows
<1>5. ASSUME NEW e \in Employees, NEW a \in Principals, NEW n \in Terms, NEW b \in Periods,
             CreateLoan(l, e, a, n, b) \/ EditLoan(l, e, a, n, b)
      PROVE  Balanced(l)'
    <2>1. n \in Nat \ {0}
        BY PayrollAssumption
    <2> QED
        BY <1>5, <2>1, SavedLoanBalances DEF CreateLoan, EditLoan
<1>6. ASSUME RebuildSchedule(l) PROVE Balanced(l)'
    <2>1. loan[l] \in LoanRows
        BY <1>6 DEF RebuildSchedule, Exists, TypeOK
    <2> QED
        BY <1>6, <2>1, SavedLoanBalances DEF RebuildSchedule, LoanRows
<1>7. ASSUME DeleteLoan(l) PROVE Balanced(l)'
    <2>1. loan[l] \in LoanRows /\ loan[l] # None
        BY <1>7 DEF DeleteLoan, Exists, TypeOK
    <2>2. loan'[l].principal = loan[l].principal /\ UNCHANGED instalment
        BY <1>7, <2>1 DEF DeleteLoan, TypeOK, LoanRows
    <2> QED
        BY <2>1, <2>2, BalanceStands
<1>8. ASSUME NEW m \in LoanIds, m # l,
             \/ \E e \in Employees, a \in Principals, n \in Terms, b \in Periods :
                   CreateLoan(m, e, a, n, b) \/ EditLoan(m, e, a, n, b)
             \/ RebuildSchedule(m)
             \/ DeleteLoan(m)
      PROVE  Balanced(l)'
    <2>1. loan'[l] = loan[l] /\ instalment'[l] = instalment[l]
        BY <1>8 DEF CreateLoan, EditLoan, RebuildSchedule, DeleteLoan, SaveLoan, TypeOK
    <2> QED
        BY <2>1, BalanceStands
<1>9. CASE UNCHANGED vars
    BY <1>9, BalanceStands DEF vars
<1> QED
    BY <1>1, <1>2, <1>3, <1>4, <1>5, <1>6, <1>7, <1>8, <1>9 DEF Next, RunNext, LoanNext

\* Through every edit, rebuild, recovery and release the rows of a loan add up
\* to what was lent: recovered plus outstanding is the principal.
THEOREM LoansBalance == Spec => []LoanBalances
<1>1. Init => LoanBalances
    BY DEF Init, LoanBalances
<1>2. TypeOK /\ LoanBalances /\ [Next]_vars => LoanBalances'
    <2> SUFFICES ASSUME TypeOK, LoanBalances, [Next]_vars, NEW l \in LoanIds
                 PROVE  Balanced(l)'
        BY DEF LoanBalances, Balanced
    <2>1. Balanced(l)
        BY DEF LoanBalances, Balanced
    <2> QED
        BY <2>1, BalanceStep
<1> QED
    BY <1>1, <1>2, TypeCorrectness, PTL DEF Spec

-----------------------------------------------------------------------------
(* Requests in flight *)

RunRequests    == [op : RunOps, period : Periods, seen : RunRows, gone : BOOLEAN]
AdjustRequests == [op : {"adjust"}, slip : PayslipIds, seen : PayslipRows, gone : BOOLEAN]
SaveRequests   == [op : {"saveLoan"}, loan : LoanIds, seen : LoanRows, new : LoanRows]
DeleteRequests == [op : {"deleteLoan"}, loan : LoanIds]

\* A request holds rows of the right kind; unless it has been told otherwise,
\* the run or the payslip it loaded is still there, and a loan always is.
\* Saving a loan keeps the status it was loaded with.
RequestOK(s) ==
    \/ request[s] = Idle
    \/ /\ request[s] \in RunRequests
       /\ request[s].gone \/ run[request[s].period].status # "none"
    \/ /\ request[s] \in AdjustRequests
       /\ request[s].gone \/ payslip[request[s].slip] # None
    \/ /\ request[s] \in SaveRequests
       /\ request[s].new.status = request[s].seen.status
       /\ loan[request[s].loan] # None
    \/ /\ request[s] \in DeleteRequests
       /\ loan[request[s].loan] # None

RequestsOK == DOMAIN request = Sessions /\ \A s \in Sessions : RequestOK(s)

\* A month without a run has no payslips.
NoStrayPayslips ==
    \A k \in PayslipIds : run[k[1]].status = "none" => payslip[k] = None

\* The inductive invariant of the races.
RaceInv ==
    /\ TypeOK
    /\ RequestsOK
    /\ NoStrayPayslips
    /\ RecoveryPointsAtPayslips

\* Writing the changed columns of a well typed row leaves it well typed.
LEMMA DirtyRun ==
    ASSUME NEW row \in RunRows, NEW seen \in RunRows, NEW new \in RunRows
    PROVE  /\ Dirty(row, seen, new) \in RunRows
           /\ Dirty(row, seen, new).status \in {row.status, new.status}
<1>1. DOMAIN row = {"status", "hrBy", "financeBy"}
    BY DEF RunRows
<1>2. Dirty(row, seen, new) =
          [status    |-> IF new.status = seen.status THEN row.status ELSE new.status,
           hrBy      |-> IF new.hrBy = seen.hrBy THEN row.hrBy ELSE new.hrBy,
           financeBy |-> IF new.financeBy = seen.financeBy THEN row.financeBy
                         ELSE new.financeBy]
    BY <1>1 DEF Dirty
<1> QED
    BY <1>2 DEF RunRows

\* So for a loan; a status that was not edited is not written.
LEMMA DirtyLoan ==
    ASSUME NEW row \in LoanRows, NEW seen \in LoanRows, NEW new \in LoanRows
    PROVE  /\ Dirty(row, seen, new) \in LoanRows
           /\ new.status = seen.status => Dirty(row, seen, new).status = row.status
<1>1. DOMAIN row = {"party", "principal", "months", "start", "status", "trashed"}
    BY DEF LoanRows
<1>2. Dirty(row, seen, new) =
          [party     |-> IF new.party = seen.party THEN row.party ELSE new.party,
           principal |-> IF new.principal = seen.principal THEN row.principal
                         ELSE new.principal,
           months    |-> IF new.months = seen.months THEN row.months ELSE new.months,
           start     |-> IF new.start = seen.start THEN row.start ELSE new.start,
           status    |-> IF new.status = seen.status THEN row.status ELSE new.status,
           trashed   |-> IF new.trashed = seen.trashed THEN row.trashed ELSE new.trashed]
    BY <1>1 DEF Dirty
<1> QED
    BY <1>2 DEF LoanRows

\* And for a payslip.
LEMMA DirtyPayslip ==
    ASSUME NEW row \in PayslipRows, NEW seen \in PayslipRows, NEW new \in PayslipRows
    PROVE  Dirty(row, seen, new) \in PayslipRows
<1>1. DOMAIN row = {"basic", "unpaid", "incentive", "overridden", "loan", "manual", "net",
                    "review", "earned", "withheld"}
    BY DEF PayslipRows
<1> DEFINE Col(c) == IF new[c] = seen[c] THEN row[c] ELSE new[c]
<1>2. Dirty(row, seen, new) = [c \in DOMAIN row |-> Col(c)]
    BY DEF Dirty
<1>3. /\ Col("basic") \in Amounts /\ Col("unpaid") \in Amounts
      /\ Col("incentive") \in Amounts /\ Col("overridden") \in BOOLEAN
      /\ Col("loan") \in Amounts /\ Col("manual") \in Amounts
      /\ Col("net") \in (-MaxAmount)..MaxAmount /\ Col("review") \in BOOLEAN
      /\ Col("earned") \in Amounts /\ Col("withheld") \in Amounts
    BY DEF PayslipRows
<1> HIDE DEF Col
<1> QED
    BY <1>1, <1>2, <1>3 DEF PayslipRows

\* A request in flight stands through a step that leaves it alone, or tells it
\* its row is gone, and that takes away nothing it relies on otherwise.
LEMMA RequestStands ==
    ASSUME NEW s \in Sessions, RequestOK(s),
           \/ request'[s] = request[s]
           \/ /\ request[s].op \in RunOps \cup {"adjust"}
              /\ request'[s] = [request[s] EXCEPT !.gone = TRUE],
           request[s].op \in RunOps =>
               \/ request'[s].gone
               \/ run[request[s].period].status = "none"
               \/ run'[request[s].period].status # "none",
           request[s].op = "adjust" =>
               \/ request'[s].gone
               \/ payslip[request[s].slip] = None
               \/ payslip'[request[s].slip] # None,
           \A l \in LoanIds : loan[l] # None => loan'[l] # None
    PROVE  RequestOK(s)'
<1>1. CASE request[s] = Idle
    BY <1>1 DEF RequestOK, Idle, RunOps
<1>2. CASE /\ request[s] \in RunRequests
           /\ request[s].gone \/ run[request[s].period].status # "none"
    BY <1>2 DEF RequestOK, RunRequests, RunOps
<1>3. CASE /\ request[s] \in AdjustRequests
           /\ request[s].gone \/ payslip[request[s].slip] # None
    BY <1>3 DEF RequestOK, AdjustRequests, RunOps
<1>4. CASE /\ request[s] \in SaveRequests
           /\ request[s].new.status = request[s].seen.status
           /\ loan[request[s].loan] # None
    BY <1>4 DEF RequestOK, SaveRequests, RunOps
<1>5. CASE /\ request[s] \in DeleteRequests
           /\ loan[request[s].loan] # None
    BY <1>5 DEF RequestOK, DeleteRequests, RunOps
<1> QED
    BY <1>1, <1>2, <1>3, <1>4, <1>5 DEF RequestOK

\* Only the request that finishes, or those told their rows are gone, change.
LEMMA IdleOK ==
    ASSUME NEW s \in Sessions, request'[s] = Idle
    PROVE  RequestOK(s)'
    BY DEF RequestOK

-----------------------------------------------------------------------------
(* The steps of the races *)

\* Starting a request changes no table.
LEMMA BeginKeeps ==
    ASSUME RaceInv, NEW s \in Sessions, NEW req, Begin(s, req),
           request'[s] = req => RequestOK(s)'
    PROVE  RaceInv'
<1>1. UNCHANGED <<run, payslip, loan, instalment, accrual, reviewed>>
      /\ request' = [request EXCEPT ![s] = req]
    BY DEF Begin, vars
<1>2. TypeOK' /\ NoStrayPayslips' /\ RecoveryPointsAtPayslips'
    BY <1>1 DEF RaceInv, TypeOK, NoStrayPayslips, RecoveryPointsAtPayslips
<1>3. ASSUME NEW t \in Sessions PROVE RequestOK(t)'
    <2>1. CASE t = s
        BY <1>1, <2>1 DEF RaceInv, RequestsOK
    <2>2. CASE t # s
        BY <1>1, <2>2, RequestStands DEF RaceInv, RequestsOK
    <2> QED
        BY <2>1, <2>2
<1> QED
    BY <1>1, <1>2, <1>3 DEF RaceInv, RequestsOK

\* The handlers that check a run.
LEMMA BeginOnRunKeeps ==
    ASSUME RaceInv, NEW s \in Sessions, NEW p \in Periods, NEW op \in RunOps,
           run[p].status # "none", Begin(s, OnRun(op, p))
    PROVE  RaceInv'
<1>1. run[p] \in RunRows /\ UNCHANGED run
    BY DEF RaceInv, TypeOK, Begin, vars
<1>2. OnRun(op, p) \in RunRequests /\ OnRun(op, p).period = p
    BY <1>1 DEF OnRun, RunRequests
<1>3. request'[s] = OnRun(op, p) => RequestOK(s)'
    BY <1>1, <1>2 DEF RequestOK
<1> QED
    BY <1>3, BeginKeeps

\* An adjustment loads a payslip that is there.
LEMMA BeginAdjustKeeps ==
    ASSUME RaceInv, NEW s \in Sessions, NEW p \in Periods, NEW e \in Employees,
           BeginAdjust(s, p, e)
    PROVE  RaceInv'
<1> DEFINE req == [op |-> "adjust", slip |-> <<p, e>>, seen |-> payslip[<<p, e>>],
                   gone |-> FALSE]
<1>1. Begin(s, req) /\ payslip[<<p, e>>] # None /\ UNCHANGED payslip
    BY DEF BeginAdjust, Begin, vars
<1>2. <<p, e>> \in PayslipIds /\ payslip[<<p, e>>] \in PayslipRows
    BY <1>1 DEF RaceInv, TypeOK, PayslipIds
<1>3. req \in AdjustRequests /\ req.slip = <<p, e>>
    BY <1>2 DEF AdjustRequests
<1> HIDE DEF req
<1>4. request'[s] = req => RequestOK(s)'
    BY <1>1, <1>3 DEF RequestOK
<1> QED
    BY <1>1, <1>4, BeginKeeps

\* Saving a loan loads its row, and keeps the status it finds in it.
LEMMA BeginSaveLoanKeeps ==
    ASSUME RaceInv, NEW s \in Sessions, NEW l \in LoanIds, NEW new,
           loan[l] # None => new \in LoanRows, BeginSaveLoan(s, l, new)
    PROVE  RaceInv'
<1> DEFINE fields == [new EXCEPT !.status = loan[l].status]
           req == [op |-> "saveLoan", loan |-> l, seen |-> loan[l], new |-> fields]
<1>1. Begin(s, req) /\ loan[l] # None /\ UNCHANGED loan
    BY DEF BeginSaveLoan, Exists, Begin, vars
<1>2. loan[l] \in LoanRows /\ new \in LoanRows
    BY <1>1 DEF RaceInv, TypeOK
<1>3. fields \in LoanRows /\ fields.status = loan[l].status
    BY <1>2 DEF LoanRows
<1> HIDE DEF fields
<1>4. /\ req \in SaveRequests
      /\ req.new.status = req.seen.status
      /\ req.loan = l
    BY <1>2, <1>3 DEF SaveRequests
<1> HIDE DEF req
<1>5. request'[s] = req => RequestOK(s)'
    BY <1>1, <1>4 DEF RequestOK
<1> QED
    BY <1>1, <1>5, BeginKeeps

\* Deleting a loan loads its row too.
LEMMA BeginDeleteLoanKeeps ==
    ASSUME RaceInv, NEW s \in Sessions, NEW l \in LoanIds, BeginDeleteLoan(s, l)
    PROVE  RaceInv'
<1> DEFINE req == [op |-> "deleteLoan", loan |-> l]
<1>1. Begin(s, req) /\ loan[l] # None /\ UNCHANGED loan
    BY DEF BeginDeleteLoan, Exists, Begin, vars
<1>2. req \in DeleteRequests /\ req.loan = l
    BY DEF DeleteRequests
<1> HIDE DEF req
<1>3. request'[s] = req => RequestOK(s)'
    BY <1>1, <1>2 DEF RequestOK
<1> QED
    BY <1>1, <1>3, BeginKeeps

\* A write to the row of a run, unless the run is gone, leaves it on a rung.
LEMMA MoveKeeps ==
    ASSUME RaceInv, NEW s \in Sessions, NEW op \in RunOps, NEW new,
           request[s] \in RunRequests => new \in RunRows /\ new.status # "none",
           CommitMove(s, op, new), UNCHANGED <<payslip, instalment>>,
           loan' \in [LoanIds -> LoanRows \cup {None}],
           accrual' \in [PayslipIds -> Amounts \cup {None}],
           reviewed' \subseteq Periods,
           \A l \in LoanIds : loan[l] # None => loan'[l] # None
    PROVE  RaceInv'
<1> DEFINE p == request[s].period
<1>1. /\ request[s] \in RunRequests
      /\ request[s].gone \/ run[p].status # "none"
    BY DEF CommitMove, RaceInv, RequestsOK, RequestOK, Idle, RunOps,
           AdjustRequests, SaveRequests, DeleteRequests
<1>2. p \in Periods /\ request[s].seen \in RunRows /\ new \in RunRows /\ new.status # "none"
    BY <1>1 DEF RunRequests
<1>3. \/ run' = run
      \/ /\ run' = [run EXCEPT ![p] = Dirty(run[p], request[s].seen, new)]
         /\ run[p].status # "none"
    BY <1>1 DEF CommitMove
<1>4. run \in [Periods -> RunRows]
    BY DEF RaceInv, TypeOK
<1>5. /\ Dirty(run[p], request[s].seen, new) \in RunRows
      /\ Dirty(run[p], request[s].seen, new).status \in {run[p].status, new.status}
    BY <1>2, <1>4, DirtyRun
<1> HIDE DEF p
<1>6. /\ run' \in [Periods -> RunRows]
      /\ \A q \in Periods : run'[q].status = "none" <=> run[q].status = "none"
    BY <1>2, <1>3, <1>4, <1>5
<1>7. TypeOK'
    BY <1>6 DEF RaceInv, TypeOK
<1>8. NoStrayPayslips' /\ RecoveryPointsAtPayslips'
    BY <1>6 DEF RaceInv, NoStrayPayslips, RecoveryPointsAtPayslips, PayslipIds
<1>9. ASSUME NEW t \in Sessions PROVE RequestOK(t)'
    <2>1. request' = [request EXCEPT ![s] = Idle]
        BY DEF CommitMove, Finish
    <2>2. CASE t = s
        BY <2>1, <2>2, IdleOK DEF RaceInv, RequestsOK
    <2>3. CASE t # s
        <3>1. RequestOK(t) /\ request'[t] = request[t]
            BY <2>1, <2>3 DEF RaceInv, RequestsOK
        <3>2. request[t].op \in RunOps => request[t].period \in Periods
            BY <3>1 DEF RequestOK, RunRequests, RunOps, Idle,
                        AdjustRequests, SaveRequests, DeleteRequests
        <3> QED
            BY <1>6, <3>1, <3>2, RequestStands
    <2> QED
        BY <2>2, <2>3
<1> QED
    BY <1>7, <1>8, <1>9 DEF RaceInv, RequestsOK, CommitMove, Finish

\* The handlers that write the row of a run and nothing else but the history.
LEMMA CommitMovesKeep ==
    ASSUME RaceInv, NEW s \in Sessions,
           \/ CommitSubmit(s)
           \/ \E u \in HrUsers : CommitHrApprove(s, u)
           \/ \E u \in FinanceUsers : CommitFinanceApprove(s, u)
           \/ CommitReturnToDraft(s)
    PROVE  RaceInv'
<1>1. /\ loan \in [LoanIds -> LoanRows \cup {None}]
      /\ accrual \in [PayslipIds -> Amounts \cup {None}]
      /\ reviewed \subseteq Periods
    BY DEF RaceInv, TypeOK
<1>2. request[s] \in RunRequests => request[s].seen \in RunRows /\ request[s].period \in Periods
    BY DEF RunRequests
<1>3. CASE CommitSubmit(s)
    <2>1. request[s] \in RunRequests =>
              Raised(s, "hr_review") \in RunRows /\ Raised(s, "hr_review").status # "none"
        BY <1>2 DEF Raised, RunRows, Statuses
    <2>2. reviewed' \subseteq Periods
        <3>1. request[s].op = "submit"
            BY <1>3 DEF CommitSubmit, CommitMove
        <3>2. request[s] \in RunRequests
            BY <3>1 DEF RaceInv, RequestsOK, RequestOK, Idle, AdjustRequests,
                        SaveRequests, DeleteRequests
        <3> QED
            BY <1>1, <1>2, <1>3, <3>2 DEF CommitSubmit
    <2> QED
        BY <1>1, <1>3, <2>1, <2>2, MoveKeeps DEF CommitSubmit, RunOps
<1>4. ASSUME NEW u \in HrUsers, CommitHrApprove(s, u) PROVE RaceInv'
    <2> DEFINE new == [Raised(s, "finance_approval") EXCEPT !.hrBy = u]
    <2>1. request[s] \in RunRequests => new \in RunRows /\ new.status # "none"
        BY <1>2 DEF Raised, RunRows, Statuses
    <2>2. CommitMove(s, "hrApprove", new)
        BY <1>4 DEF CommitHrApprove
    <2> HIDE DEF new
    <2> QED
        BY <1>1, <1>4, <2>1, <2>2, MoveKeeps DEF CommitHrApprove, RunOps
<1>5. ASSUME NEW u \in FinanceUsers, CommitFinanceApprove(s, u) PROVE RaceInv'
    <2> DEFINE new == [Raised(s, "approved") EXCEPT !.financeBy = u]
    <2>1. request[s] \in RunRequests => new \in RunRows /\ new.status # "none"
        BY <1>2 DEF Raised, RunRows, Statuses
    <2>2. CommitMove(s, "financeApprove", new)
        BY <1>5 DEF CommitFinanceApprove
    <2> HIDE DEF new
    <2> QED
        BY <1>1, <1>5, <2>1, <2>2, MoveKeeps DEF CommitFinanceApprove, RunOps
<1>6. CASE CommitReturnToDraft(s)
    <2> DEFINE new == [NoRun EXCEPT !.status = "draft"]
    <2>1. new \in RunRows /\ new.status # "none"
        BY DEF NoRun, RunRows, Statuses
    <2>2. CommitMove(s, "returnToDraft", new)
        BY <1>6 DEF CommitReturnToDraft
    <2> HIDE DEF new
    <2> QED
        BY <1>1, <1>6, <2>1, <2>2, MoveKeeps DEF CommitReturnToDraft, RunOps
<1> QED
    BY <1>3, <1>4, <1>5, <1>6

\* The disbursement books accruals and closes loans besides moving the run.
LEMMA CommitDisburseKeeps ==
    ASSUME RaceInv, NEW s \in Sessions, CommitDisburse(s)
    PROVE  RaceInv'
<1>1. /\ payslip \in [PayslipIds -> PayslipRows \cup {None}]
      /\ loan \in [LoanIds -> LoanRows \cup {None}]
      /\ accrual \in [PayslipIds -> Amounts \cup {None}]
      /\ reviewed \subseteq Periods
    BY DEF RaceInv, TypeOK
<1>2. request[s] \in RunRequests =>
          Raised(s, "disbursed") \in RunRows /\ Raised(s, "disbursed").status # "none"
    BY DEF Raised, RunRequests, RunRows, Statuses
<1>3. ASSUME NEW p, BookAndSettle(p)
      PROVE  /\ loan' \in [LoanIds -> LoanRows \cup {None}]
             /\ accrual' \in [PayslipIds -> Amounts \cup {None}]
             /\ \A l \in LoanIds : loan[l] # None => loan'[l] # None
    <2>1. \A k \in PayslipIds : payslip[k] # None => payslip[k].basic \in Amounts
        BY <1>1 DEF PayslipRows
    <2>2. \A l \in LoanIds : Closes(p, l) =>
              [loan[l] EXCEPT !.status = "settled"] \in LoanRows
        BY <1>1 DEF Closes, Exists, LoanRows
    <2>3. accrual' \in [PayslipIds -> Amounts \cup {None}]
        BY <1>1, <1>3, <2>1 DEF BookAndSettle
    <2>4. loan' \in [LoanIds -> LoanRows \cup {None}]
        BY <1>1, <1>3, <2>2 DEF BookAndSettle
    <2> QED
        BY <1>3, <2>2, <2>3, <2>4, NoneAssumption DEF BookAndSettle
<1>4. /\ loan' \in [LoanIds -> LoanRows \cup {None}]
      /\ accrual' \in [PayslipIds -> Amounts \cup {None}]
      /\ \A l \in LoanIds : loan[l] # None => loan'[l] # None
    BY <1>1, <1>3 DEF CommitDisburse
<1> QED
    BY <1>1, <1>2, <1>4, MoveKeeps DEF CommitDisburse, RunOps

\* A generation leaves every row it takes, or leaves taken, with a payslip.
LEMMA GenerationPoints ==
    ASSUME TypeOK, RecoveryPointsAtPayslips,
           NEW p \in Periods, NEW pay \in Pays, GeneratePayslips(p, pay)
    PROVE  RecoveryPointsAtPayslips'
<1> SUFFICES ASSUME NEW l \in LoanIds, NEW i \in DOMAIN instalment'[l],
                    instalment'[l][i].payslip # None
             PROVE  LET new == instalment'[l][i]
                    IN  payslip'[new.payslip] # None /\ new.due <= new.payslip[1]
    BY DEF RecoveryPointsAtPayslips
<1> DEFINE new == instalment'[l][i]
           old == instalment[l][i]
<1>1. i \in DOMAIN instalment[l]
    BY GeneratedRows
<1>2. old \in InstalmentRows
    BY <1>1, ElementOfSeq DEF TypeOK
<1>3. new.due = old.due
    BY <1>1, GeneratedRows
<1>4. \/ /\ Exists(l)
         /\ old.due <= p
         /\ pay[loan[l].party] # None
         /\ new.payslip = <<p, loan[l].party>>
      \/ /\ new.payslip = old.payslip
         /\ old.payslip \notin {p} \X Employees
    BY <1>1, GeneratedRows
<1>5. CASE Exists(l) /\ old.due <= p /\ pay[loan[l].party] # None
           /\ new.payslip = <<p, loan[l].party>>
    <2>1. loan[l].party \in Employees
        BY <1>5 DEF Exists, TypeOK, LoanRows
    <2>2. <<p, loan[l].party>> \in PayslipIds
        BY <2>1 DEF PayslipIds
    <2>3. payslip'[<<p, loan[l].party>>] # None
        BY <1>5, <2>2, GeneratedPayslips
    <2> QED
        BY <1>3, <1>5, <2>3
<1>6. CASE new.payslip = old.payslip /\ old.payslip \notin {p} \X Employees
    <2>1. old.payslip \in PayslipIds /\ old.payslip # None
        BY <1>2, <1>6 DEF InstalmentRows
    <2>2. old.payslip[1] # p
        BY <1>6, <2>1 DEF PayslipIds
    <2>3. payslip'[old.payslip] = payslip[old.payslip]
        BY <2>1, <2>2, GeneratedPayslips
    <2>4. payslip[old.payslip] # None /\ old.due <= old.payslip[1]
        BY <1>1, <2>1 DEF RecoveryPointsAtPayslips
    <2> QED
        BY <1>3, <1>6, <2>3, <2>4
<1> QED
    BY <1>4, <1>5, <1>6

\* A generation that was checked before the run went away changes nothing.
LEMMA CommitGenerateKeeps ==
    ASSUME RaceInv, NEW s \in Sessions, CommitGenerate(s)
    PROVE  RaceInv'
<1> DEFINE p == request[s].period
<1>1. /\ request[s] \in RunRequests
      /\ request[s].gone \/ run[p].status # "none"
    BY DEF CommitGenerate, RaceInv, RequestsOK, RequestOK, Idle,
           AdjustRequests, SaveRequests, DeleteRequests
<1>2. p \in Periods
    BY <1>1 DEF RunRequests
<1>3. CASE request[s].gone
    <2>1. UNCHANGED <<run, payslip, loan, instalment, accrual, reviewed>>
          /\ request' = [request EXCEPT ![s] = Idle]
        BY <1>3 DEF CommitGenerate, Finish
    <2>2. ASSUME NEW t \in Sessions PROVE RequestOK(t)'
        BY <2>1, IdleOK, RequestStands DEF RaceInv, RequestsOK
    <2> QED
        BY <2>1, <2>2
           DEF RaceInv, TypeOK, RequestsOK, NoStrayPayslips, RecoveryPointsAtPayslips
<1>4. CASE ~request[s].gone
    <2>1. /\ UNCHANGED <<run, loan, accrual, reviewed>>
          /\ request' = [Orphaned({"adjust"}, p) EXCEPT ![s] = Idle]
        BY <1>4 DEF CommitGenerate
    <2>2. PICK pay \in Pays : GeneratePayslips(p, pay)
        BY <1>4 DEF CommitGenerate
    <2> HIDE DEF p
    <2>3. TypeOK'
        BY <1>2, <2>1, <2>2, GenerationType DEF RaceInv, TypeOK
    <2>4. \A k \in PayslipIds : k[1] # p => payslip'[k] = payslip[k]
        BY <1>2, <2>2, GeneratedPayslips DEF RaceInv
    <2>5. NoStrayPayslips'
        BY <1>1, <1>4, <2>1, <2>4 DEF RaceInv, NoStrayPayslips, p
    <2>6. RecoveryPointsAtPayslips'
        BY <1>2, <2>2, GenerationPoints DEF RaceInv
    <2>7. ASSUME NEW t \in Sessions PROVE RequestOK(t)'
        <3>1. CASE t = s
            BY <2>1, <3>1, IdleOK DEF Orphaned
        <3>2. CASE t # s
            <4>1. request'[t] = IF request[t].op = "adjust" /\ PeriodOf(request[t]) = p
                                THEN [request[t] EXCEPT !.gone = TRUE] ELSE request[t]
                BY <2>1, <3>2 DEF Orphaned
            <4>2. RequestOK(t)
                BY DEF RaceInv, RequestsOK
            <4>3. request[t].op = "adjust" => request[t] \in AdjustRequests
                BY <4>2 DEF RequestOK, Idle, RunRequests, RunOps, SaveRequests, DeleteRequests
            <4>4. request[t].op = "adjust" =>
                      request'[t].gone \/ payslip'[request[t].slip] = payslip[request[t].slip]
                BY <2>4, <4>1, <4>3 DEF PeriodOf, AdjustRequests
            <4> QED
                BY <2>1, <4>1, <4>2, <4>4, RequestStands
        <3> QED
            BY <3>1, <3>2
    <2> QED
        BY <2>1, <2>3, <2>5, <2>6, <2>7 DEF RaceInv, RequestsOK, Orphaned
<1> QED
    BY <1>3, <1>4

\* A run is opened where there is none: nothing in flight relies on the payslips
\* the generation that comes with it replaces, for there are none.
LEMMA CreateRunKeeps ==
    ASSUME RaceInv, NEW p \in Periods, CreateRun(p), UNCHANGED request
    PROVE  RaceInv'
<1>1. /\ run[p].status = "none"
      /\ run' = [run EXCEPT ![p] = [NoRun EXCEPT !.status = "draft"]]
      /\ UNCHANGED <<loan, accrual, reviewed>>
    BY DEF CreateRun, NoRun
<1>2. TypeOK /\ RecoveryPointsAtPayslips
    BY DEF RaceInv
<1>3. TypeOK'
    BY <1>2, TypeStep DEF Next, RunNext
<1>4. \A k \in PayslipIds : k[1] # p => payslip'[k] = payslip[k]
    BY <1>2, GeneratedPayslips DEF CreateRun
<1>5. \A q \in Periods : run'[q].status = "none" => q # p /\ run[q].status = "none"
    BY <1>1, <1>2 DEF TypeOK
<1>6. NoStrayPayslips'
    BY <1>4, <1>5 DEF RaceInv, NoStrayPayslips, PayslipIds
<1>7. RecoveryPointsAtPayslips'
    <2>1. CASE UNCHANGED <<payslip, instalment>>
        BY <1>2, <2>1 DEF RecoveryPointsAtPayslips
    <2>2. CASE \E pay \in Pays : GeneratePayslips(p, pay)
        BY <1>2, <2>2, GenerationPoints
    <2> QED
        BY <2>1, <2>2 DEF CreateRun
<1>8. ASSUME NEW t \in Sessions PROVE RequestOK(t)'
    <2>1. RequestOK(t)
        BY DEF RaceInv, RequestsOK
    <2>2. request[t].op = "adjust" => /\ request[t] \in AdjustRequests
                                      /\ request[t].gone \/ payslip[request[t].slip] # None
        BY <2>1 DEF RequestOK, Idle, RunRequests, RunOps, SaveRequests, DeleteRequests
    <2>3. request[t].op = "adjust" =>
              request[t].gone \/ payslip'[request[t].slip] = payslip[request[t].slip]
        BY <1>1, <1>4, <2>2 DEF RaceInv, NoStrayPayslips, AdjustRequests
    <2>4. request[t].op \in RunOps => request[t].period \in Periods
        BY <2>1 DEF RequestOK, RunRequests, RunOps, Idle,
                    AdjustRequests, SaveRequests, DeleteRequests
    <2> QED
        BY <1>1, <1>5, <2>1, <2>3, <2>4, RequestStands
<1> QED
    BY <1>3, <1>6, <1>7, <1>8 DEF RaceInv, RequestsOK

\* A deleted run takes its payslips along, frees their rows and orphans the
\* requests that loaded any of them.
LEMMA DeleteRunKeeps ==
    ASSUME RaceInv, NEW p \in Periods, DeleteRun(p),
           request' = Orphaned(RunOps \cup {"adjust"}, p)
    PROVE  RaceInv'
<1>1. /\ run' = [run EXCEPT ![p] = NoRun]
      /\ payslip' = [k \in PayslipIds |-> IF k[1] = p THEN None ELSE payslip[k]]
      /\ instalment' = Released(p)
      /\ UNCHANGED loan
    BY DEF DeleteRun
<1>2. TypeOK /\ RecoveryPointsAtPayslips
    BY DEF RaceInv
<1>3. TypeOK'
    BY <1>2, TypeStep DEF Next, RunNext
<1>4. NoStrayPayslips'
    BY <1>1, <1>2 DEF RaceInv, NoStrayPayslips, TypeOK, PayslipIds
<1>5. RecoveryPointsAtPayslips'
    <2> SUFFICES ASSUME NEW l \in LoanIds, NEW i \in DOMAIN instalment'[l],
                        instalment'[l][i].payslip # None
                 PROVE  LET new == instalment'[l][i]
                        IN  payslip'[new.payslip] # None /\ new.due <= new.payslip[1]
        BY DEF RecoveryPointsAtPayslips
    <2> DEFINE old == instalment[l][i]
    <2>1. i \in DOMAIN instalment[l]
        BY <1>1, <1>2, ReleasedType
    <2>2. old \in InstalmentRows
        BY <1>2, <2>1, ElementOfSeq DEF TypeOK
    <2>3. instalment'[l][i] = IF old.payslip \in {p} \X Employees
                              THEN [old EXCEPT !.payslip = None] ELSE old
        BY <1>1, <2>1 DEF Released
    <2>4. instalment'[l][i] = old /\ old.payslip \notin {p} \X Employees
        BY <2>2, <2>3 DEF InstalmentRows
    <2>5. old.payslip \in PayslipIds /\ old.payslip[1] # p
        BY <2>2, <2>4 DEF InstalmentRows, PayslipIds
    <2>6. payslip'[old.payslip] = payslip[old.payslip]
        BY <1>1, <2>5
    <2> QED
        BY <1>2, <2>1, <2>4, <2>6 DEF RecoveryPointsAtPayslips
<1>6. ASSUME NEW t \in Sessions PROVE RequestOK(t)'
    <2>1. RequestOK(t)
        BY DEF RaceInv, RequestsOK
    <2>2. request'[t] = IF /\ request[t].op \in RunOps \cup {"adjust"}
                           /\ PeriodOf(request[t]) = p
                        THEN [request[t] EXCEPT !.gone = TRUE] ELSE request[t]
        BY DEF Orphaned
    <2>3. /\ request[t].op = "adjust" => request[t] \in AdjustRequests
          /\ request[t].op \in RunOps => request[t] \in RunRequests
        BY <2>1 DEF RequestOK, Idle, RunRequests, AdjustRequests, RunOps,
                    SaveRequests, DeleteRequests
    <2>4. request[t].op = "adjust" =>
              request'[t].gone \/ payslip'[request[t].slip] = payslip[request[t].slip]
        BY <1>1, <2>2, <2>3 DEF PeriodOf, AdjustRequests
    <2>5. request[t].op \in RunOps =>
              request'[t].gone \/ run'[request[t].period] = run[request[t].period]
        BY <1>1, <1>2, <2>2, <2>3 DEF PeriodOf, RunRequests, RunOps, TypeOK
    <2> QED
        BY <1>1, <2>1, <2>2, <2>4, <2>5, RequestStands
<1> QED
    BY <1>3, <1>4, <1>5, <1>6 DEF RaceInv, RequestsOK, Orphaned

\* A stale adjustment writes some columns of a payslip that is still there.
LEMMA CommitAdjustKeeps ==
    ASSUME RaceInv, NEW s \in Sessions, NEW x \in Incentives, NEW m \in ManualAmounts,
           CommitAdjust(s, x, m)
    PROVE  RaceInv'
<1> DEFINE k == request[s].slip
           new == Adjusted(request[s].seen, x, m)
<1>1. /\ request[s] \in AdjustRequests
      /\ request[s].gone \/ payslip[k] # None
    BY DEF CommitAdjust, RaceInv, RequestsOK, RequestOK, Idle, RunOps,
           RunRequests, SaveRequests, DeleteRequests
<1>2. k \in PayslipIds /\ request[s].seen \in PayslipRows
    BY <1>1 DEF AdjustRequests
<1>3. /\ UNCHANGED <<run, loan, instalment, accrual, reviewed>>
      /\ request' = [request EXCEPT ![s] = Idle]
      /\ \/ UNCHANGED payslip
         \/ /\ payslip[k] # None
            /\ new \in PayslipRows
            /\ payslip' = [payslip EXCEPT ![k] = Dirty(payslip[k], request[s].seen, new)]
    BY <1>1 DEF CommitAdjust, Finish
<1> HIDE DEF k, new
<1>4. payslip \in [PayslipIds -> PayslipRows \cup {None}]
    BY DEF RaceInv, TypeOK
<1>5. /\ payslip' \in [PayslipIds -> PayslipRows \cup {None}]
      /\ \A j \in PayslipIds : payslip'[j] = None <=> payslip[j] = None
    BY <1>2, <1>3, <1>4, DirtyPayslip, NoneAssumption
<1>6. TypeOK'
    BY <1>3, <1>5 DEF RaceInv, TypeOK
<1>7. NoStrayPayslips'
    BY <1>3, <1>5 DEF RaceInv, NoStrayPayslips
<1>8. RecoveryPointsAtPayslips'
    <2> SUFFICES ASSUME NEW l \in LoanIds, NEW i \in DOMAIN instalment[l],
                        instalment[l][i].payslip # None
                 PROVE  /\ payslip'[instalment[l][i].payslip] # None
                        /\ instalment[l][i].due <= instalment[l][i].payslip[1]
        BY <1>3 DEF RecoveryPointsAtPayslips
    <2>1. instalment[l][i] \in InstalmentRows
        BY ElementOfSeq DEF RaceInv, TypeOK
    <2> QED
        BY <1>5, <2>1 DEF RaceInv, RecoveryPointsAtPayslips, InstalmentRows
<1>9. ASSUME NEW t \in Sessions PROVE RequestOK(t)'
    <2>1. CASE t = s
        BY <1>3, <2>1, IdleOK DEF RaceInv, RequestsOK
    <2>2. CASE t # s
        <3>1. RequestOK(t) /\ request'[t] = request[t]
            BY <1>3, <2>2 DEF RaceInv, RequestsOK
        <3>2. request[t].op = "adjust" => request[t].slip \in PayslipIds
            BY <3>1 DEF RequestOK, Idle, RunRequests, AdjustRequests, RunOps,
                        SaveRequests, DeleteRequests
        <3> QED
            BY <1>3, <1>5, <3>1, <3>2, RequestStands
    <2> QED
        BY <2>1, <2>2
<1> QED
    BY <1>3, <1>6, <1>7, <1>8, <1>9 DEF RaceInv, RequestsOK

\* New rows for a loan are held by no payslip, and the loan stays a loan.
LEMMA NewScheduleKeeps ==
    ASSUME RaceInv, UNCHANGED <<run, payslip, accrual, reviewed>>,
           NEW l \in LoanIds, NEW row \in LoanRows, NEW rows \in Seq(InstalmentRows),
           \/ rows = instalment[l]
           \/ \A i \in DOMAIN rows : rows[i].payslip = None,
           loan' = [loan EXCEPT ![l] = row],
           instalment' = [instalment EXCEPT ![l] = rows],
           DOMAIN request' = Sessions,
           \A t \in Sessions : request'[t] \in {request[t], Idle}
    PROVE  RaceInv'
<1>1. TypeOK'
    BY DEF RaceInv, TypeOK
<1>2. NoStrayPayslips'
    BY DEF RaceInv, NoStrayPayslips
<1>3. RecoveryPointsAtPayslips'
    BY DEF RaceInv, RecoveryPointsAtPayslips, TypeOK
<1>4. \A m \in LoanIds : loan[m] # None => loan'[m] # None
    BY NoneAssumption DEF RaceInv, TypeOK
<1>5. ASSUME NEW t \in Sessions PROVE RequestOK(t)'
    BY <1>4, IdleOK, RequestStands DEF RaceInv, RequestsOK
<1> QED
    BY <1>1, <1>2, <1>3, <1>5 DEF RaceInv, RequestsOK

\* Creating a loan writes the first schedule of a row of its own.
LEMMA CreateLoanKeeps ==
    ASSUME RaceInv, NEW l \in LoanIds, NEW e \in Employees, NEW a \in Principals,
           NEW n \in Terms, NEW b \in Periods, CreateLoan(l, e, a, n, b), UNCHANGED request
    PROVE  RaceInv'
<1> DEFINE rows == NewRows(a, n, b)
           row == [party |-> e, principal |-> a, months |-> Len(rows),
                   start |-> b, status |-> "active", trashed |-> FALSE]
<1>1. a \in Nat \ {0} /\ n \in Nat \ {0} /\ b \in Nat
    BY PayrollAssumption DEF Periods
<1>2. /\ rows \in Seq(InstalmentRows) /\ Len(rows) \in Nat \ {0}
      /\ \A i \in DOMAIN rows : rows[i].payslip = None
    BY <1>1, NewRowsType
<1>3. loan' = [loan EXCEPT ![l] = row] /\ instalment' = [instalment EXCEPT ![l] = rows]
      /\ UNCHANGED <<run, payslip, accrual, reviewed>>
    BY DEF CreateLoan, SaveLoan
<1> HIDE DEF rows
<1>4. row \in LoanRows
    BY <1>2 DEF LoanRows
<1> QED
    BY <1>2, <1>3, <1>4, NewScheduleKeeps DEF RaceInv, RequestsOK

\* What a saving writes to the loan row, and what it relies on.
LEMMA SavedRow ==
    ASSUME RaceInv, NEW s \in Sessions, CommitSaveLoan(s)
    PROVE  \E l \in LoanIds, row \in LoanRows, rows \in Seq(InstalmentRows) :
               /\ row.status = loan[l].status
               /\ \A i \in DOMAIN rows : rows[i].payslip = None
               /\ loan' = [loan EXCEPT ![l] = row]
               /\ instalment' = [instalment EXCEPT ![l] = rows]
<1> DEFINE l    == request[s].loan
           new  == request[s].new
           rows == NewRows(new.principal, new.months, new.start)
           full == [new EXCEPT !.months = Len(rows)]
<1>1. /\ request[s] \in SaveRequests
      /\ new.status = request[s].seen.status
      /\ loan[l] # None
    BY DEF CommitSaveLoan, RaceInv, RequestsOK, RequestOK, Idle, RunOps,
           RunRequests, AdjustRequests, DeleteRequests
<1>2. l \in LoanIds /\ request[s].seen \in LoanRows /\ new \in LoanRows
    BY <1>1 DEF SaveRequests
<1>3. loan[l] \in LoanRows
    BY <1>1, <1>2 DEF RaceInv, TypeOK
<1>4. new.principal \in Nat \ {0} /\ new.months \in Nat \ {0} /\ new.start \in Nat
    BY <1>2, PayrollAssumption DEF LoanRows, Periods
<1>5. /\ rows \in Seq(InstalmentRows) /\ Len(rows) \in Nat \ {0}
      /\ \A i \in DOMAIN rows : rows[i].payslip = None
    BY <1>4, NewRowsType
<1>6. loan' = [loan EXCEPT ![l] = Dirty(loan[l], request[s].seen, full)]
      /\ instalment' = [instalment EXCEPT ![l] = rows]
    BY DEF CommitSaveLoan
<1> HIDE DEF rows
<1>7. full \in LoanRows /\ full.status = request[s].seen.status
    BY <1>1, <1>2, <1>5 DEF LoanRows
<1> HIDE DEF full, l, new
<1>8. /\ Dirty(loan[l], request[s].seen, full) \in LoanRows
      /\ Dirty(loan[l], request[s].seen, full).status = loan[l].status
    BY <1>2, <1>3, <1>7, DirtyLoan
<1> DEFINE row == Dirty(loan[l], request[s].seen, full)
<1> HIDE DEF row
<1>9. /\ l \in LoanIds /\ row \in LoanRows /\ row.status = loan[l].status
      /\ loan' = [loan EXCEPT ![l] = row]
    BY <1>2, <1>6, <1>8 DEF row
<1> QED
    BY <1>5, <1>6, <1>9

\* Saving a loan replaces its rows, whoever has taken them by then.
LEMMA CommitSaveLoanKeeps ==
    ASSUME RaceInv, NEW s \in Sessions, CommitSaveLoan(s)
    PROVE  RaceInv'
<1>1. UNCHANGED <<run, payslip, accrual, reviewed>>
      /\ request' = [request EXCEPT ![s] = Idle]
    BY DEF CommitSaveLoan, Finish
<1>2. /\ DOMAIN request' = Sessions
      /\ \A t \in Sessions : request'[t] \in {request[t], Idle}
    BY <1>1 DEF RaceInv, RequestsOK
<1> QED
    BY <1>1, <1>2, SavedRow, NewScheduleKeeps

\* Deleting a loan hides it and touches no row.
LEMMA CommitDeleteLoanKeeps ==
    ASSUME RaceInv, NEW s \in Sessions, CommitDeleteLoan(s)
    PROVE  /\ RaceInv'
           /\ \A l \in LoanIds : loan[l] # None => loan'[l].status = loan[l].status
<1> DEFINE d == request[s].loan
           row == [loan[d] EXCEPT !.trashed = TRUE]
<1>1. /\ request[s] \in DeleteRequests
      /\ loan[d] # None
    BY DEF CommitDeleteLoan, RaceInv, RequestsOK, RequestOK, Idle, RunOps,
           RunRequests, AdjustRequests, SaveRequests
<1>2. d \in LoanIds
    BY <1>1 DEF DeleteRequests
<1>3. /\ UNCHANGED <<run, payslip, instalment, accrual, reviewed>>
      /\ request' = [request EXCEPT ![s] = Idle]
      /\ loan' = [loan EXCEPT ![d] = row]
    BY DEF CommitDeleteLoan, Finish
<1>4. loan[d] \in LoanRows
    BY <1>1, <1>2 DEF RaceInv, TypeOK
<1>5. row \in LoanRows /\ row.status = loan[d].status
    BY <1>4 DEF LoanRows
<1> HIDE DEF d, row
<1>6. /\ instalment[d] \in Seq(InstalmentRows)
      /\ instalment' = [instalment EXCEPT ![d] = instalment[d]]
      /\ loan \in [LoanIds -> LoanRows \cup {None}]
    BY <1>2, <1>3 DEF RaceInv, TypeOK
<1>7. /\ DOMAIN request' = Sessions
      /\ \A t \in Sessions : request'[t] \in {request[t], Idle}
    BY <1>3 DEF RaceInv, RequestsOK
<1>8. RaceInv'
    BY <1>2, <1>3, <1>5, <1>6, <1>7, NewScheduleKeeps
<1> QED
    BY <1>2, <1>3, <1>5, <1>6, <1>8

\* However the checks and the writes of requests interleave.
LEMMA RaceStep ==
    ASSUME RaceInv, [RaceNext]_raceVars
    PROVE  RaceInv'
<1>1. CASE Alone
    BY <1>1, CreateRunKeeps, CreateLoanKeeps, DeleteRunKeeps DEF Alone
<1>2. ASSUME NEW s \in Sessions, NEW p \in Periods,
             \/ BeginGenerate(s, p)
             \/ BeginSubmit(s, p)
             \/ BeginHrApprove(s, p)
             \/ BeginFinanceApprove(s, p)
             \/ BeginDisburse(s, p)
             \/ BeginReturnToDraft(s, p)
      PROVE  RaceInv'
    BY <1>2, BeginOnRunKeeps
       DEF BeginGenerate, BeginSubmit, BeginHrApprove, BeginFinanceApprove,
           BeginDisburse, BeginReturnToDraft, RunOps
<1>3. ASSUME NEW s \in Sessions, NEW p \in Periods, NEW e \in Employees, BeginAdjust(s, p, e)
      PROVE  RaceInv'
    BY <1>3, BeginAdjustKeeps
<1>4. ASSUME NEW s \in Sessions, NEW l \in LoanIds, BeginSaveLoan(s, l, loan[l])
      PROVE  RaceInv'
    <2>1. loan[l] # None => loan[l] \in LoanRows
        BY DEF RaceInv, TypeOK
    <2> QED
        BY <1>4, <2>1, BeginSaveLoanKeeps
<1>5. ASSUME NEW s \in Sessions, NEW l \in LoanIds, NEW e \in Employees,
             NEW a \in Principals, NEW n \in Terms, NEW b \in Periods,
             BeginSaveLoan(s, l, [party |-> e, principal |-> a, months |-> n,
                                  start |-> b, status |-> "active", trashed |-> FALSE])
      PROVE  RaceInv'
    <2> DEFINE new == [party |-> e, principal |-> a, months |-> n,
                       start |-> b, status |-> "active", trashed |-> FALSE]
    <2>1. new \in LoanRows
        BY PayrollAssumption DEF LoanRows
    <2>2. BeginSaveLoan(s, l, new)
        BY <1>5
    <2> HIDE DEF new
    <2> QED
        BY <2>1, <2>2, BeginSaveLoanKeeps
<1>6. ASSUME NEW s \in Sessions, NEW l \in LoanIds, BeginDeleteLoan(s, l) PROVE RaceInv'
    BY <1>6, BeginDeleteLoanKeeps
<1>7. ASSUME NEW s \in Sessions,
             \/ CommitGenerate(s)
             \/ CommitSubmit(s)
             \/ \E u \in HrUsers : CommitHrApprove(s, u)
             \/ \E u \in FinanceUsers : CommitFinanceApprove(s, u)
             \/ CommitDisburse(s)
             \/ CommitReturnToDraft(s)
      PROVE  RaceInv'
    BY <1>7, CommitGenerateKeeps, CommitMovesKeep, CommitDisburseKeeps
<1>8. ASSUME NEW s \in Sessions,
             \/ \E i \in Incentives, m \in ManualAmounts : CommitAdjust(s, i, m)
             \/ CommitSaveLoan(s)
             \/ CommitDeleteLoan(s)
      PROVE  RaceInv'
    BY <1>8, CommitAdjustKeeps, CommitSaveLoanKeeps, CommitDeleteLoanKeeps
<1>9. CASE UNCHANGED raceVars
    <2>1. UNCHANGED <<run, payslip, loan, instalment, accrual, reviewed, request>>
        BY <1>9 DEF raceVars, vars
    <2>2. \A t \in Sessions : RequestOK(t)'
        BY <2>1, RequestStands DEF RaceInv, RequestsOK
    <2> QED
        BY <2>1, <2>2
           DEF RaceInv, TypeOK, RequestsOK, NoStrayPayslips, RecoveryPointsAtPayslips
<1> QED
    BY <1>1, <1>2, <1>3, <1>4, <1>5, <1>6, <1>7, <1>8, <1>9 DEF RaceNext

\* The races start with empty tables and no request.
LEMMA RaceInvariance == RaceSpec => []RaceInv
<1>1. RaceInit => RaceInv
    <2> SUFFICES ASSUME RaceInit PROVE RaceInv
        OBVIOUS
    <2>1. TypeOK
        BY EmptySeq DEF RaceInit, Init, TypeOK, NoRun, RunRows
    <2>2. NoStrayPayslips /\ RecoveryPointsAtPayslips
        BY DEF RaceInit, Init, NoStrayPayslips, RecoveryPointsAtPayslips
    <2>3. RequestsOK
        BY DEF RaceInit, RequestsOK, RequestOK
    <2> QED
        BY <2>1, <2>2, <2>3 DEF RaceInv
<1> QED
    BY <1>1, RaceStep, PTL DEF RaceSpec

\* Whatever was checked before a generation, a deletion or a rebuild got in
\* between, no instalment is left with a payslip that is gone, or that was due
\* before the instalment.
THEOREM RacesLeaveNoOrphan == RaceSpec => []RecoveryPointsAtPayslips
<1>1. RaceInv => RecoveryPointsAtPayslips
    BY DEF RaceInv
<1> QED
    BY <1>1, RaceInvariance, PTL

\* A step of the races does not reopen a loan.
LEMMA ClosedStep ==
    ASSUME RaceInv, [RaceNext]_raceVars, NEW l \in LoanIds,
           loan[l] # None, loan[l].status = "settled"
    PROVE  loan'[l].status = "settled"
<1>1. loan[l] \in LoanRows /\ loan \in [LoanIds -> LoanRows \cup {None}]
    BY DEF RaceInv, TypeOK
<1>2. CASE Alone
    <2>1. ASSUME NEW m \in LoanIds, NEW e, NEW a, NEW n, NEW b, CreateLoan(m, e, a, n, b)
          PROVE  loan'[l] = loan[l]
        BY <1>1, <2>1 DEF CreateLoan, SaveLoan
    <2> QED
        BY <1>2, <2>1 DEF Alone, CreateRun, DeleteRun
<1>3. ASSUME NEW s \in Sessions, CommitDisburse(s) PROVE loan'[l].status = "settled"
    BY <1>1, <1>3 DEF CommitDisburse, BookAndSettle, LoanRows
<1>4. ASSUME NEW s \in Sessions, CommitSaveLoan(s) PROVE loan'[l].status = "settled"
    BY <1>1, <1>4, SavedRow
<1>5. ASSUME NEW s \in Sessions, CommitDeleteLoan(s) PROVE loan'[l].status = "settled"
    BY <1>5, CommitDeleteLoanKeeps
<1>6. CASE UNCHANGED loan
    BY <1>6
<1> QED
    BY <1>2, <1>3, <1>4, <1>5, <1>6
       DEF RaceNext, raceVars, vars, Begin, BeginGenerate, BeginSubmit, BeginHrApprove,
           BeginFinanceApprove, BeginDisburse, BeginReturnToDraft, BeginAdjust,
           BeginSaveLoan, BeginDeleteLoan, CommitGenerate, CommitSubmit, CommitHrApprove,
           CommitFinanceApprove, CommitReturnToDraft, CommitAdjust

\* A loan the disbursement has closed is never reopened by an edit that was
\* opened while it was active: the stale status is not among the columns written.
THEOREM ClosedLoansStayClosed == RaceSpec => ClosingIsFinal
<1>1. RaceInv /\ [RaceNext]_raceVars =>
          [\A l \in LoanIds :
              loan[l] # None /\ loan[l].status = "settled" =>
                  loan'[l].status = "settled"]_raceVars
    BY ClosedStep
<1> QED
    BY <1>1, RaceInvariance, PTL DEF RaceSpec, ClosingIsFinal

=============================================================================
