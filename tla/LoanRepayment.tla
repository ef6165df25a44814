---------------------------- MODULE LoanRepayment ----------------------------
(***************************************************************************)
(* One advance from its planned schedule to its last instalment.  Rows are  *)
(* recovered in due order, as PayrollService::dueInstallments sweeps them;  *)
(* until the first recovery the schedule may be rebuilt any number of times *)
(* from the term the loan row now records (LoanScheduleService::generateFor *)
(* writes the shortened term back).                                         *)
(***************************************************************************)
EXTENDS LoanSchedule

CONSTANTS Principals, Terms, StartPeriod

ASSUME RepaymentAssumption ==
    /\ Principals \subseteq Nat \ {0}
    /\ Terms \subseteq Nat \ {0}
    /\ StartPeriod \in Nat

VARIABLES
    principal,  \* employee_loans.principal
    quoted,     \* the term first agreed
    months,     \* employee_loans.months, rewritten by every rebuild
    schedule,   \* loan_installments of the loan, by seq
    taken       \* how many of them a payslip has taken

vars == <<principal, quoted, months, schedule, taken>>

-----------------------------------------------------------------------------

Init ==
    /\ principal \in Principals
    /\ quoted \in Terms
    /\ schedule = Plan(principal, quoted, StartPeriod)
    /\ months = Len(schedule)
    /\ taken = 0

\* Mutation of Rebuild: the old rows are not deleted first.
MutAppend ==
    /\ taken = 0
    /\ schedule' = schedule \o Plan(principal, months, StartPeriod)
    /\ months' = Len(schedule')
    /\ UNCHANGED <<principal, quoted, taken>>

\* generateFor: refused once a payslip holds a row.
Rebuild ==
    /\ taken = 0
    /\ schedule' = Plan(principal, months, StartPeriod)
    /\ months' = Len(schedule')
    /\ UNCHANGED <<principal, quoted, taken>>

\* A payslip sweeps in every row due by some period; at least one is.
Recover ==
    /\ \E k \in (taken + 1)..Len(schedule) : taken' = k
    /\ UNCHANGED <<principal, quoted, months, schedule>>

Next == Rebuild \/ Recover

Spec == Init /\ [][Next]_vars

-----------------------------------------------------------------------------

Outstanding == AmountOf(schedule, (taken + 1)..Len(schedule))

TypeOK ==
    /\ principal \in Principals
    /\ quoted \in Terms
    /\ months \in Nat \ {0}
    /\ schedule \in Seq([due : Nat, amount : Int])
    /\ taken \in 0..Len(schedule)

\* The rows recover the principal to the unit, whatever the rounding did
\* (LoanScheduleTest::test_the_instalments_always_recover_the_principal_exactly),
\* and no row is empty or negative: a zero row would never be recovered money.
RecoversPrincipal ==
    /\ AmountOf(schedule, DOMAIN schedule) = principal
    /\ \A i \in DOMAIN schedule : schedule[i].amount > 0

\* Once the first row is recovered, the early-settlement quotation is the
\* count of untaken rows times the base, as the class comment promises.
EarlySettlementQuotation ==
    taken >= 1 /\ taken < Len(schedule) =>
        Outstanding = (Len(schedule) - taken) * schedule[Len(schedule)].amount

\* The guard may shorten the agreed term and never lengthens it.
NeverLongerThanAgreed == Len(schedule) <= quoted

\* Pressing Build Schedule again changes nothing: planning from the shortened
\* term the loan now records gives the schedule it already has.
RebuildIsIdempotent == [][schedule' = schedule]_vars

=============================================================================
