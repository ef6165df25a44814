------------------------ MODULE LoanRepaymentProofs ------------------------
(***************************************************************************)
(* Theorems about LoanRepayment, for every principal, term, rounding step   *)
(* and number of rebuilds and recoveries.                                   *)
(***************************************************************************)
EXTENDS LoanRepayment, ArithmeticProofs

-----------------------------------------------------------------------------
(* The invariant: the schedule is the plan of the terms first agreed *)

\* However often the schedule is rebuilt, from whatever term the loan row then
\* records, it is the plan of the agreed principal and term.
PlanInv ==
    /\ principal \in Principals
    /\ quoted \in Terms
    /\ schedule = Plan(principal, quoted, StartPeriod)
    /\ months = Len(schedule)
    /\ taken \in 0..Len(schedule)

\* The inputs are positive numbers.
LEMMA Inputs ==
    /\ \A P \in Principals : P \in Nat \ {0}
    /\ \A N \in Terms : N \in Nat \ {0}
    /\ StartPeriod \in Nat
BY RepaymentAssumption

\* Planning from the recorded term gives the schedule the loan already has.
LEMMA PlanFromRecordedTerm ==
    ASSUME PlanInv
    PROVE  Plan(principal, months, StartPeriod) = schedule
<1>1. principal \in Nat \ {0} /\ quoted \in Nat \ {0} /\ StartPeriod \in Nat
    BY Inputs DEF PlanInv
<1>2. months = BaseInstallment(principal, quoted).months
    BY <1>1, PlanRows DEF PlanInv
<1>3. BaseInstallment(principal, months) = BaseInstallment(principal, quoted)
    BY <1>1, <1>2, PlanningAgain
<1> QED
    BY <1>3 DEF PlanInv, Plan

\* Every step keeps the invariant and the schedule.
LEMMA PlanStep ==
    ASSUME PlanInv, [Next]_vars
    PROVE  PlanInv' /\ schedule' = schedule
<1>1. CASE Rebuild
    <2>1. schedule' = schedule
        BY <1>1, PlanFromRecordedTerm DEF Rebuild
    <2> QED
        BY <1>1, <2>1 DEF Rebuild, PlanInv
<1>2. CASE Recover
    <2>1. Len(schedule) \in Nat
        BY PlanType, Inputs DEF PlanInv
    <2> QED
        BY <1>2, <2>1 DEF Recover, PlanInv
<1>3. CASE UNCHANGED vars
    BY <1>3 DEF vars, PlanInv
<1> QED
    BY <1>1, <1>2, <1>3 DEF Next

\* Every reachable schedule is the plan of the agreed terms.
LEMMA PlanInvariance == Spec => []PlanInv
<1>1. Init => PlanInv
    <2> SUFFICES ASSUME Init PROVE PlanInv
        OBVIOUS
    <2>1. Len(schedule) \in Nat
        BY PlanType, Inputs DEF Init
    <2> QED
        BY <2>1 DEF Init, PlanInv
<1> QED
    BY <1>1, PlanStep, PTL DEF Spec

-----------------------------------------------------------------------------
(* What follows *)

\* The loan row and its schedule stay well typed, and no more rows are taken
\* than there are.
THEOREM RepaymentTypes == Spec => []TypeOK
<1>1. PlanInv => TypeOK
    <2> SUFFICES ASSUME PlanInv PROVE TypeOK
        OBVIOUS
    <2>1. /\ schedule \in Seq([due : Nat, amount : Int])
          /\ Len(schedule) \in Nat \ {0}
        BY PlanType, Inputs DEF PlanInv
    <2> QED
        BY <2>1 DEF PlanInv, TypeOK
<1> QED
    BY <1>1, PlanInvariance, PTL

\* The rows of a schedule repay the principal to the unit, and none is empty or
\* negative, whatever the rounding did.
THEOREM PrincipalIsRecovered == Spec => []RecoversPrincipal
<1>1. PlanInv => RecoversPrincipal
    <2> SUFFICES ASSUME PlanInv PROVE RecoversPrincipal
        OBVIOUS
    <2>1. principal \in Nat \ {0} /\ quoted \in Nat \ {0} /\ StartPeriod \in Nat
        BY Inputs DEF PlanInv
    <2>2. schedule = Plan(principal, quoted, StartPeriod)
        BY DEF PlanInv
    <2> QED
        BY <2>1, <2>2, PlanRepaysPrincipal DEF RecoversPrincipal
<1> QED
    BY <1>1, PlanInvariance, PTL

\* Once the first row is taken, what is owed is the number of rows left times
\* the level instalment.
THEOREM SettlementIsQuotable == Spec => []EarlySettlementQuotation
<1>1. PlanInv => EarlySettlementQuotation
    <2> SUFFICES ASSUME PlanInv, taken >= 1, taken < Len(schedule)
                 PROVE  Outstanding = (Len(schedule) - taken) * schedule[Len(schedule)].amount
        BY DEF EarlySettlementQuotation
    <2>1. principal \in Nat \ {0} /\ quoted \in Nat \ {0} /\ StartPeriod \in Nat
        BY Inputs DEF PlanInv
    <2> DEFINE b == BaseInstallment(principal, quoted)
               m == Len(schedule)
    <2>2. b.base \in Int /\ b.months \in Nat \ {0}
        BY <2>1, BaseInstallmentBounds
    <2>3. m = b.months /\ \A i \in 2..b.months : schedule[i].amount = b.base
        BY <2>1, PlanRows DEF PlanInv
    <2> HIDE DEF b
    <2>4. taken \in Nat \ {0} /\ m \in Nat /\ taken <= m /\ m \in 2..m
        BY <2>2, <2>3 DEF PlanInv
    <2>5. schedule[m].amount = b.base
        BY <2>3, <2>4
    <2>6. AmountOf(schedule, (taken + 1)..m) = (m - taken) * b.base
        <3>1. \A i \in 2..m : schedule[i].amount = b.base
            BY <2>3
        <3> HIDE DEF m
        <3> QED
            BY <2>2, <2>4, <3>1, LevelRows
    <2> QED
        BY <2>5, <2>6 DEF Outstanding
<1> QED
    BY <1>1, PlanInvariance, PTL

\* A schedule never runs longer than the term first agreed.
THEOREM TermIsNeverLengthened == Spec => []NeverLongerThanAgreed
<1>1. PlanInv => NeverLongerThanAgreed
    <2> SUFFICES ASSUME PlanInv PROVE NeverLongerThanAgreed
        OBVIOUS
    <2>1. principal \in Nat \ {0} /\ quoted \in Nat \ {0} /\ StartPeriod \in Nat
        BY Inputs DEF PlanInv
    <2>2. Len(schedule) = BaseInstallment(principal, quoted).months
        BY <2>1, PlanRows DEF PlanInv
    <2>3. BaseInstallment(principal, quoted).months <= quoted
        BY <2>1, BaseInstallmentBounds
    <2> QED
        BY <2>1, <2>2, <2>3 DEF NeverLongerThanAgreed
<1> QED
    BY <1>1, PlanInvariance, PTL

\* Building the schedule again never changes it.
THEOREM RebuildChangesNothing == Spec => RebuildIsIdempotent
<1>1. PlanInv /\ [Next]_vars => [schedule' = schedule]_vars
    BY PlanStep
<1> QED
    BY <1>1, PlanInvariance, PTL DEF Spec, RebuildIsIdempotent

=============================================================================
