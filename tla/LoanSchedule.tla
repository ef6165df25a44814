---------------------------- MODULE LoanSchedule ----------------------------
(***************************************************************************)
(* The repayment schedule of a staff advance: LoanScheduleService.          *)
(*                                                                         *)
(* Money is counted in a whole unit (fils in the application, a coarse      *)
(* unit in the model-checking instances); periods are month numbers.        *)
(* The service computes floor((A / N) / step) * step on floats; on whole    *)
(* numbers that is the integer division below.                              *)
(***************************************************************************)
EXTENDS Integers, Sequences, FiniteSetsExt

CONSTANT RoundingStep   \* payroll_loan_rounding_step, 50 AED by default

ASSUME RoundingStepAssumption == RoundingStep \in Nat \ {0}

-----------------------------------------------------------------------------

CeilDiv(a, b) == (a + b - 1) \div b

\* Mutations of BaseInstallment: a term rounded down; a term that the minimum
\* step always implies.
MutFloorTerm(principal, months) ==
    LET base == (principal \div (months * RoundingStep)) * RoundingStep
    IN  IF base < RoundingStep
        THEN [base |-> RoundingStep, months |-> Min({months, principal \div RoundingStep})]
        ELSE [base |-> base, months |-> months]

MutImpliedTerm(principal, months) ==
    LET base == (principal \div (months * RoundingStep)) * RoundingStep
    IN  IF base < RoundingStep
        THEN [base |-> RoundingStep, months |-> CeilDiv(principal, RoundingStep) + 1]
        ELSE [base |-> base, months |-> months]

\* The instalment every month but the first repays, and the term it implies.
\* Rounding down to nothing is replaced by the minimum step over fewer months.
BaseInstallment(principal, months) ==
    LET base == (principal \div (months * RoundingStep)) * RoundingStep
    IN  IF base < RoundingStep
        THEN [base   |-> RoundingStep,
              months |-> Min({months, CeilDiv(principal, RoundingStep)})]
        ELSE [base |-> base, months |-> months]

\* Mutations of Plan: the remainder forgotten; the remainder charged last.
MutNoRemainder(principal, months, start) ==
    LET b == BaseInstallment(principal, months)
    IN  [seq \in 1..b.months |-> [due |-> start + seq - 1, amount |-> b.base]]

MutRemainderLast(principal, months, start) ==
    LET b    == BaseInstallment(principal, months)
        last == principal - b.base * (b.months - 1)
    IN  [seq \in 1..b.months |->
            [due    |-> start + seq - 1,
             amount |-> IF seq = b.months THEN last ELSE b.base]]

\* The planned rows: consecutive months, the remainder on the first one.
Plan(principal, months, start) ==
    LET b     == BaseInstallment(principal, months)
        first == principal - b.base * (b.months - 1)
    IN  [seq \in 1..b.months |->
            [due    |-> start + seq - 1,
             amount |-> IF seq = 1 THEN first ELSE b.base]]

\* What the rows of a schedule at the positions S add up to.
AmountOf(schedule, S) == SumFunction([i \in S |-> schedule[i].amount])

=============================================================================
