---------------------------- MODULE LeaveCalendar ----------------------------
(***************************************************************************)
(* The arithmetic of leave: service years and entitlements                  *)
(* (LeaveEntitlementService), pay factors (LeaveType) and the days of pay   *)
(* withheld in a month (PayrollService).                                    *)
(*                                                                         *)
(* Days are numbered from 1.  Every month has MonthLength days and every    *)
(* year MonthsPerYear months: the unequal months and leap years of the      *)
(* calendar are Carbon's business and are left out.                         *)
(***************************************************************************)
EXTENDS Integers, FiniteSetsExt

CONSTANTS
    MonthLength,          \* bound: days in a month
    MonthsPerYear,        \* 12 in the application
    AccrueFrom,           \* months of service before annual leave accrues: 6
    AnnualDays,           \* payroll_annual_leave_days: 30
    AnnualDaysPerMonth,   \* payroll_annual_leave_days_per_month: 2
    None                  \* SQL NULL, or no such row

ASSUME CalendarAssumption ==
    /\ MonthLength \in Nat \ {0}
    /\ MonthsPerYear \in Nat \ {0}
    /\ AccrueFrom \in 0..MonthsPerYear
    /\ AnnualDays \in Nat
    /\ AnnualDaysPerMonth \in Nat

YearLength == MonthsPerYear * MonthLength

FirstOf(month) == (month - 1) * MonthLength + 1
LastOf(month)  == month * MonthLength

-----------------------------------------------------------------------------
(* Balances *)

\* The types that draw on a balance, each on the column of its own.
Columns == {"annual", "sick_full", "sick_half", "sick_unpaid"}

LeaveTypes == Columns \cup {"casual", "unpaid", "absent"}

\* Anniversaries are walked from the day of joining; a date before it falls in
\* the first service year.
ServiceYearStart(joined, on) ==
    IF on < joined THEN joined
    ELSE joined + ((on - joined) \div YearLength) * YearLength

\* The year a date is counted in; calendar years for want of a joining date.
YearStart(joined, on) ==
    IF joined = None THEN ServiceYearStart(1, on) ELSE ServiceYearStart(joined, on)

\* Annual leave earned by a date: nothing, then so much a month (months count
\* fractions), then the full year's days.
AnnualEntitlement(joined, on) ==
    LET served == on - joined
    IN  IF served >= YearLength THEN AnnualDays
        ELSE IF served >= AccrueFrom * MonthLength
        THEN (served * AnnualDaysPerMonth) \div MonthLength
        ELSE 0

Earned(joined, on) ==
    IF joined = None THEN AnnualDays ELSE AnnualEntitlement(joined, on)

-----------------------------------------------------------------------------
(* Withholding *)

\* Halves of a day's pay a day of leave loses: 2 * (1 - payFactor).
HalvesLost(type) ==
    CASE type \in {"annual", "casual", "sick_full"} -> 0
      [] type = "sick_half" -> 1
      [] OTHER -> 2

\* Mutation of DaysInWindow: one day less at each month boundary.
MutFencepost(p, month) ==
    IF p.from >= FirstOf(month) /\ p.to <= LastOf(month) THEN p.days
    ELSE Min({p.to, LastOf(month)}) - Max({p.from, FirstOf(month)})

\* Days of a leave falling inside a month: what the approver recorded when the
\* month holds all of it, and the calendar otherwise.
DaysInWindow(p, month) ==
    IF p.from >= FirstOf(month) /\ p.to <= LastOf(month) THEN p.days
    ELSE Min({p.to, LastOf(month)}) - Max({p.from, FirstOf(month)}) + 1

\* What the leaves in the ledger cost their employee in a month, in half days;
\* only those that overlap the month are read.
UnpaidHalves(p, month) ==
    IF p.from <= LastOf(month) /\ p.to >= FirstOf(month)
    THEN DaysInWindow(p, month) * HalvesLost(p.type)
    ELSE 0

=============================================================================
