---------------------------- MODULE PayrollLadder ----------------------------
(***************************************************************************)
(* What the approval ladder promises of the monthly runs, whatever their    *)
(* figures are made of (PayrollRunStatus, PayrollRunService): figures move  *)
(* only in a draft, HR and Finance each sign the figures they saw, going    *)
(* back to draft strikes both signatures out, and what is paid is what both *)
(* signed, for good.                                                        *)
(***************************************************************************)
CONSTANTS
    Runs,      \* the periods
    Figures,   \* the values a run's payslips can have together
    Blank,     \* the one of them without any payslip
    Payable,   \* those HR may pass: no net is negative
    Unsigned   \* no signature, and no figures

VARIABLES
    status,      \* the rung of each run, or "none" while it does not exist
    figures,     \* its figures now
    hrSigned,    \* the figures HR signed
    finSigned    \* the figures Finance released

vars == <<status, figures, hrSigned, finSigned>>

Init ==
    /\ status = [r \in Runs |-> "none"]
    /\ figures = [r \in Runs |-> Blank]
    /\ hrSigned = [r \in Runs |-> Unsigned]
    /\ finSigned = [r \in Runs |-> Unsigned]

Climb(r, from, to) ==
    /\ status[r] = from
    /\ status' = [status EXCEPT ![r] = to]

\* Only the figures of run r move, to any value.
NewFigures(r) ==
    /\ figures' = [figures EXCEPT ![r] = figures'[r]]
    /\ figures'[r] \in Figures

Open(r) ==
    /\ Climb(r, "none", "draft")
    /\ NewFigures(r)
    /\ UNCHANGED <<hrSigned, finSigned>>

Revise(r) ==
    /\ status[r] = "draft"
    /\ NewFigures(r)
    /\ UNCHANGED <<status, hrSigned, finSigned>>

Discard(r) ==
    /\ Climb(r, "draft", "none")
    /\ figures' = [figures EXCEPT ![r] = Blank]
    /\ UNCHANGED <<hrSigned, finSigned>>

Submit(r) ==
    /\ figures[r] # Blank
    /\ Climb(r, "draft", "hr_review")
    /\ UNCHANGED <<figures, hrSigned, finSigned>>

HrSign(r) ==
    /\ figures[r] \in Payable
    /\ Climb(r, "hr_review", "finance_approval")
    /\ hrSigned' = [hrSigned EXCEPT ![r] = figures[r]]
    /\ UNCHANGED <<figures, finSigned>>

FinanceSign(r) ==
    /\ hrSigned[r] = figures[r]
    /\ Climb(r, "finance_approval", "approved")
    /\ finSigned' = [finSigned EXCEPT ![r] = figures[r]]
    /\ UNCHANGED <<figures, hrSigned>>

Pay(r) ==
    /\ hrSigned[r] = figures[r]
    /\ finSigned[r] = figures[r]
    /\ Climb(r, "approved", "disbursed")
    /\ UNCHANGED <<figures, hrSigned, finSigned>>

Reopen(r) ==
    /\ \E from \in {"hr_review", "finance_approval", "approved"} :
          Climb(r, from, "draft")
    /\ hrSigned' = [hrSigned EXCEPT ![r] = Unsigned]
    /\ finSigned' = [finSigned EXCEPT ![r] = Unsigned]
    /\ UNCHANGED figures

Next ==
    \E r \in Runs :
        \/ Open(r) \/ Revise(r) \/ Discard(r) \/ Submit(r)
        \/ HrSign(r) \/ FinanceSign(r) \/ Pay(r) \/ Reopen(r)

Spec == Init /\ [][Next]_vars

=============================================================================
