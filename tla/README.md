# eExpert: a verification project

eExpert is a Laravel/Filament application for an expert-witness office: matters
and their requests, staff payroll and leave, bulk mail (the MMS panel), and the
letting of real estate (the PMS panel). This directory holds TLA+ models of its
core logic, TLC runs that check them on small instances and TLAPS proofs of the
results that hold for every instance. Source paths below are relative to `src/`.

    tlc -config PayrollLoans.cfg MCPayroll.tla
    tlapm PayrollRecoveryProofs.tla
    tlapm LeaveProofs.tla

The program is written in PHP, under `app/`, with its schema in
`database/migrations` and its schedule in `bootstrap/app.php`: that is what the
modules model. The JavaScript in the repository is 74 lines of build settings and
library set-up (`vite.config.js`, `resources/js`), without state of its own, and
compiled bundles of third-party packages under `public/` (Filament,
FullCalendar, TipTap); neither is modelled.

## 1. Inventory

All state lives in database tables. Requests of the two panels, signed links in
mail, queued jobs and scheduled commands act on it concurrently; PHP keeps
nothing between two requests. Both panels wrap actions and page saves in a
database transaction (`->databaseTransactions()`); nothing in the code takes a
row lock (`lockForUpdate`) and no table carries a version column.

| Component | State | Operations | What is hard | What makes it correct |
|---|---|---|---|---|
| Loan schedules (`LoanScheduleService`) | `employee_loans`, `loan_installments` | plan, generateFor (create, edit, Build Schedule) | rounding to a step, a shortened term stored back | the principal is recovered to the unit; early settlement quotes a multiple of the base; rebuilding changes nothing |
| Payroll runs (`PayrollRunService`, `ViewPayrollRun`, `CreatePayrollRun`, `PayrollRunsTable`) | `payroll_runs`, `eosg_accruals` | create, submit, HR and Finance approval, disburse, return to draft, delete | a ladder that goes back; checks on a loaded model | approvals belong to the figures they were given; a disbursed month is history |
| Payslips (`PayrollService`, `PayslipsRelationManager`) | `payslips`, `payslip_lines`, `loan_installments.payslip_id` | generate (clear and rebuild), adjust | regeneration over hand-typed figures; instalments released and taken again | what is withheld is what the instalments record; no negative net past HR |
| Journal voucher (`PayrollJournalVoucherService`) | none, reads lines and payslips | forRun | two sources for one double entry | debit equals credit |
| Leave (`LeaveRequestService`, `LeaveEntitlementService`, queue, mail links) | `leave_requests`, `leave_request_periods`, `party_leaves`, `leave_entitlements` | file, edit, delete, approve with a split, reject | decisions crossing between queue and mail; stale edit pages; balance rows created on first read | only approved leave reaches the ledger; each day is charged and withheld once; the opening balance is given once |
| Gratuity (`EndOfServiceGratuityService`, closing voucher) | none, reads profile and accruals | accrualBetween, gratuityAsOf | anniversaries, a cap | monthly accruals add up to the settlement |
| Leases and quotations (`LeaseService`, `QuotationService`, `RentReviewService`) | `leases`, `lease_units`, `units`, `quotations` | draft, attest, renew, terminate, accept, convert | guards missing on some transitions; units shared by a lease and its renewal | a unit is let once; a lease only moves forward |
| Instalments and payments (`InstallmentGenerator`, `PaymentService`, `FlagOverdueInstallments`) | `installments`, `installment_payments` | generate, record, bounce, flag overdue | read-modify-write of the balance; a bounced row still in the ledger | paid plus balance is what is due |
| Bulk mail (`SendBulkMailBatch`, scheduled command, relation manager) | `bulk_mail_campaigns`, `bulk_mail_recipients`, `bulk_mail_logs`, the queue | dispatch, send, fail, retry, pause, unsubscribe | overlapping jobs, effects that cannot be rolled back, stale status, a daily limit | nobody is mailed twice or after unsubscribing; a campaign completes |
| Matter requests (`Services/MMS/Requests`, receiving notices) | `matter_requests`, matter dates | create, approve, reject, accept, dispute, auto-confirm | link, panel and scheduler race | a request is decided once; its effect happens with its approval |
| Incentives, fee repair, calendar sync, installer, licence, templates, reports | various | calculations, repair, I/O | large arithmetic or external services | see "Not modelled" |

How they interact. A payslip reads salary components, finalised incentives and
the leave ledger, and takes loan instalments by writing its id on them. A
disbursement writes gratuity accruals and closes loans. An approval of leave
writes the ledger payroll reads later; composing the mail that announces a leave
request already creates the balance row. Foreign keys act too: deleting a run
cascades to its payslips and nulls the reference of the instalments they held;
deleting a leave period cascades to its ledger row.

`PROJECT.json` lists the hazards of this code line by line, with the property
that guards each or the reason none does yet.

## 2. Plan

Done, the most important behaviour first:

1. **Payroll**: schedules, runs, payslips, advances; the ladder as an abstract
   specification; races of requests; proofs of the invariants.
2. **Leave**: requests, ledger, balances.
3. **Bulk mail**: jobs, the worker, effects that cannot be undone; liveness of
   a campaign under fairness of the worker and the scheduler; proofs.
4. **Lettings**: quotation to termination, occupancy of units, an instalment
   with its payments and bounces, the overdue command; proofs.
5. **Matter requests**: the day a matter was received, decided by link, page and
   command; proofs.

Left:

6. **Gratuity**: accruals against the settlement, as operators over service days.
7. **Concurrency of payments**: `PaymentService` split into its read and its
   write, as `PayrollRaces` does for payroll.
8. **Other matter requests**: fees, reports, dates, each with what its approval
   writes.
9. **Proofs**: every safety and action property of the listed runs is a theorem
   (section 6). What is left is what the modules above will add, and the races
   `PayrollRaces` leaves open (which orders of two requests keep the figures).

## 3. Modules

| Module | Models | Notes |
|---|---|---|
| `LoanSchedule` | `LoanScheduleService::plan`, `baseInstallment` | operators only |
| `LoanRepayment` | one advance, rebuilt and recovered in due order | composes `LoanSchedule` |
| `Payroll` | every operation on runs, payslips, loans and instalments, each request served alone | composes `LoanSchedule` |
| `PayrollLadder` | what the approval ladder promises, whatever the figures are | abstract; `Payroll` implements it |
| `PayrollRaces` | the same handlers as a check step and a write step of concurrent requests | extends `Payroll` |
| `LeaveCalendar` | service years, entitlements, pay factors, days withheld in a month | operators only |
| `LeaveRequests` | the leave queue, mail links, edit pages, ledger and balances | composes `LeaveCalendar` |
| `BulkMail` | one campaign: scheduler, queue, workers, rows, pages | one step per statement that is committed on its own |
| `Lettings` | quotations, leases, units, an instalment per lease, payments, the overdue command | requests serial, the command interleaved |
| `MatterReceiving` | requests to change the day a matter was received: notice, links, pages, the command | requests serial, the command interleaved |
| `ArithmeticProofs` | lemmas: sums over finite sets, floors, the schedule of an advance | TLAPS |
| `LoanRepaymentProofs`, `PayrollProofs`, `LeaveProofs`, `BulkMailProofs`, `LettingsProofs`, `MatterReceivingProofs` | theorems about the module they are named for; `PayrollProofs` also that `Payroll` implements `PayrollLadder` | TLAPS |
| `PayrollRecoveryProofs` | theorems about advances and their instalments, in `Payroll` and in `PayrollRaces` | TLAPS |
| `MCLoanRepayment`, `MCPayroll`, `MCPayrollRaces`, `MCLeaveRequests`, `MCBulkMail`, `MCLettings`, `MCMatterReceiving` | instances, the refinement mapping, and claims of comments that the code breaks | TLC |

**Payroll.** `run[p]` is the row of `payroll_runs` for period `p` (the column is
unique); `payslip[<<p, e>>]` that of `payslips` (unique on run and party), with
the totals of its lines in `earned` and `withheld`; `loan[l]` and
`instalment[l]` the advance and its rows; `accrual` the gratuity bookings;
`reviewed` is a history variable. One action per handler: `CreateRun` includes
the generation `CreatePayrollRun::afterCreate` runs when the user may generate;
`DeleteRun` includes what the foreign keys do; `Generate` clears and rebuilds
every payslip and takes the instalments due; `Adjust` is the modal of a draft;
`SubmitForReview`, `HrApprove`, `FinanceApprove`, `Disburse`, `ReturnToDraft`
are the ladder; `CreateLoan`, `EditLoan`, `RebuildSchedule`, `DeleteLoan` the
advances.

**PayrollRaces.** `request[s]` is the request session `s` is serving: the model
it loaded (`seen`) and whether its row has been deleted since (`gone`). The
write is Eloquent's `save()`: the columns that differ from the loaded model
(`Dirty`).

**LeaveRequests.** `session[s]` is an open edit page or a decision between its
pending check and its transaction. `entitlement[e]` maps the start of a service
year to its balance row. `ledger[r]` holds the rows published for request `r`.

**BulkMail.** `row[r]` is the row of recipient `r` (status, `attempt_count`, and
whether `sent_at` is today), `campaign` the status, `limit` the daily limit,
`queued` the jobs waiting. `job[w]` is what worker `w` holds between two
statements: the rows it read and not done (`todo`), the one handed to the mail
server and not yet recorded (`cur`), and the attempts as they were read
(`seen`). `TakeJob` is what `handle` reads; `Deliver`, `MarkSent` and `Fail` are
the loop, `Fail` before or after the message left; `CompleteCampaign` and
`FinishBatch` its two ends; `Die` a job that is lost. Jobs are not in a
transaction, so every other action may fall between. `mails` and `reached` are
history variables.

**Lettings.** `lease[l]` is a lease with its units and the lease it renews,
`unit[u]` a unit's status, `quotation[q]` a quotation's; `instalment[l]` the
schedule of a lease, `ledger[l]` the sum of its `installment_payments`, `lapsed`
the leases past their grace period, `sweep` what the overdue command has loaded
and not done; `received` is a history variable. The page actions of a lease, of
its instalments and of a quotation are one action each.

**MatterReceiving.** `row[r]` is a request, `date` the matter's
`distributed_at`, `mailed` the requests whose links were sent, `aged` those a
day old, `listed` and `seen` what the command has loaded and not done; `own` is
a history variable. `NotifyAssistants` is the job of a new matter,
`AcceptByMail` and `DisputeSubmit` the links, `AddRequest`, `Approve`, `Reject`,
`DeleteRequest` the pages, `LoadDue`, `Confirm`, `ConfirmFails` the command.

### Abstractions

- Money is a whole number: the code computes on floats and rounds to 2 decimals.
  `floor((A / N) / step) * step` becomes an integer division.
- Months are numbers; in `LeaveCalendar` all months have one length and all
  years one number of months, so leap days and 29 February are left out.
- Allowances are folded into basic pay: they are added where basic is. The days
  and the rate behind the unpaid deduction are one amount in `Payroll`.
- Salaries, unpaid leave and incentives are inputs of a generation, chosen anew
  each time, as other screens may change them between two generations.
- A figure wider than `decimal(12, 2)` aborts the request (`MaxAmount`).
- Permissions: a user holding one exists for each operation; who holds which is
  not modelled, and HR and Finance users are separate constants that may overlap.
- In `Payroll` requests are serial. `PayrollRaces` drops this for the checks.
- The first read of a balance counts the employee's rows and creates one in a
  single step (`WithRow`; `LeaveEntitlementService.php`, line 137), and the opening
  balance is a constant: two first reads at once, of different service years,
  would each add the opening balance and are not modelled.
- `RecordPayment` is one step with two outcomes: the ledger row and the totals, or
  the ledger row alone. `PaymentService` writes the totals second, without a
  transaction of its own, and the page catches what that write throws
  (`InstallmentsRelationManager.php`, line 195), so the panel's transaction commits
  the first.
- The leave type an employee asks for is a suggestion and is left out.
- A campaign's daily limit is fixed when it is created, and its `scheduled_at` has
  passed. Days are "today" and "earlier". A job in the queue is one of a count;
  beyond `MaxJobs` one more makes no difference.
- A schedule of instalments is one row for the whole rent: its split, VAT and
  deposit lines are left out, and a payment is recorded against one row in any
  case. A quotation offers fixed units at a fixed rent. In `Lettings` a renewal
  or a converted quotation has no schedule until `GenerateSchedule`.
- In `MatterReceiving` there is one matter; who may answer is not modelled.

## 4. Runs

| Run | Instance | Shows |
|---|---|---|
| `loan_repayment` | a range of principals, terms and one step; any number of rebuilds and any recovery order by due date | exact recovery, quotation, term, idempotent rebuild |
| `payroll_loans` | 1 employee, 1 advance over 1 or 2 months, 2 periods, incentives and hand deductions that drive nets negative | withholding agrees with instalments, frozen figures, history, refinement of the ladder, the inductive invariant of the ladder (the type invariant is a conjunct of it), the gate at HR, typed figures survive everything but an Adjust |
| `payroll_races` | 1 employee, 1 advance, 1 period, 2 requests in flight | references stay valid and a closed loan stays closed in any order |
| `leave_requests` | 2 employees, 2 requests, 2 sessions, 2 service years, a leave across a month boundary | approved leave only, charged, opening balance once, withheld once |
| `bulk_mail` | 2 recipients, 1 worker, a limit of 0, 1 or 2 a day, 2 attempts, 1 lost job, 1 requeue | sent means delivered, the limit, the bound on repeated mail, liveness |
| `lettings` | 3 leases, 2 units, 1 quotation, units edited by hand; nothing billed | a lease is continued by one other at most, leases move forward, units stay let |
| `lettings_rent` | 2 leases, both billed, payments of 1 and 2 for a rent of 2, penalty 1 | the columns of an instalment agree, liveness of the overdue command |
| `matter_receiving` | 3 requests, 2 dates | where the day comes from, answers stay, liveness of the command |
| `rent_bounce` | 1 lease | **violation**: bounced money is counted again |
| `payroll_voucher` | 1 employee, 1 period | **violation**: an adjusted run's voucher does not balance |
| `payroll_settlement` | 1 advance over 2 periods | **violation**: a settled loan whose draft instalment is released |
| `leave_stale_edit` | 1 request, 2 employees, 2 sessions | **violation**: an edit page saves over an approved request |

**Bounds.** Every bound is a constant: `MaxPeriod`, `MaxAmount`, `Sessions`,
`MonthLength`, `MonthsPerYear`, `MaxPeriods`, and the input sets. Two periods are
the least in which an instalment can fall due in one month and be recovered in
another, or a loan be closed by one run while another holds its last row. Two
sessions are the least that cross; every race found needs two. A month of two
days and a year of two months give a leave that straddles a month and one in the
next service year. Periods in the breakdown of one approval are limited to one
in `leave_requests`; two requests of one employee give the second charge of a year.

One employee is enough for `payroll_loans`: payslips of two employees meet only
in sums over a run, and the properties of the ladder are proved for any number
(section 6). Two recipients and a limit of one give a batch cut by the day, a
batch of two, and a batch that stops at its first row; one lost job and one
requeue are the least that leave a row between delivery and record. Three
leases are the least in which one could be continued by two others, and they
give a renewal of a renewal and two leases on one unit; ids are given out in
order (`NextId`), as the column does. What a lease is billed does not feed back
into leases and units, so `lettings` bills nothing and checks safety alone, and
`lettings_rent` checks the instalments, with liveness, on two leases: one row of
the command's list may fail while the other is written. A ledger of up to 3
holds a part payment, its bounce and a second payment. A rent of zero, which the
forms take, is left to the theorems, which are about any rents. Two dates and
three requests let the day change by form, by approval and by the command after
a dispute. Every bound on the number of steps (`MaxJobs`, `MaxDeaths`,
`MaxRequeues`, `MaxLedger`) is a constant of its module.

`CHECK_DEADLOCK FALSE` is set throughout: a system with its months disbursed and
its identities used up has nothing left to do.

**Fairness.** Nothing obliges a person to act, so no step of the panels or of a
link is fair, and payroll and leave, which have no other steps, claim no
liveness. The three commands are scheduled every minute without overlapping
(`bootstrap/app.php`, lines 33 to 35) and the queue worker runs until it is
stopped, so:

- `BulkMail`: weak fairness of the scheduler's tick, of the end of a day and of
  each worker. It needs no more: a row that keeps failing runs out of attempts.
  Deaths are bounded, so a campaign is not starved by them. A campaign whose limit is zero, which the
  form takes, sends nothing, so `EveryoneIsReached` is about positive limits.
- `Lettings`, `MatterReceiving`: weak fairness of loading the list and of getting
  through it, and strong fairness of a row's success: a write or a mail tried
  every minute does not fail for ever. Without the last, `OverdueIsFlagged` and
  `DueIsDecided` do not hold, and rightly: the commands retry for ever and give
  up on nothing.

**Mutants.** Each module carries `Mut...` operators, one for each property of a
passing run: the code with one plausible mistake. With the mutant in place of
the definition TLC finds the property violated.

## 5. What the model says about the code

- *Voucher.* `applyAdjustment` rewrites the payslip and not its lines. After
  any effective adjustment the voucher debits the old earnings and credits the
  new net.
- *Settlement.* `settleFullyRecoveredLoans` treats an instalment held by any
  payslip as recovered, drafts included. Disburse one month while the last
  instalment sits in another month's draft; then regenerate or delete that
  draft. The loan stays settled and the instalment is never deducted.
- *Removal.* Return to draft makes a reviewed run deletable, against the
  comment on the Delete action (`PayrollRunsTable.php`, line 107).
  `PayrollRemoval.cfg` shows it (`OnlyUntouchedDraftsAreRemoved`): create, submit,
  return to draft, delete. It stands beside the listed runs.
- *Stale edit.* The status of a leave request is checked when the edit page
  opens only.
- *A payment half recorded.* A payment whose totals fail to save leaves its ledger
  row: the instalment shows the old balance until the next payment sums both.
- *Races.* In `PayrollRaces` TLC also violates `DisbursedStaysDisbursed`
  (`RacesDisbursed.cfg`): a return to draft that loaded the run as approved is
  written after the disbursement. In the same way an Adjust or a generation that
  passed the draft check lands after an approval, an edit of a loan deletes
  instalments a payslip has just taken, and an Adjust overwrites part of another.
  None has a documented promise as plain as those above; they are listed as
  hazards. In `LeaveRequests` two crossing approvals charge a balance twice, which
  is why `LedgerIsCharged` bounds the charge from below.
- *Bounces.* `markBounced` resets `paid_amount` and keeps the ledger rows;
  `recordPayment` sets `paid_amount` to the sum of the ledger. The next payment
  therefore credits the bounced money too.
- *Termination.* `terminate` vacates the units of the lease whatever other lease
  covers them: ending a renewed lease puts the unit its renewal lets back on the
  market. `LettingsTermination.cfg` shows it (`TerminationVacatesOwnUnits`),
  against the comment at `LeaseService.php`, line 314. It stands beside the
  listed runs, like `RacesDisbursed.cfg`, `PayrollRemoval.cfg` and
  `MatterReceivingDispute.cfg`. `OccupiedUntilReleased` does not catch it: it takes
  any termination for a release.
- *Stale overdue.* The command applies its rule to the row it loaded, so an
  instalment paid in between is written OVERDUE with nothing owed. `BalanceAdds` and
  `OverdueIsFlagged` hold through this step and do not exclude it.
- *A dispute overtaken.* `matter:confirm-receiving` loads a pending request; the
  assistant disputes it with a date; the command approves it and applies what it
  loaded, no date (`MatterReceivingDispute.cfg`, `ConfirmingAppliesTheDate`). A
  rejection that comes in between is overwritten as well, which is why
  `ResolvedStaysResolved` lets a rejected request become approved.
- *A dispute nobody can answer.* `canBeApproved` of a request to change the date
  asks for PENDING, so once disputed it can be neither approved nor rejected from
  the pages; and while it stands no other request of its type can be added.
- *Two workers.* With two workers on the queue the same rows are read twice: TLC
  violates `NeverMailedTwice` and `RecordedWithinDailyLimit`. The listed run, and
  the theorem about the limit, have one.
- *The queue.* Batches go to the queue `mail`; the README of the program starts a
  worker of the default queue.
- *An `\Error` in a batch* (an IMAP server without a folder named Sent gives one)
  is not an `\Exception`: the message has gone out, no attempt is counted, and the
  next job sends it again.
- *Unsubscribing* sets the row's status only: a batch that read the row earlier
  mails it and writes SENT over it. No template of the repository prints the
  address.
- *Left open by the code*: an accepted quotation may be converted any number of
  times; nothing makes a lease or a quotation EXPIRED; a draft's rent may change
  after its schedule was generated.
- *Short grants.* A period across two months granted with fewer days than its
  dates is withheld by the calendar (`daysInWindow`), not by the days granted;
  `FullDaysAreWithheldOnce` is therefore about full grants.

## 6. Proofs

All for any employees, loans, users, amounts, terms and number of periods, from
the assumptions named in the modules (`RoundingStepAssumption`,
`PayrollAssumption`, `LeaveAssumption` and the like, and `NoneAssumption`: NULL is
not a value), which TLC evaluates in every run that extends them.

Two fields of one row are updated as `[@ EXCEPT !.a = x, !.b = y]`, never as
`![p].a = x, ![p].b = y`: the prover's SMT backend turns the latter into
contradictory hypotheses, from which anything would follow.

Every invariant and every action property a passing run checks is stated by a
theorem. In the order of the components:

*Sums.* The models total money and days with `SumFunction` of the community
modules, a fold over a recursive function on sets. `ArithmeticProofs` proves
from that definition that a sum exists, is an integer, splits at any element
(not only at the one the fold happens to choose), agrees for functions that
agree, and telescopes over an interval. The prover cannot instantiate the
induction theorems of its library, so each induction is an argument by
contradiction about a minimal counterexample: among the subsets of a finite set
that break a fact there is one no proper subset of which breaks it
(`MinimalSubset`). The rest is the schedule of an advance, for every principal,
term and step: what `Plan` returns (`PlanRows`), that it repays the principal
(`PlanRepaysPrincipal`), and that planning from the term a schedule was shortened
to gives it again (`PlanningAgain`).

- `LoanRepaymentProofs`: `PrincipalIsRecovered` (`[]RecoversPrincipal`),
  `SettlementIsQuotable` (`[]EarlySettlementQuotation`), `TermIsNeverLengthened`
  (`[]NeverLongerThanAgreed`), `RebuildChangesNothing` (`RebuildIsIdempotent`) and
  `RepaymentTypes` (`[]TypeOK`). One invariant, `PlanInv`, gives all five: the
  schedule in the table is the plan of the term first agreed and the stored term
  is its length. That it is inductive is `PlanningAgain`; the properties
  follow from what a plan is, none of them being inductive by itself.

- `PayrollProofs!TypeCorrectness`: `Spec => []TypeOK`. One step per action; the
  lemmas say what pricing, generation and planning return.
- `PayrollProofs!LadderInvariance`: `Spec => []LadderInv`. "No negative net past
  HR" is not inductive: HR looks at a stored flag. The invariant adds that the
  flag agrees with the stored net on every payslip, which generation and
  adjustment both re-establish, and that approvals match the rung.
  `ApprovalsOnTheirRung` and `NobodyIsAskedForMoneyBack` follow.
- `PayrollRecoveryProofs!RecoveriesAreTraceable`: `Spec => []RecoveryIsTraceable`,
  inductive together with `TypeOK`: whoever deletes payslips releases their
  instalments first, whoever takes instalments has just built the payslip, and
  loans are rewritten only while nothing is held.
- `PayrollRecoveryProofs!DeductionsAreInstalments`
  (`[]DeductionMatchesInstalments`) and `LoansBalance` (`[]LoanBalances`): each
  action is shown to move both sides alike. A generation releases and takes rows
  of its own month; what it withholds is by definition the sum of what it takes,
  and for every other payslip the set of rows it holds is the same before and
  after. An edited or rebuilt schedule is a plan, and a plan adds up.
- `PayrollRecoveryProofs!RacesLeaveNoOrphan` (`RaceSpec => []RecoveryPointsAtPayslips`)
  and `ClosedLoansStayClosed` (`RaceSpec => ClosingIsFinal`), for any number of
  requests in flight. The invariant `RaceInv` says of a request
  past its check what no other request can take away: the row it loaded is still
  there or the request knows it is gone, and an edit of a loan carries the status
  it loaded, which is then not among the columns it writes. It adds that a month
  without a run has no payslips: a stale write must not bring them back.
- `PayrollProofs!DisbursedMonthsAreHistory`: `Spec => DisbursedIsHistory`, and
  `AccrualsFollowDisbursement`: `Spec => []AccrualsMatchDisbursement`, inductive
  with the types: only a disbursement books, and nothing moves a payslip of a
  disbursed run.
- `PayrollProofs!TypedFiguresOutliveGeneration`: `Spec => TypedFiguresSurvive`. A
  generation deletes the payslip and builds it anew, so what it keeps is what it
  carries over.
- `PayrollRecoveryProofs!FiguresFrozenPastDraft`: `Spec => FiguresAreFrozen`. A
  generation moves the rows held by the payslips of its own month only
  (`GenerationHolds`), and an advance is saved while nobody holds a row of it;
  for a new advance that is `RecoveryIsTraceable`, so the step needs it.
- `PayrollRecoveryProofs!RecoveryLocksTheSchedule`:
  `Spec => RecoveredScheduleStands`, from the types alone.
- `PayrollProofs!PayrollImplementsLadder`: `Spec => ClimbsLadder`. Each action
  is one step of the ladder (one lemma each) or leaves its four mapped variables
  alone; what HR signs is payable because of `LadderInv`, and that a run
  carries the signatures of its rung is what maps signatures to figures.
- `LeaveProofs!LedgerHoldsApprovedLeave`: `Spec => []OnlyApprovedReachesLedger`.
  A decision in flight may be stale in everything but one thing: the row it was
  checked on is still there, since deletion only trashes it
  (`SessionsNameRows`). Each commit then sets status, periods and ledger of that
  row together, and edits keep the status.
- `LeaveProofs!BalancesInvariance`: `Spec => [](LedgerInv /\ BalancesInv)`, from
  which `LeaveTablesKeepTypes` (`[]TypeOK`), `EveryLeaveIsCharged`
  (`[]LedgerIsCharged`), `OpeningIsCarriedOnce` (`[]OpeningBalanceOnce`) and
  `FullDaysLoseTheirPayOnce` (`[]FullDaysAreWithheldOnce`) follow. `BalancesInv`
  speaks of every balance row and not only of those a leave in the ledger draws
  on, so that replacing the rows of a request (which may be those of another
  employee, after a stale edit) leaves the rest charged; it adds that an opening
  balance that shows is carried by one row as soon as there are rows
  (`CarriedOnce`). TLC agrees with it on the instance of `leave_requests`. A
  decision adds at least what it publishes to each balance it touches: that is
  an induction over the rows of the breakdown (`LevelsExist` and what follows
  it). Of a leave across months, the days withheld telescope.
- `OpeningBalanceOnce` speaks of employees whose opening balance exceeds what any
  service year earns, by the full year or by the month: only then does a row
  that carries it show.
- `BulkMailProofs!SentMeansDelivered`: `Spec => []SentWasDelivered` for any number
  of workers. Its invariant adds `FiledHasLeft`: the row a worker is filing is one
  whose message left.
- `BulkMailProofs!OneWorkerKeepsTheLimit`: `Spec => []RecordedWithinDailyLimit`
  when `Workers` has one element. The limit is read once and then worked
  towards, so the invariant counts what the job has claimed: the rows recorded
  today and the rows still to do are together within the limit (`WithinLimit`),
  and the row being filed is one still to do (`CurrentIsLeft`). `SentToday` is
  compared by the theorems on cardinalities.
- `BulkMailProofs!RetriesBoundTheMails` (`[]MailedWithinRetries`) and
  `SentIsNotMailedAgain` (`NeverMailedTwice`), when `Workers` has one element. The
  messages a row has cost are counted against its attempts, the jobs lost and
  the one message the worker holds unrecorded (`MailsCounted`), and the attempts
  the job read are never behind those of the row; a job files one row at a time
  (`JobShape`). Together they are `RetryInv`.
- `LettingsProofs!BalancesAdd` (`[]BalanceAdds`), `RenewedAtMostOnce`
  (`[]RenewedOnce`), `StatusMovesForward` (`LeaseMovesForward`) and `UnitsStayLet`
  (`OccupiedUntilReleased`), for rents of zero too. The command
  writes rows it loaded earlier, so types rest on `SweptExist`: what it has loaded
  is still there. The others are inductive with the types.
- `MatterReceivingProofs!DatesAreApproved` (`[]DateWasApproved`). The command
  approves what it loaded, so the invariant adds `ListIsFaithful`: a row it has
  loaded with a date still proposes that date. Only a dispute changes a proposal,
  a dispute needs the links of a notice, and no row with links was created
  proposing a date or can be pending with one.
  `NothingIsReopened` is `Spec => ResolvedStaysResolved`.
- The bulk mail, letting and matter modules each prove their `TypeCorrectness`.

Assumed by no theorem: fairness. Assumed by three: one worker on the queue
(`OneWorkerKeepsTheLimit`, `RetriesBoundTheMails`, `SentIsNotMailedAgain`), without
which TLC refutes the properties (section 5).

Only model-checked: the liveness properties `EveryoneIsReached`, `OverdueIsFlagged`
and `DueIsDecided`, which need fairness and ENABLED and are out of the prover's
reach. The runs that expect a violation show counterexamples, which need no
proof.

## 7. Not modelled

- Gratuity amounts: see the plan.
- Of lettings: the split of a rent into instalments, VAT, deposits, the rent review
  (it computes and changes nothing), tax invoices and printing; two payments at
  once.
- Of bulk mail: the counters shown on the campaign (`sent_count`, `failed_count`,
  `total_recipients`), the log, importing, and a change of the limit or of the
  schedule of a campaign under way.
- Of matter requests: the types other than the change of the distributed date,
  and the notices to the office.
- Incentive calculations, fee repair, reports: arithmetic and presentation over
  many columns, without a protocol of their own; payroll sees an amount.
- Calendar synchronisation, WhatsApp, licence, installer: external services and
  file I/O.
- `LoanStatus::WRITTEN_OFF`: no code sets it. `splitSickDays`: called from tests
  only. Ledger rows typed by hand: no guard connects them to a request.
