---------------------------- MODULE LeaveRequests ----------------------------
(***************************************************************************)
(* Leave requests from filing to the ledger: LeaveRequestService,           *)
(* LeaveEntitlementService::forDate, the pages of the leave queue and the   *)
(* approve and reject links of the notification email.                      *)
(*                                                                         *)
(* Two things outlive a database transaction here and are states of a       *)
(* session: an edit page somebody has open, and a decision between its      *)
(* pending check (made on the loaded request) and its transaction.          *)
(*                                                                         *)
(* Rows typed into the ledger by hand touch no request and are left out.    *)
(***************************************************************************)
EXTENDS LeaveCalendar, SequencesExt

CONSTANTS
    Employees,    \* parties that may be on leave
    Joined,       \* their date of joining, or None
    Opening,      \* their opening leave balance
    RequestIds,   \* identities of leave_requests rows
    Sessions,     \* bound: pages open and decisions in flight at once
    Ranges,       \* inputs: the <<first, last>> days a form is given
    Types,        \* inputs: the leave types an approver can grant
    MaxPeriods    \* bound: rows in an approver's breakdown

ASSUME LeaveAssumption ==
    /\ Joined \in [Employees -> Nat \cup {None}]
    /\ Opening \in [Employees -> Nat]
    /\ Types \subseteq LeaveTypes
    /\ \A r \in Ranges : r[1] \in Nat \ {0} /\ r[2] \in Nat /\ r[1] <= r[2]
    /\ MaxPeriods \in Nat \ {0}

VARIABLES
    request,      \* leave_requests, by id
    granted,      \* leave_request_periods of each request
    ledger,       \* party_leaves published for those periods
    entitlement,  \* leave_entitlements: per party, by start of service year
    session       \* what each session has open

vars == <<request, granted, ledger, entitlement, session>>

-----------------------------------------------------------------------------

Idle == [op |-> "idle"]

Days(range) == range[2] - range[1] + 1

\* A request as filed; a trashed row is soft-deleted.  The type asked for only
\* suggests a breakdown to the approver, who may grant any other: left out.
Filed(e, range) ==
    [party |-> e, from |-> range[1], to |-> range[2], status |-> "pending", trashed |-> FALSE]

RequestRows == [party   : Employees,
                from    : Nat,
                to      : Nat,
                status  : {"pending", "approved", "rejected"},
                trashed : BOOLEAN]

\* NULL is no row.
ASSUME NoneAssumption == None \notin RequestRows

\* A row the default query scope still returns.
Exists(r) == request[r] # None /\ ~request[r].trashed

Pending(r) == Exists(r) /\ request[r].status = "pending"

\* Rows an approver can type into the breakdown.
PeriodInputs ==
    {p \in [type : Types,
            from : {range[1] : range \in Ranges}, to : {range[2] : range \in Ranges},
            days : 1..Max({Days(range) : range \in Ranges})] : p.from <= p.to}

TotalDays(periods) == MapThenSumSet(LAMBDA i : periods[i].days, DOMAIN periods)

\* assertPeriodsCoverTheRequest: the splits the service accepts for a request.
Splits(req) ==
    {ps \in UNION {[1..n -> PeriodInputs] : n \in 1..MaxPeriods} :
        /\ \A i \in DOMAIN ps : req.from <= ps[i].from /\ ps[i].to <= req.to
        /\ TotalDays(ps) <= req.to - req.from + 1}

-----------------------------------------------------------------------------
(* Balances *)

NothingTaken == [c \in Columns |-> 0]

\* Mutation of WithRow: every new year opens with the balance carried over.
MutOpeningEveryYear(rows, e, on) ==
    LET year == YearStart(Joined[e], on)
    IN  IF year \in DOMAIN rows THEN rows
        ELSE [y \in DOMAIN rows \cup {year} |->
                IF y = year
                THEN [entitled |-> Earned(Joined[e], on) + Opening[e], taken |-> NothingTaken]
                ELSE rows[y]]

\* forDate: the balance rows of an employee with the one for a date among them.
\* A row is created as of that date and never revised; the first an employee
\* ever gets carries the opening balance, a constant.  Asking for the rows and
\* creating one is a single step: two first reads at once are left out.
WithRow(rows, e, on) ==
    LET year    == YearStart(Joined[e], on)
        opening == IF DOMAIN rows = {} THEN Opening[e] ELSE 0
    IN  IF year \in DOMAIN rows THEN rows
        ELSE [y \in DOMAIN rows \cup {year} |->
                IF y = year
                THEN [entitled |-> Earned(Joined[e], on) + opening, taken |-> NothingTaken]
                ELSE rows[y]]

ReadBalance(e, on) ==
    entitlement' = [entitlement EXCEPT ![e] = WithRow(@, e, on)]

\* Mutation of Charge: an existing row is found and not incremented.
MutChargeNewRowsOnly(rows, e, p) ==
    LET year == YearStart(Joined[e], p.from)
    IN  IF p.type \notin Columns \/ year \in DOMAIN rows THEN rows
        ELSE [WithRow(rows, e, p.from) EXCEPT ![year].taken[p.type] = @ + p.days]

\* recordAgainstEntitlement: a period draws on the year it starts in.
Charge(rows, e, p) ==
    IF p.type \notin Columns THEN rows
    ELSE [WithRow(rows, e, p.from)
             EXCEPT ![YearStart(Joined[e], p.from)].taken[p.type] = @ + p.days]

-----------------------------------------------------------------------------
(* The queue *)

\* Filing announces the request; composing the mail reads the balance.
File(r, e, range) ==
    /\ request[r] = None
    /\ request' = [request EXCEPT ![r] = Filed(e, range)]
    /\ ReadBalance(e, range[1])
    /\ UNCHANGED <<granted, ledger, session>>

\* The approval form shows the balances of the request's service year.
OpenApprovalForm(r) ==
    /\ Pending(r)
    /\ ReadBalance(request[r].party, request[r].from)
    /\ UNCHANGED <<request, granted, ledger, session>>

\* The queue offers Delete on pending rows only; periods and ledger stay.
Delete(r) ==
    /\ Pending(r)
    /\ request' = [request EXCEPT ![r].trashed = TRUE]
    /\ UNCHANGED <<granted, ledger, entitlement, session>>

Enter(s, state) ==
    /\ session[s] = Idle
    /\ session' = [session EXCEPT ![s] = state]

Leave(s) == session' = [session EXCEPT ![s] = Idle]

\* The page turns away a request that is no longer pending when it is opened...
OpenEdit(s, r) ==
    /\ Pending(r)
    /\ Enter(s, [op |-> "edit", id |-> r])
    /\ UNCHANGED <<request, granted, ledger, entitlement>>

Editing(s, r) == session[s] = [op |-> "edit", id |-> r] /\ Exists(r)

\* ...and does not look again when it is saved, or when it deletes.
SaveEdit(s, r, e, range) ==
    /\ Editing(s, r)
    /\ request' = [request EXCEPT ![r] =
                     [@ EXCEPT !.party = e, !.from = range[1], !.to = range[2]]]
    /\ UNCHANGED <<granted, ledger, entitlement, session>>

DeleteFromEdit(s, r) ==
    /\ Editing(s, r)
    /\ request' = [request EXCEPT ![r].trashed = TRUE]
    /\ Leave(s)
    /\ UNCHANGED <<granted, ledger, entitlement>>

CloseEdit(s) ==
    /\ session[s].op = "edit"
    /\ Leave(s)
    /\ UNCHANGED <<request, granted, ledger, entitlement>>

-----------------------------------------------------------------------------
(* Decisions, from the queue or from the email *)

\* The check: pending, and a split that covers what was asked for.
BeginApprove(s, r, periods) ==
    /\ Pending(r)
    /\ Enter(s, [op |-> "approve", id |-> r, party |-> request[r].party,
                 periods |-> periods])
    /\ UNCHANGED <<request, granted, ledger, entitlement>>

BeginReject(s, r) ==
    /\ Pending(r)
    /\ Enter(s, [op |-> "reject", id |-> r])
    /\ UNCHANGED <<request, granted, ledger, entitlement>>

\* One row of the ledger per period granted, for the party of the request.
Published(e, periods) ==
    [i \in DOMAIN periods |->
        [party |-> e, type |-> periods[i].type, from |-> periods[i].from,
         to |-> periods[i].to, days |-> periods[i].days]]

\* The transaction: earlier periods go (and their ledger rows with them), the
\* new ones are published and charged in turn.
CommitApprove(s) ==
    /\ session[s].op = "approve"
    /\ LET r       == session[s].id
           e       == session[s].party
           periods == session[s].periods
       IN  /\ request' = [request EXCEPT ![r].status = "approved"]
           /\ granted' = [granted EXCEPT ![r] = periods]
           /\ ledger' = [ledger EXCEPT ![r] = Published(e, periods)]
           /\ entitlement' =
                 [entitlement EXCEPT ![e] =
                     FoldLeft(LAMBDA rows, p : Charge(rows, e, p), @, periods)]
    /\ Leave(s)

\* Mutation of CommitReject: the status alone is written.
MutRejectStatusOnly(s) ==
    /\ session[s].op = "reject"
    /\ request' = [request EXCEPT ![session[s].id].status = "rejected"]
    /\ Leave(s)
    /\ UNCHANGED <<granted, ledger, entitlement>>

\* Mutation of CommitReject: the row goes back to a status the queue lacks.
MutRejectClears(s) ==
    /\ session[s].op = "reject"
    /\ request' = [request EXCEPT ![session[s].id].status = None]
    /\ ledger' = [ledger EXCEPT ![session[s].id] = <<>>]
    /\ Leave(s)
    /\ UNCHANGED <<granted, entitlement>>

\* A rejection retracts whatever reached the ledger, and no balance.
CommitReject(s) ==
    /\ session[s].op = "reject"
    /\ request' = [request EXCEPT ![session[s].id].status = "rejected"]
    /\ ledger' = [ledger EXCEPT ![session[s].id] = <<>>]
    /\ Leave(s)
    /\ UNCHANGED <<granted, entitlement>>

-----------------------------------------------------------------------------

Init ==
    /\ request = [r \in RequestIds |-> None]
    /\ granted = [r \in RequestIds |-> <<>>]
    /\ ledger = [r \in RequestIds |-> <<>>]
    /\ entitlement = [e \in Employees |-> <<>>]
    /\ session = [s \in Sessions |-> Idle]

QueueNext ==
    \E r \in RequestIds :
        \/ \E e \in Employees, range \in Ranges : File(r, e, range)
        \/ OpenApprovalForm(r)
        \/ Delete(r)

SessionNext ==
    \E s \in Sessions :
        \/ \E r \in RequestIds :
              \/ OpenEdit(s, r)
              \/ \E e \in Employees, range \in Ranges : SaveEdit(s, r, e, range)
              \/ DeleteFromEdit(s, r)
              \/ Pending(r) /\ \E ps \in Splits(request[r]) : BeginApprove(s, r, ps)
              \/ BeginReject(s, r)
        \/ CloseEdit(s)
        \/ CommitApprove(s)
        \/ CommitReject(s)

Next == QueueNext \/ SessionNext

Spec == Init /\ [][Next]_vars

-----------------------------------------------------------------------------
(* Properties *)

TypeOK ==
    /\ \A r \in RequestIds :
          /\ request[r] \in RequestRows \cup {None}
          /\ granted[r] \in Seq(PeriodInputs)
          /\ \A i \in DOMAIN ledger[r] : ledger[r][i].party \in Employees
    /\ \A e \in Employees : \A y \in DOMAIN entitlement[e] :
          entitlement[e][y] \in [entitled : Nat, taken : [Columns -> Nat]]

\* "A request sitting in the queue must have no effect on anyone's pay or quota
\* until someone approves it" (LeaveRequestService), nor one that was turned
\* down, however decisions from the queue and from the email cross.
OnlyApprovedReachesLedger ==
    \A r \in RequestIds :
        ledger[r] # <<>> => request[r].status = "approved" /\ Len(ledger[r]) = Len(granted[r])

\* The rows of the ledger that draw on one column of one balance row.
Drawing(e, year, column) ==
    {x \in UNION {{r} \X DOMAIN ledger[r] : r \in RequestIds} :
        LET p == ledger[x[1]][x[2]]
        IN  p.party = e /\ p.type = column /\ YearStart(Joined[e], p.from) = year}

\* No day in the ledger escapes the balance it draws on: whatever crossed, each
\* balance row exists and has been charged at least those days.
LedgerIsCharged ==
    \A r \in RequestIds : \A i \in DOMAIN ledger[r] :
        LET p    == ledger[r][i]
            year == YearStart(Joined[p.party], p.from)
        IN  p.type \in Columns =>
              /\ year \in DOMAIN entitlement[p.party]
              /\ SumFunction([x \in Drawing(p.party, year, p.type) |-> ledger[x[1]][x[2]].days])
                    <= entitlement[p.party][year].taken[p.type]

\* The opening balance is added once to an employee's balances, whatever order
\* their service years are first touched in (LeaveEntitlementService::forDate):
\* when it exceeds what any year earns, a row that carries it shows.
OpeningBalanceOnce ==
    \A e \in Employees :
        /\ Opening[e] > AnnualDays
        /\ Opening[e] > MonthsPerYear * AnnualDaysPerMonth
        /\ entitlement[e] # <<>>
        => Cardinality({y \in DOMAIN entitlement[e] :
                            entitlement[e][y].entitled >= Opening[e]}) = 1

\* A leave granted for every day of its dates loses its pay once, however the
\* months divide it (PayrollService::daysInWindow).
FullDaysAreWithheldOnce ==
    \A r \in RequestIds : \A i \in DOMAIN ledger[r] :
        LET p == ledger[r][i]
        IN  p.days = p.to - p.from + 1 =>
              SumFunction([m \in 1..(p.to + 1) |-> UnpaidHalves(p, m)])
                  = p.days * HalvesLost(p.type)

=============================================================================
