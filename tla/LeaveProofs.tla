----------------------------- MODULE LeaveProofs -----------------------------
(***************************************************************************)
(* Theorems about LeaveRequests, for any employees, requests, sessions,     *)
(* dates and leave types.  Of ArithmeticProofs only the facts about sums    *)
(* are used, none about advances.                                           *)
(***************************************************************************)
EXTENDS LeaveRequests, ArithmeticProofs, SequenceTheorems

\* What a session can have open: nothing, a page, a decision past its check.
SessionStates ==
    {Idle}
    \cup [op : {"edit", "reject"}, id : RequestIds]
    \cup [op : {"approve"}, id : RequestIds, party : Employees, periods : Seq(PeriodInputs)]

\* The tables the ledger depends on, and what sessions hold.
TablesOK ==
    /\ request \in [RequestIds -> RequestRows \cup {None}]
    /\ granted \in [RequestIds -> Seq(PeriodInputs)]
    /\ DOMAIN ledger = RequestIds
    /\ session \in [Sessions -> SessionStates]

\* A decision in flight may be stale in everything but this: its row is there,
\* since a deletion only trashes it.
SessionsNameRows ==
    \A s \in Sessions : session[s] # Idle => request[session[s].id] # None

\* Leave in the ledger was approved and not retracted since.
LedgerIsApproved ==
    \A r \in RequestIds :
        ledger[r] # <<>> =>
            /\ request[r] # None
            /\ request[r].status = "approved"
            /\ Len(ledger[r]) = Len(granted[r])

LedgerInv == TablesOK /\ SessionsNameRows /\ LedgerIsApproved

\* A split the service accepts is a sequence of periods.
LEMMA SplitsAreSequences ==
    ASSUME NEW req, NEW ps \in Splits(req)
    PROVE  ps \in Seq(PeriodInputs)
<1>1. PICK n \in 1..MaxPeriods : ps \in [1..n -> PeriodInputs]
    BY DEF Splits
<1>2. n \in Nat
    BY LeaveAssumption
<1> QED
    BY <1>1, <1>2

\* One row is published for each period.
LEMMA PublishedLength ==
    ASSUME NEW e, NEW ps \in Seq(PeriodInputs)
    PROVE  Len(Published(e, ps)) = Len(ps)
<1>1. DOMAIN ps = 1..Len(ps) /\ Len(ps) \in Nat
    BY LenProperties
<1>2. DOMAIN Published(e, ps) = 1..Len(ps)
    BY <1>1 DEF Published
<1>3. Published(e, ps) \in Seq({Published(e, ps)[i] : i \in 1..Len(ps)})
    BY <1>1 DEF Published
<1> QED
    BY <1>1, <1>2, <1>3

\* Rewriting one row of the queue keeps the tables and the sessions' rows.
LEMMA RowWritten ==
    ASSUME TablesOK, SessionsNameRows, NEW r \in RequestIds, NEW row \in RequestRows,
           request' = [request EXCEPT ![r] = row]
    PROVE  /\ request' \in [RequestIds -> RequestRows \cup {None}]
           /\ request'[r] = row
           /\ \A q \in RequestIds \ {r} : request'[q] = request[q]
           /\ \A q \in RequestIds : request[q] # None => request'[q] # None
    BY NoneAssumption DEF TablesOK

\* What a session holds, by its kind.
LEMMA SessionKinds ==
    ASSUME TablesOK, SessionsNameRows, NEW s \in Sessions, session[s] # Idle
    PROVE  /\ session[s].id \in RequestIds
           /\ request[session[s].id] \in RequestRows
           /\ session[s].op = "approve" => session[s].periods \in Seq(PeriodInputs)
<1>1. session[s] \in SessionStates
    BY DEF TablesOK
<1>2. session[s].id \in RequestIds
    BY <1>1 DEF SessionStates
<1>3. session[s].op = "approve" => session[s].periods \in Seq(PeriodInputs)
    BY <1>1 DEF SessionStates
<1> QED
    BY <1>2, <1>3 DEF TablesOK, SessionsNameRows

\* A session that is given a state of its kind, on a row that is there.
LEMMA SessionSet ==
    ASSUME TablesOK, SessionsNameRows, NEW s \in Sessions, NEW state \in SessionStates,
           session' = [session EXCEPT ![s] = state],
           \A q \in RequestIds : request[q] # None => request'[q] # None,
           state # Idle => request'[state.id] # None
    PROVE  session' \in [Sessions -> SessionStates] /\ SessionsNameRows'
<1>1. session' \in [Sessions -> SessionStates]
    BY DEF TablesOK
<1>2. ASSUME NEW t \in Sessions, session'[t] # Idle PROVE request'[session'[t].id] # None
    <2>1. CASE t = s
        BY <1>2, <2>1 DEF TablesOK
    <2>2. CASE t # s
        <3>1. session'[t] = session[t]
            BY <2>2 DEF TablesOK
        <3> QED
            BY <1>2, <3>1, SessionKinds DEF SessionsNameRows
    <2> QED
        BY <2>1, <2>2
<1> QED
    BY <1>1, <1>2 DEF SessionsNameRows

\* A step that rewrites one row but not its status, and no ledger.
LEMMA StatusKept ==
    ASSUME LedgerInv, NEW r \in RequestIds, NEW row \in RequestRows,
           request' = [request EXCEPT ![r] = row],
           request[r] # None => row.status = request[r].status,
           UNCHANGED <<granted, ledger>>
    PROVE  LedgerIsApproved'
    BY RowWritten DEF LedgerInv, LedgerIsApproved

\* A step between the pages: only a session changes.
LEMMA OnlySession ==
    ASSUME LedgerInv, NEW s \in Sessions, NEW state \in SessionStates,
           session' = [session EXCEPT ![s] = state],
           state # Idle => request[state.id] # None,
           UNCHANGED <<request, granted, ledger>>
    PROVE  LedgerInv'
<1>1. session' \in [Sessions -> SessionStates] /\ SessionsNameRows'
    BY SessionSet DEF LedgerInv
<1> QED
    BY <1>1 DEF LedgerInv, TablesOK, LedgerIsApproved

\* Every step keeps the ledger to what is approved.
LEMMA LedgerStep ==
    ASSUME LedgerInv, [Next]_vars
    PROVE  LedgerInv'
<1> USE DEF LedgerInv
<1>1. ASSUME NEW r \in RequestIds, NEW e \in Employees, NEW range \in Ranges,
             File(r, e, range)
      PROVE  LedgerInv'
    <2>1. Filed(e, range) \in RequestRows
        BY LeaveAssumption DEF Filed, RequestRows
    <2>2. request' = [request EXCEPT ![r] = Filed(e, range)]
          /\ UNCHANGED <<granted, ledger, session>>
        BY <1>1 DEF File
    <2>3. LedgerIsApproved'
        BY <1>1, <2>1, <2>2, StatusKept DEF File
    <2> QED
        BY <2>1, <2>2, <2>3, RowWritten, SessionKinds DEF TablesOK, SessionsNameRows
<1>2. ASSUME NEW r \in RequestIds, OpenApprovalForm(r) PROVE LedgerInv'
    BY <1>2 DEF OpenApprovalForm, TablesOK, SessionsNameRows, LedgerIsApproved
<1>3. ASSUME NEW r \in RequestIds, Delete(r) PROVE LedgerInv'
    <2> DEFINE row == [request[r] EXCEPT !.trashed = TRUE]
    <2>1. row \in RequestRows /\ row.status = request[r].status
        BY <1>3 DEF Delete, Pending, Exists, TablesOK, RequestRows
    <2>2. request' = [request EXCEPT ![r] = row]
          /\ UNCHANGED <<granted, ledger, session>>
        BY <1>3 DEF Delete
    <2> HIDE DEF row
    <2>3. LedgerIsApproved'
        BY <2>1, <2>2, StatusKept
    <2> QED
        BY <2>1, <2>2, <2>3, RowWritten, SessionKinds DEF TablesOK, SessionsNameRows
<1>4. ASSUME NEW s \in Sessions, NEW r \in RequestIds,
             \/ OpenEdit(s, r)
             \/ Pending(r) /\ \E ps \in Splits(request[r]) : BeginApprove(s, r, ps)
             \/ BeginReject(s, r)
      PROVE  LedgerInv'
    <2>1. request[r] # None /\ request[r] \in RequestRows
        BY <1>4 DEF OpenEdit, BeginReject, Pending, Exists, TablesOK
    <2>2. PICK state \in SessionStates \ {Idle} :
              state.id = r /\ session' = [session EXCEPT ![s] = state]
        <3>1. CASE OpenEdit(s, r)
            <4>1. [op |-> "edit", id |-> r] \in SessionStates \ {Idle}
                BY DEF SessionStates, Idle
            <4> QED
                BY <3>1, <4>1 DEF OpenEdit, Enter
        <3>2. CASE BeginReject(s, r)
            <4>1. [op |-> "reject", id |-> r] \in SessionStates \ {Idle}
                BY DEF SessionStates, Idle
            <4> QED
                BY <3>2, <4>1 DEF BeginReject, Enter
        <3>3. CASE \E ps \in Splits(request[r]) : BeginApprove(s, r, ps)
            <4>1. PICK ps \in Splits(request[r]) : BeginApprove(s, r, ps)
                BY <3>3
            <4>2. [op |-> "approve", id |-> r, party |-> request[r].party, periods |-> ps]
                      \in SessionStates \ {Idle}
                BY <2>1, SplitsAreSequences DEF SessionStates, Idle, RequestRows
            <4> QED
                BY <4>1, <4>2 DEF BeginApprove, Enter
        <3> QED
            BY <1>4, <3>1, <3>2, <3>3
    <2> QED
        BY <1>4, <2>1, <2>2, OnlySession DEF OpenEdit, BeginApprove, BeginReject
<1>5. ASSUME NEW s \in Sessions, NEW r \in RequestIds, NEW e \in Employees,
             NEW range \in Ranges, SaveEdit(s, r, e, range)
      PROVE  LedgerInv'
    <2> DEFINE row == [request[r] EXCEPT !.party = e, !.from = range[1], !.to = range[2]]
    <2>1. range[1] \in Nat /\ range[2] \in Nat
        BY LeaveAssumption
    <2>2. row \in RequestRows /\ row.status = request[r].status
        BY <1>5, <2>1 DEF SaveEdit, Editing, Exists, TablesOK, RequestRows
    <2>3. request' = [request EXCEPT ![r] = row]
          /\ UNCHANGED <<granted, ledger, session>>
        BY <1>5 DEF SaveEdit
    <2> HIDE DEF row
    <2>4. LedgerIsApproved'
        BY <2>2, <2>3, StatusKept
    <2> QED
        BY <2>2, <2>3, <2>4, RowWritten, SessionKinds DEF TablesOK, SessionsNameRows
<1>6. ASSUME NEW s \in Sessions, NEW r \in RequestIds, DeleteFromEdit(s, r)
      PROVE  LedgerInv'
    <2> DEFINE row == [request[r] EXCEPT !.trashed = TRUE]
    <2>1. row \in RequestRows /\ row.status = request[r].status
        BY <1>6 DEF DeleteFromEdit, Editing, Exists, TablesOK, RequestRows
    <2>2. request' = [request EXCEPT ![r] = row] /\ UNCHANGED <<granted, ledger>>
          /\ session' = [session EXCEPT ![s] = Idle]
        BY <1>6 DEF DeleteFromEdit, Leave
    <2> HIDE DEF row
    <2>3. LedgerIsApproved'
        BY <2>1, <2>2, StatusKept
    <2>4. session' \in [Sessions -> SessionStates] /\ SessionsNameRows'
        BY <2>1, <2>2, RowWritten, SessionSet DEF SessionStates
    <2> QED
        BY <2>1, <2>2, <2>3, <2>4, RowWritten DEF TablesOK
<1>7. ASSUME NEW s \in Sessions, CloseEdit(s) PROVE LedgerInv'
    BY <1>7, OnlySession DEF CloseEdit, Leave, SessionStates
<1>8. ASSUME NEW s \in Sessions, CommitApprove(s) PROVE LedgerInv'
    <2> DEFINE r == session[s].id
               ps == session[s].periods
               row == [request[r] EXCEPT !.status = "approved"]
    <2>a. session[s].op = "approve"
        BY <1>8 DEF CommitApprove
    <2>1. session[s] # Idle
        BY <2>a DEF Idle
    <2>2. r \in RequestIds /\ request[r] \in RequestRows /\ ps \in Seq(PeriodInputs)
        BY <2>a, <2>1, SessionKinds
    <2>3. row \in RequestRows /\ row.status = "approved"
        BY <2>2 DEF RequestRows
    <2>4. /\ request' = [request EXCEPT ![r] = row]
          /\ granted' = [granted EXCEPT ![r] = ps]
          /\ \E e : ledger' = [ledger EXCEPT ![r] = Published(e, ps)]
          /\ session' = [session EXCEPT ![s] = Idle]
        BY <1>8 DEF CommitApprove, Leave
    <2> HIDE DEF r, ps, row
    <2>5. PICK e : ledger' = [ledger EXCEPT ![r] = Published(e, ps)]
        BY <2>4
    <2>6. request'[r] = row /\ granted'[r] = ps /\ ledger'[r] = Published(e, ps)
        BY <2>2, <2>4, <2>5 DEF TablesOK
    <2>7. \A q \in RequestIds \ {r} : /\ request'[q] = request[q]
                                      /\ granted'[q] = granted[q]
                                      /\ ledger'[q] = ledger[q]
        BY <2>2, <2>4, <2>5 DEF TablesOK
    <2>8. Len(ledger'[r]) = Len(granted'[r])
        BY <2>2, <2>6, PublishedLength
    <2>9. LedgerIsApproved'
        BY <2>3, <2>6, <2>7, <2>8, NoneAssumption DEF LedgerIsApproved
    <2>10. session' \in [Sessions -> SessionStates] /\ SessionsNameRows'
        BY <2>2, <2>3, <2>4, RowWritten, SessionSet DEF SessionStates
    <2>11. TablesOK'
        BY <2>2, <2>3, <2>4, <2>5, <2>10, RowWritten DEF TablesOK
    <2> QED
        BY <2>9, <2>10, <2>11
<1>9. ASSUME NEW s \in Sessions, CommitReject(s) PROVE LedgerInv'
    <2> DEFINE r == session[s].id
               row == [request[r] EXCEPT !.status = "rejected"]
    <2>1. session[s] # Idle
        BY <1>9 DEF CommitReject, Idle
    <2>2. r \in RequestIds /\ request[r] \in RequestRows
        BY <2>1, SessionKinds
    <2>3. row \in RequestRows
        BY <2>2 DEF RequestRows
    <2>4. /\ request' = [request EXCEPT ![r] = row]
          /\ ledger' = [ledger EXCEPT ![r] = <<>>]
          /\ session' = [session EXCEPT ![s] = Idle]
          /\ UNCHANGED granted
        BY <1>9 DEF CommitReject, Leave
    <2> HIDE DEF r, row
    <2>5. ledger'[r] = <<>>
          /\ \A q \in RequestIds \ {r} : request'[q] = request[q] /\ ledger'[q] = ledger[q]
        BY <2>2, <2>4 DEF TablesOK
    <2>6. LedgerIsApproved'
        BY <2>4, <2>5 DEF LedgerIsApproved
    <2>7. session' \in [Sessions -> SessionStates] /\ SessionsNameRows'
        BY <2>2, <2>3, <2>4, RowWritten, SessionSet DEF SessionStates
    <2> QED
        BY <2>2, <2>3, <2>4, <2>6, <2>7, RowWritten DEF TablesOK
<1>10. CASE UNCHANGED vars
    BY <1>10 DEF vars, TablesOK, SessionsNameRows, LedgerIsApproved
<1> QED
    BY <1>1, <1>2, <1>3, <1>4, <1>5, <1>6, <1>7, <1>8, <1>9, <1>10
       DEF Next, QueueNext, SessionNext

\* The inductive invariant: no leave is in the ledger whose request was not
\* approved, and every decision in flight is about a row that is there.
THEOREM LedgerInvariance == Spec => []LedgerInv
<1>1. Init => LedgerInv
    BY EmptySeq DEF Init, LedgerInv, TablesOK, SessionsNameRows, LedgerIsApproved, SessionStates
<1> QED
    BY <1>1, LedgerStep, PTL DEF Spec

\* However approvals, rejections, edits and deletions cross, and whatever each
\* of them had loaded, the ledger holds approved leave only, one row per period
\* granted (LeaveRequestService).
THEOREM LedgerHoldsApprovedLeave == Spec => []OnlyApprovedReachesLedger
<1>1. LedgerInv => OnlyApprovedReachesLedger
    BY DEF LedgerInv, LedgerIsApproved, OnlyApprovedReachesLedger
<1> QED
    BY <1>1, LedgerInvariance, PTL

-----------------------------------------------------------------------------
(* Days of pay *)

\* What the ledger can hold.
LedgerRows == {p \in [party : Employees, type : Types, from : Nat \ {0}, to : Nat,
                      days : Nat \ {0}] : p.from <= p.to}

\* The larger of two numbers is one of them, and above both.
LEMMA MaxOfTwo ==
    ASSUME NEW a \in Nat, NEW b \in Nat
    PROVE  Max({a, b}) \in {a, b} /\ Max({a, b}) >= a /\ Max({a, b}) >= b
<1>1. \E x \in {a, b} : \A y \in {a, b} : x >= y
    BY SMT
<1> QED
    BY <1>1 DEF Max

\* The days of a leave up to a date.
DaysUpTo(p, day) == IF day < p.from THEN 0
                    ELSE IF day <= p.to THEN day - p.from + 1
                    ELSE p.to - p.from + 1

\* A month takes the days of a leave that the months before it have not.
LEMMA MonthTakesItsDays ==
    ASSUME NEW p \in LedgerRows, p.days = p.to - p.from + 1, NEW m \in Nat \ {0}
    PROVE  LET g(k) == DaysUpTo(p, k * MonthLength) * HalvesLost(p.type)
           IN  /\ g(m) \in Int /\ g(m - 1) \in Int
               /\ UnpaidHalves(p, m) = g(m) - g(m - 1)
<1> DEFINE a == (m - 1) * MonthLength
           b == m * MonthLength
           D == IF p.from <= LastOf(m) /\ p.to >= FirstOf(m) THEN DaysInWindow(p, m) ELSE 0
           H == HalvesLost(p.type)
<1>1. p.from \in Nat \ {0} /\ p.to \in Nat /\ p.from <= p.to
    BY DEF LedgerRows
<1>2. a \in Nat /\ b \in Nat /\ b = a + MonthLength /\ MonthLength \in Nat \ {0}
    <2>1. MonthLength \in Nat \ {0}
        BY CalendarAssumption
    <2> QED
        BY <2>1
<1>3. FirstOf(m) = a + 1 /\ LastOf(m) = b
    BY DEF FirstOf, LastOf
<1> HIDE DEF a, b
<1>4. /\ Min({p.to, b}) = IF p.to <= b THEN p.to ELSE b
      /\ Max({p.from, a + 1}) = IF p.from >= a + 1 THEN p.from ELSE a + 1
    <2>1. a + 1 \in Nat
        BY <1>2
    <2> QED
        BY <1>1, <1>2, <2>1, MinOfTwo, MaxOfTwo
<1>5. DaysInWindow(p, m) = IF p.from >= a + 1 /\ p.to <= b THEN p.days
                           ELSE Min({p.to, b}) - Max({p.from, a + 1}) + 1
    BY <1>3 DEF DaysInWindow
<1>6. D = DaysUpTo(p, b) - DaysUpTo(p, a)
    BY <1>1, <1>2, <1>3, <1>4, <1>5 DEF DaysUpTo
<1>7. DaysUpTo(p, a) \in Int /\ DaysUpTo(p, b) \in Int
    BY <1>1, <1>2 DEF DaysUpTo
<1>8. H \in {0, 1, 2}
    BY DEF HalvesLost
<1>9. UnpaidHalves(p, m) = D * H
    <2>1. 0 * H = 0
        BY <1>8
    <2> QED
        BY <2>1 DEF UnpaidHalves
<1> HIDE DEF D, H
<1>10. D * H = DaysUpTo(p, b) * H - DaysUpTo(p, a) * H
    BY <1>6, <1>7, <1>8
<1>11. DaysUpTo(p, b) * H \in Int /\ DaysUpTo(p, a) * H \in Int
    BY <1>7, <1>8
<1> QED
    BY <1>9, <1>10, <1>11 DEF a, b, H

\* Over the months, a leave granted for every day of its dates is withheld once.
LEMMA MonthsAddUp ==
    ASSUME NEW p \in LedgerRows, p.days = p.to - p.from + 1
    PROVE  SumFunction([m \in 1..(p.to + 1) |-> UnpaidHalves(p, m)])
               = p.days * HalvesLost(p.type)
<1> DEFINE n == p.to + 1
           H == HalvesLost(p.type)
           f == [m \in 1..n |-> UnpaidHalves(p, m)]
           g == [k \in 0..n |-> DaysUpTo(p, k * MonthLength) * H]
<1>1. p.from \in Nat \ {0} /\ p.to \in Nat /\ p.from <= p.to /\ n \in Nat
    BY DEF LedgerRows
<1>2. MonthLength \in Nat \ {0}
    BY CalendarAssumption
<1>3. H \in {0, 1, 2}
    BY DEF HalvesLost
<1>4. g[0] = 0
    <2>1. DaysUpTo(p, 0 * MonthLength) = 0
        BY <1>1, <1>2 DEF DaysUpTo
    <2> QED
        BY <1>1, <1>3, <2>1
<1>5. g[n] = p.days * H
    <2>1. n * MonthLength >= n
        BY <1>1, <1>2
    <2>2. n * MonthLength \in Nat
        BY <1>1, <1>2
    <2> DEFINE d == n * MonthLength
    <2>3. DaysUpTo(p, d) = p.to - p.from + 1
        <3> HIDE DEF d
        <3>1. d > p.to /\ d \in Nat
            BY <1>1, <2>1, <2>2 DEF d
        <3> QED
            BY <1>1, <3>1 DEF DaysUpTo
    <2> QED
        BY <1>1, <2>3
<1>6. ASSUME NEW m \in 1..n
      PROVE  /\ g[m] \in Int /\ g[m - 1] \in Int
             /\ f[m] = g[m] - g[m - 1]
    <2>1. m \in Nat \ {0} /\ m \in 0..n /\ m - 1 \in 0..n
        BY <1>1
    <2> QED
        BY <2>1, MonthTakesItsDays
<1> HIDE DEF g
<1>7. \A m \in 0..n : g[m] \in Int
    <2> SUFFICES ASSUME NEW m \in 0..n PROVE g[m] \in Int
        OBVIOUS
    <2>1. CASE m = 0
        BY <1>4, <2>1
    <2>2. CASE m # 0
        <3>1. m \in 1..n
            BY <1>1, <2>2
        <3> QED
            BY <1>6, <3>1
    <2> QED
        BY <2>1, <2>2
<1>8. SumFunctionOnSet(f, 1..n) = g[n] - g[0]
    <2> HIDE DEF f, n
    <2> QED
        BY <1>1, <1>6, <1>7, SumTelescopes
<1>9. p.days * H \in Int
    BY <1>1, <1>3
<1> QED
    BY <1>4, <1>5, <1>8, <1>9 DEF SumFunction

-----------------------------------------------------------------------------
(* Balances *)

BalanceRows == [entitled : Nat, taken : [Columns -> Nat]]

\* The balance rows of an employee, by start of service year.
IsBalances(rows) == rows \in [DOMAIN rows -> BalanceRows]

\* What a column of a service year has been charged; nothing without a row.
Taken(rows, year, column) == IF year \in DOMAIN rows THEN rows[year].taken[column] ELSE 0

\* The opening balance shows in a row that carries it.
Shows(e) == Opening[e] > AnnualDays /\ Opening[e] > MonthsPerYear * AnnualDaysPerMonth

\* If it shows, one row carries it, as soon as there are rows.
CarriedOnce(rows, e) ==
    Shows(e) =>
        \/ DOMAIN rows = {}
        \/ \E first \in DOMAIN rows : \A y \in DOMAIN rows :
              rows[y].entitled >= Opening[e] <=> y = first

\* What a service year earns, and its limit.
LEMMA EarnedBounds ==
    ASSUME NEW e \in Employees, NEW on \in Nat
    PROVE  /\ Earned(Joined[e], on) \in Nat
           /\ \/ Earned(Joined[e], on) <= AnnualDays
              \/ Earned(Joined[e], on) <= MonthsPerYear * AnnualDaysPerMonth
<1> DEFINE served == on - Joined[e]
           R == AnnualDaysPerMonth
           L == MonthLength
           N == MonthsPerYear
<1>1. AnnualDays \in Nat /\ R \in Nat /\ L \in Nat \ {0} /\ N \in Nat \ {0}
      /\ AccrueFrom \in Nat
    BY CalendarAssumption
<1>2. CASE Joined[e] = None
    BY <1>1, <1>2 DEF Earned
<1>3. CASE Joined[e] # None
    <2>1. served \in Int
        BY <1>3, LeaveAssumption
    <2>2. AccrueFrom * L \in Nat
        BY <1>1
    <2>3. ASSUME served >= AccrueFrom * L, served < N * L
          PROVE  /\ (served * R) \div L \in Nat
                 /\ (served * R) \div L <= N * R
        <3> DEFINE q == (served * R) \div L
        <3>1. served \in Nat
            BY <2>1, <2>2, <2>3
        <3>2. served * R \in Nat
            BY <1>1, <3>1
        <3>3. q \in Nat /\ L * q <= served * R
            BY <1>1, <3>2, Division
        <3> HIDE DEF q, served
        <3>4. served * R <= (N * L) * R
            BY <1>1, <2>3, <3>1
        <3>5. (N * L) * R = L * (N * R) /\ N * R \in Nat
            BY <1>1
        <3>6. L * q <= L * (N * R)
            BY <1>1, <3>2, <3>3, <3>4, <3>5
        <3>7. ASSUME q > N * R PROVE FALSE
            <4>1. q >= N * R + 1
                BY <3>3, <3>5, <3>7
            <4>2. L * q >= L * (N * R + 1)
                BY <1>1, <3>3, <3>5, <4>1
            <4>3. L * (N * R + 1) = L * (N * R) + L /\ L * (N * R) \in Nat
                BY <1>1, <3>5
            <4> QED
                BY <1>1, <3>3, <3>6, <4>2, <4>3
        <3> QED
            BY <3>3, <3>5, <3>7 DEF q
    <2> HIDE DEF served
    <2>4. Earned(Joined[e], on) = IF served >= N * L THEN AnnualDays
                                  ELSE IF served >= AccrueFrom * L
                                  THEN (served * R) \div L
                                  ELSE 0
        BY <1>3 DEF Earned, AnnualEntitlement, YearLength, served
    <2>5. N * L \in Nat /\ N * R \in Nat
        BY <1>1
    <2> QED
        BY <1>1, <2>1, <2>3, <2>4, <2>5
<1> QED
    BY <1>2, <1>3

\* Reading a balance opens the row of the date, charged nothing, and leaves the
\* others; the first row an employee gets carries the opening balance.
LEMMA WithRowKeeps ==
    ASSUME NEW e \in Employees, NEW on \in Nat, NEW rows, IsBalances(rows),
           CarriedOnce(rows, e)
    PROVE  LET new == WithRow(rows, e, on)
           IN  /\ IsBalances(new)
               /\ CarriedOnce(new, e)
               /\ DOMAIN rows \subseteq DOMAIN new
               /\ YearStart(Joined[e], on) \in DOMAIN new
               /\ \A y, c : c \in Columns => Taken(new, y, c) = Taken(rows, y, c)
<1> DEFINE year == YearStart(Joined[e], on)
           opening == IF DOMAIN rows = {} THEN Opening[e] ELSE 0
           row == [entitled |-> Earned(Joined[e], on) + opening, taken |-> NothingTaken]
           new == WithRow(rows, e, on)
<1> HIDE DEF year
<1>1. CASE year \in DOMAIN rows
    <2>1. new = rows
        BY <1>1 DEF WithRow, year
    <2>2. \A y, c : c \in Columns => Taken(new, y, c) = Taken(rows, y, c)
        BY <2>1
    <2> HIDE DEF new
    <2> QED
        BY <1>1, <2>1, <2>2 DEF year, new
<1>2. CASE year \notin DOMAIN rows
    <2>1. new = [y \in DOMAIN rows \cup {year} |-> IF y = year THEN row ELSE rows[y]]
        BY <1>2 DEF WithRow, year
    <2>2. /\ Earned(Joined[e], on) \in Nat
          /\ \/ Earned(Joined[e], on) <= AnnualDays
             \/ Earned(Joined[e], on) <= MonthsPerYear * AnnualDaysPerMonth
        BY EarnedBounds
    <2>3. Opening[e] \in Nat
        BY LeaveAssumption
    <2>4. NothingTaken \in [Columns -> Nat] /\ \A c \in Columns : NothingTaken[c] = 0
        BY DEF NothingTaken
    <2>5. row \in BalanceRows /\ row.taken = NothingTaken
          /\ row.entitled = Earned(Joined[e], on) + opening
        BY <2>2, <2>3, <2>4 DEF BalanceRows
    <2> HIDE DEF new, row
    <2>6. \A y \in DOMAIN rows : rows[y] \in BalanceRows
        BY DEF IsBalances
    <2>7. DOMAIN new = DOMAIN rows \cup {year} /\ new[year] = row
          /\ \A y \in DOMAIN rows : new[y] = rows[y]
        BY <1>2, <2>1
    <2>8. IsBalances(new)
        BY <2>1, <2>5, <2>6 DEF IsBalances
    <2>9. \A y, c : c \in Columns => Taken(new, y, c) = Taken(rows, y, c)
        BY <1>2, <2>4, <2>5, <2>7 DEF Taken
    <2>10. CarriedOnce(new, e)
        <3> SUFFICES ASSUME Shows(e)
                     PROVE  \E first \in DOMAIN new : \A y \in DOMAIN new :
                                new[y].entitled >= Opening[e] <=> y = first
            BY DEF CarriedOnce
        <3>0. AnnualDays \in Nat /\ MonthsPerYear * AnnualDaysPerMonth \in Nat
            BY CalendarAssumption
        <3>1. CASE DOMAIN rows = {}
            <4>1. row.entitled >= Opening[e]
                BY <2>2, <2>3, <2>5, <3>1
            <4> QED
                BY <2>7, <3>1, <4>1
        <3>2. CASE DOMAIN rows # {}
            <4>1. ~(row.entitled >= Opening[e])
                BY <2>2, <2>3, <2>5, <3>0, <3>2 DEF Shows
            <4>2. PICK first \in DOMAIN rows : \A y \in DOMAIN rows :
                      rows[y].entitled >= Opening[e] <=> y = first
                BY <3>2 DEF CarriedOnce
            <4> QED
                BY <1>2, <2>7, <4>1, <4>2
        <3> QED
            BY <3>1, <3>2
    <2> QED
        BY <2>7, <2>8, <2>9, <2>10 DEF year, new
<1> QED
    BY <1>1, <1>2

\* A period draws its days on the column of its type, in the year it starts in.
Draws(e, p, year, column) ==
    IF p.type = column /\ YearStart(Joined[e], p.from) = year THEN p.days ELSE 0

\* Charging a period does that, opening the row if need be, and no more.
LEMMA ChargeKeeps ==
    ASSUME NEW e \in Employees, NEW p \in PeriodInputs, NEW rows, IsBalances(rows),
           CarriedOnce(rows, e)
    PROVE  LET new == Charge(rows, e, p)
           IN  /\ IsBalances(new)
               /\ CarriedOnce(new, e)
               /\ DOMAIN rows \subseteq DOMAIN new
               /\ p.type \in Columns => YearStart(Joined[e], p.from) \in DOMAIN new
               /\ \A y, c : c \in Columns =>
                     Taken(new, y, c) = Taken(rows, y, c) + Draws(e, p, y, c)
<1> DEFINE year == YearStart(Joined[e], p.from)
           new == Charge(rows, e, p)
           mid == WithRow(rows, e, p.from)
<1>1. p.from \in Nat /\ p.days \in Nat
    BY LeaveAssumption DEF PeriodInputs
<1>2. \A y, c : c \in Columns => Taken(rows, y, c) \in Nat
    BY DEF IsBalances, BalanceRows, Taken
<1>3. CASE p.type \notin Columns
    <2>1. new = rows
        BY <1>3 DEF Charge
    <2>2. \A y, c : c \in Columns => Draws(e, p, y, c) = 0
        BY <1>3 DEF Draws
    <2> HIDE DEF new
    <2> QED
        BY <1>2, <1>3, <2>1, <2>2 DEF new
<1>4. CASE p.type \in Columns
    <2>1. new = [mid EXCEPT ![year].taken[p.type] = @ + p.days]
        BY <1>4 DEF Charge
    <2>2. /\ IsBalances(mid)
          /\ CarriedOnce(mid, e)
          /\ DOMAIN rows \subseteq DOMAIN mid
          /\ year \in DOMAIN mid
          /\ \A y, c : c \in Columns => Taken(mid, y, c) = Taken(rows, y, c)
        BY <1>1, WithRowKeeps
    <2> HIDE DEF mid, year, new
    <2>3. /\ mid[year] \in BalanceRows
          /\ mid[year].taken \in [Columns -> Nat]
          /\ mid[year].entitled \in Nat
        BY <2>2 DEF IsBalances, BalanceRows
    <2> DEFINE taken == [mid[year].taken EXCEPT ![p.type] = @ + p.days]
               row == [mid[year] EXCEPT !.taken = taken]
    <2>4. new = [mid EXCEPT ![year] = row]
        BY <2>1
    <2>5. taken \in [Columns -> Nat]
          /\ \A c \in Columns : taken[c] = mid[year].taken[c]
                                           + IF c = p.type THEN p.days ELSE 0
        BY <1>1, <1>4, <2>3
    <2> HIDE DEF taken
    <2>6. row \in BalanceRows /\ row.taken = taken /\ row.entitled = mid[year].entitled
        BY <2>3, <2>5 DEF BalanceRows
    <2> HIDE DEF row
    <2>7. /\ DOMAIN new = DOMAIN mid /\ new[year] = row
          /\ \A y \in DOMAIN mid : y # year => new[y] = mid[y]
        BY <2>2, <2>4
    <2>8. IsBalances(new)
        BY <2>2, <2>4, <2>6 DEF IsBalances
    <2>9. CarriedOnce(new, e)
        <3>1. \A y \in DOMAIN mid : new[y].entitled = mid[y].entitled
            BY <2>6, <2>7
        <3> QED
            BY <2>2, <2>7, <3>1 DEF CarriedOnce
    <2>10. ASSUME NEW y, NEW c \in Columns
           PROVE  Taken(new, y, c) = Taken(rows, y, c) + Draws(e, p, y, c)
        <3>1. Taken(mid, y, c) = Taken(rows, y, c) /\ Taken(rows, y, c) \in Nat
            BY <1>2, <2>2
        <3>2. CASE y = year
            <4>1. Taken(new, y, c) = taken[c] /\ Taken(mid, y, c) = mid[year].taken[c]
                BY <2>2, <2>6, <2>7, <3>2 DEF Taken
            <4>2. Draws(e, p, y, c) = IF c = p.type THEN p.days ELSE 0
                BY <3>2 DEF Draws, year
            <4> QED
                BY <2>5, <3>1, <4>1, <4>2
        <3>3. CASE y # year
            <4>1. Taken(new, y, c) = Taken(mid, y, c)
                BY <2>7, <3>3 DEF Taken
            <4>2. Draws(e, p, y, c) = 0
                BY <3>3 DEF Draws, year
            <4> QED
                BY <3>1, <4>1, <4>2
        <3> QED
            BY <3>2, <3>3
    <2> QED
        BY <2>2, <2>7, <2>8, <2>9, <2>10 DEF year, new
<1> QED
    BY <1>3, <1>4


-----------------------------------------------------------------------------
(* The periods of a grant, charged in turn *)

\* The approval charges the periods from the first to the last.
ChargeAll(rows, e, ps) == FoldLeft(LAMBDA q, p : Charge(q, e, p), rows, ps)

\* One level of the recursive function behind it: the last period of a set of
\* positions is charged on top of the others.
Level(g, s, rows, e, ps) ==
    IF s = {} THEN rows ELSE Charge(g[s \ {Max(s)}], e, ps[Max(s)])

\* g is that function on a family D of sets of positions.
LevelsOn(g, D, rows, e, ps) == g = [s \in D |-> Level(g, s, rows, e, ps)]

\* g satisfies its equation on the positions of ps.
IsLevels(g, rows, e, ps) == \A s \in SUBSET DOMAIN ps : g[s] = Level(g, s, rows, e, ps)

\* A set of positions has a last one.
LEMMA LastIndex ==
    ASSUME NEW n \in Nat, NEW s \in SUBSET (1..n), s # {}
    PROVE  Max(s) \in s
<1> DEFINE left == {n - x : x \in s}
<1>1. left \subseteq Nat /\ left # {}
    <2>1. \A x \in s : n - x \in Nat
        OBVIOUS
    <2> QED
        BY <2>1
<1>2. PICK d \in left : \A k \in left : <<k, d>> \notin OpToRel(<, Nat)
    <2> HIDE DEF left
    <2> QED
        BY <1>1, NatLessThanWellFounded, WFMin
<1>3. PICK x \in s : d = n - x
    OBVIOUS
<1>4. ASSUME NEW y \in s PROVE x >= y
    <2>1. n - y \in left
        OBVIOUS
    <2>2. ~(n - y < d)
        BY <1>1, <1>2, <2>1 DEF OpToRel
    <2> QED
        BY <1>3, <2>2
<1> QED
    BY <1>4 DEF Max

\* The recursive function exists on the sets of a bounded size.
LEMMA LevelsExistUpTo ==
    ASSUME NEW rows, NEW e, NEW ps, NEW m \in Nat
    PROVE  \A n \in Nat : \E g : LevelsOn(g, Small(1..m, n), rows, e, ps)
<1> USE DEF LevelsOn
<1> DEFINE S == 1..m
           Bad == {n \in Nat : ~ \E g : g = [s \in Small(S, n) |-> Level(g, s, rows, e, ps)]}
<1> SUFFICES ASSUME Bad # {} PROVE FALSE
    OBVIOUS
<1>0. IsFiniteSet(S)
    BY FS_Interval
<1>1. PICK n \in Bad : \A k \in Bad : ~(k < n)
    <2>1. Bad \subseteq Nat
        OBVIOUS
    <2> HIDE DEF Bad
    <2>2. PICK n \in Bad : \A k \in Bad : <<k, n>> \notin OpToRel(<, Nat)
        BY <2>1, NatLessThanWellFounded, WFMin
    <2> QED
        BY <2>1, <2>2 DEF OpToRel
<1>2. ASSUME n = 0 PROVE FALSE
    <2> HIDE DEF S
    <2>1. \A s \in Small(S, 0) : s = {}
        BY <1>0, FS_Subset, FS_EmptySet, FS_CardinalityType DEF Small
    <2> DEFINE g == [s \in Small(S, 0) |-> rows]
    <2>2. \A s \in Small(S, 0) : rows = Level(g, s, rows, e, ps)
        BY <2>1 DEF Level
    <2>3. g = [s \in Small(S, 0) |-> Level(g, s, rows, e, ps)]
        BY <2>2
    <2> HIDE DEF g
    <2> QED
        BY <1>2, <2>3
<1>3. ASSUME n > 0 PROVE FALSE
    <2>1. n - 1 \in Nat /\ n - 1 \notin Bad
        BY <1>1, <1>3
    <2>2. PICK g : g = [s \in Small(S, n - 1) |-> Level(g, s, rows, e, ps)]
        BY <2>1
    <2> DEFINE h == [s \in Small(S, n) |-> Level(g, s, rows, e, ps)]
    <2>3. ASSUME NEW s \in Small(S, n), s # {}
          PROVE  s \ {Max(s)} \in Small(S, n - 1)
        <3>1. Max(s) \in s
            BY <2>3, LastIndex DEF Small
        <3> HIDE DEF S
        <3>2. IsFiniteSet(s) /\ Cardinality(s) <= n
            BY <1>0, FS_Subset DEF Small
        <3>3. Cardinality(s \ {Max(s)}) = Cardinality(s) - 1
            BY <3>1, <3>2, FS_RemoveElement
        <3> QED
            BY <3>2, <3>3, FS_CardinalityType DEF Small
    <2> HIDE DEF S
    <2>4. Small(S, n - 1) \subseteq Small(S, n)
        <3>1. \A s \in SUBSET S : Cardinality(s) \in Nat
            BY <1>0, FS_Subset, FS_CardinalityType
        <3> QED
            BY <2>1, <3>1 DEF Small
    <2>5. \A s \in Small(S, n - 1) : h[s] = g[s]
        BY <2>2, <2>4
    <2>6. \A s \in Small(S, n) : Level(g, s, rows, e, ps) = Level(h, s, rows, e, ps)
        <3> HIDE DEF h
        <3> QED
            BY <2>3, <2>5 DEF Level
    <2>7. h = [s \in Small(S, n) |-> Level(h, s, rows, e, ps)]
        BY <2>6
    <2> HIDE DEF h
    <2> QED
        BY <2>7
<1> QED
    BY <1>2, <1>3

\* The recursive function exists on all sets of positions.
LEMMA LevelsExist ==
    ASSUME NEW rows, NEW e, NEW ps, NEW m \in Nat
    PROVE  \E g : LevelsOn(g, SUBSET (1..m), rows, e, ps)
<1>1. IsFiniteSet(1..m) /\ Cardinality(1..m) \in Nat
    BY FS_Interval, FS_CardinalityType
<1>2. Small(1..m, Cardinality(1..m)) = SUBSET (1..m)
    BY <1>1, FS_Subset DEF Small
<1>3. \A n \in Nat : \E g : LevelsOn(g, Small(1..m, n), rows, e, ps)
    BY LevelsExistUpTo
<1>4. \E g : LevelsOn(g, Small(1..m, Cardinality(1..m)), rows, e, ps)
    BY <1>1, <1>3
<1> QED
    BY <1>2, <1>4

\* The result of charging the periods is the value of the recursive function at
\* all their positions.
LEMMA ChargeAllIsFold ==
    ASSUME NEW rows, NEW e, NEW ps \in Seq(PeriodInputs)
    PROVE  \E g : IsLevels(g, rows, e, ps) /\ ChargeAll(rows, e, ps) = g[DOMAIN ps]
<1> DEFINE S == DOMAIN ps
           P(g) == g = [s \in SUBSET S |-> Level(g, s, rows, e, ps)]
           fold == CHOOSE g : P(g)
<1>1. P(fold)
    <2>1. \E g : LevelsOn(g, SUBSET S, rows, e, ps)
        <3>1. S = 1..Len(ps) /\ Len(ps) \in Nat
            BY LenProperties
        <3> HIDE DEF S
        <3> QED
            BY <3>1, LevelsExist
    <2>2. \E g : P(g)
        BY <2>1 DEF LevelsOn
    <2> QED
        BY <2>2, Zenon
<1>2. ChargeAll(rows, e, ps) = fold[S]
    BY DEF ChargeAll, FoldLeft, MapThenFoldSet, Level
<1>3. IsLevels(fold, rows, e, ps)
    <2> HIDE DEF fold
    <2> QED
        BY <1>1 DEF IsLevels
<1> QED
    BY <1>2, <1>3, Zenon

\* The days the periods of a grant draw on a column of a year.
DrawsOf(e, ps, year, column) == [i \in DOMAIN ps |-> Draws(e, ps[i], year, column)]

\* They are natural numbers.
LEMMA DrawsType ==
    ASSUME NEW e, NEW ps \in Seq(PeriodInputs), NEW y, NEW c
    PROVE  /\ \A i \in DOMAIN ps : DrawsOf(e, ps, y, c)[i] = Draws(e, ps[i], y, c)
           /\ \A i \in DOMAIN ps : DrawsOf(e, ps, y, c)[i] \in Int
           /\ IsFiniteSet(DOMAIN ps)
<1>1. \A p \in PeriodInputs : p.days \in Nat
    BY LeaveAssumption DEF PeriodInputs
<1>2. \A i \in DOMAIN ps : ps[i] \in PeriodInputs
    BY LenProperties
<1>3. \A i \in DOMAIN ps : Draws(e, ps[i], y, c) \in Int
    BY <1>1, <1>2 DEF Draws
<1>4. IsFiniteSet(DOMAIN ps)
    BY LenProperties, FS_Interval
<1> QED
    BY <1>3, <1>4 DEF DrawsOf

\* What charging the periods at the positions s makes of the balances.
ChargedAt(new, rows, e, ps, s) ==
    /\ IsBalances(new)
    /\ CarriedOnce(new, e)
    /\ DOMAIN rows \subseteq DOMAIN new
    /\ \A i \in s : ps[i].type \in Columns => YearStart(Joined[e], ps[i].from) \in DOMAIN new
    /\ \A y, c : c \in Columns =>
          Taken(new, y, c) = Taken(rows, y, c) + SumFunctionOnSet(DrawsOf(e, ps, y, c), s)

\* One more position.
LEMMA OneMoreCharged ==
    ASSUME NEW e \in Employees, NEW ps \in Seq(PeriodInputs), NEW rows, IsBalances(rows),
           NEW s \in SUBSET DOMAIN ps, NEW i \in s, NEW mid,
           ChargedAt(mid, rows, e, ps, s \ {i})
    PROVE  ChargedAt(Charge(mid, e, ps[i]), rows, e, ps, s)
<1> DEFINE new == Charge(mid, e, ps[i])
<1>1. ps[i] \in PeriodInputs
    BY LenProperties
<1>2. /\ IsBalances(new)
      /\ CarriedOnce(new, e)
      /\ DOMAIN mid \subseteq DOMAIN new
      /\ ps[i].type \in Columns => YearStart(Joined[e], ps[i].from) \in DOMAIN new
      /\ \A y, c : c \in Columns =>
            Taken(new, y, c) = Taken(mid, y, c) + Draws(e, ps[i], y, c)
    BY <1>1, ChargeKeeps DEF ChargedAt
<1> HIDE DEF new
<1>3. ASSUME NEW y, NEW c \in Columns
      PROVE  Taken(new, y, c) = Taken(rows, y, c) + SumFunctionOnSet(DrawsOf(e, ps, y, c), s)
    <2> DEFINE f == DrawsOf(e, ps, y, c)
    <2>1. IsFiniteSet(s) /\ IsFiniteSet(s \ {i}) /\ \A j \in s : f[j] \in Int
        BY DrawsType, FS_Subset
    <2>2. f[i] = Draws(e, ps[i], y, c)
        <3>1. i \in DOMAIN ps
            OBVIOUS
        <3> QED
            BY <3>1 DEF DrawsOf
    <2> HIDE DEF f
    <2>3. SumFunctionOnSet(f, s) = f[i] + SumFunctionOnSet(f, s \ {i})
        BY <2>1, SumRemove
    <2>4. SumFunctionOnSet(f, s \ {i}) \in Int /\ f[i] \in Int
        BY <2>1, SumType
    <2>5. Taken(mid, y, c) = Taken(rows, y, c) + SumFunctionOnSet(f, s \ {i})
        BY DEF ChargedAt, f
    <2>6. Taken(rows, y, c) \in Int
        BY DEF IsBalances, BalanceRows, Taken
    <2>7. Taken(new, y, c) = Taken(mid, y, c) + f[i]
        BY <1>2, <2>2
    <2> QED
        BY <2>3, <2>4, <2>5, <2>6, <2>7 DEF f
<1>4. \A j \in s : ps[j].type \in Columns => YearStart(Joined[e], ps[j].from) \in DOMAIN new
    BY <1>2 DEF ChargedAt
<1>5. DOMAIN rows \subseteq DOMAIN new
    BY <1>2 DEF ChargedAt
<1> QED
    BY <1>2, <1>3, <1>4, <1>5 DEF ChargedAt, new

\* All of them.
LEMMA ChargeAllKeeps ==
    ASSUME NEW e \in Employees, NEW ps \in Seq(PeriodInputs), NEW rows, IsBalances(rows),
           CarriedOnce(rows, e)
    PROVE  ChargedAt(ChargeAll(rows, e, ps), rows, e, ps, DOMAIN ps)
<1> DEFINE S == DOMAIN ps
<1>0. PICK g : IsLevels(g, rows, e, ps) /\ ChargeAll(rows, e, ps) = g[S]
    BY ChargeAllIsFold
<1>1. /\ \A s \in SUBSET S : g[s] = Level(g, s, rows, e, ps)
      /\ ChargeAll(rows, e, ps) = g[S]
    BY <1>0 DEF IsLevels
<1> DEFINE Bad == {s \in SUBSET S : ~ChargedAt(g[s], rows, e, ps, s)}
<1> SUFFICES ASSUME Bad # {} PROVE FALSE
    BY <1>1
<1>2. IsFiniteSet(S) /\ \E n \in Nat : S = 1..n
    BY LenProperties, FS_Interval
<1>3. PICK T \in Bad : \A U \in SUBSET T : U # T => U \notin Bad
    <2>1. Bad \in SUBSET SUBSET S
        OBVIOUS
    <2> HIDE DEF Bad, S
    <2> QED
        BY <1>2, <2>1, MinimalSubset
<1>4. T \in SUBSET S /\ ~ChargedAt(g[T], rows, e, ps, T)
    OBVIOUS
<1>5. CASE T = {}
    <2>1. g[T] = rows
        BY <1>1, <1>5 DEF Level
    <2>2. \A y, c : c \in Columns => Taken(rows, y, c) \in Int
        BY DEF IsBalances, BalanceRows, Taken
    <2>3. \A y, c : SumFunctionOnSet(DrawsOf(e, ps, y, c), {}) = 0
        BY SumEmpty
    <2>4. ChargedAt(rows, rows, e, ps, {})
        BY <2>2, <2>3 DEF ChargedAt
    <2> QED
        BY <1>4, <1>5, <2>1, <2>4
<1>6. CASE T # {}
    <2> DEFINE i == Max(T)
    <2>1. i \in T
        BY <1>2, <1>4, <1>6, LastIndex
    <2>2. g[T] = Charge(g[T \ {i}], e, ps[i])
        BY <1>1, <1>4, <1>6 DEF Level
    <2> HIDE DEF i
    <2>3. ChargedAt(g[T \ {i}], rows, e, ps, T \ {i})
        BY <1>3, <1>4, <2>1
    <2>4. ChargedAt(Charge(g[T \ {i}], e, ps[i]), rows, e, ps, T)
        BY <1>4, <2>1, <2>3, OneMoreCharged
    <2> QED
        BY <1>4, <2>2, <2>4
<1> QED
    BY <1>5, <1>6

-----------------------------------------------------------------------------
(* The rows of the ledger that draw on a balance *)

\* Those of a ledger L.
DrawingIn(L, e, year, column) ==
    {x \in UNION {{r} \X DOMAIN L[r] : r \in RequestIds} :
        LET p == L[x[1]][x[2]]
        IN  p.party = e /\ p.type = column /\ YearStart(Joined[e], p.from) = year}

\* Their days.
DaysIn(L, X) == SumFunctionOnSet([x \in X |-> L[x[1]][x[2]].days], X)

\* The days drawn are a number.
LEMMA DaysInType ==
    ASSUME NEW L \in [RequestIds -> Seq(LedgerRows)], NEW e, NEW y, NEW c,
           IsFiniteSet(DrawingIn(L, e, y, c))
    PROVE  DaysIn(L, DrawingIn(L, e, y, c)) \in Int
<1> DEFINE X == DrawingIn(L, e, y, c)
           G == [x \in X |-> L[x[1]][x[2]].days]
<1>1. ASSUME NEW x \in X PROVE G[x] \in Int
    <2>1. PICK q \in RequestIds : x \in {q} \X DOMAIN L[q]
        BY DEF DrawingIn
    <2>2. x[1] = q /\ x[2] \in DOMAIN L[q] /\ L[q] \in Seq(LedgerRows)
        BY <2>1
    <2>3. L[q][x[2]] \in LedgerRows
        BY <2>2, LenProperties
    <2> QED
        BY <2>2, <2>3 DEF LedgerRows
<1>2. IsFiniteSet(X)
    OBVIOUS
<1> HIDE DEF X, G
<1>3. SumFunctionOnSet(G, X) \in Int
    BY <1>1, <1>2, SumType
<1> QED
    BY <1>3 DEF DaysIn, G, X

\* The days that rows published for one request draw.
NewDraws(rows, e, year, column) ==
    [i \in DOMAIN rows |->
        IF rows[i].party = e /\ rows[i].type = column
           /\ YearStart(Joined[e], rows[i].from) = year
        THEN rows[i].days ELSE 0]

\* Replacing the rows of one request adds no more than the new rows draw.
LEMMA RowsReplaced ==
    ASSUME NEW L \in [RequestIds -> Seq(LedgerRows)], NEW r \in RequestIds,
           NEW rows \in Seq(LedgerRows), NEW e, NEW y, NEW c,
           IsFiniteSet(DrawingIn(L, e, y, c))
    PROVE  LET M == [L EXCEPT ![r] = rows]
           IN  /\ IsFiniteSet(DrawingIn(M, e, y, c))
               /\ DaysIn(M, DrawingIn(M, e, y, c))
                     <= DaysIn(L, DrawingIn(L, e, y, c))
                        + SumFunctionOnSet(NewDraws(rows, e, y, c), DOMAIN rows)
<1> DEFINE M == [L EXCEPT ![r] = rows]
           old == DrawingIn(L, e, y, c)
           new == DrawingIn(M, e, y, c)
           S == DOMAIN rows
           D == NewDraws(rows, e, y, c)
           Matches(i) == rows[i].party = e /\ rows[i].type = c
                         /\ YearStart(Joined[e], rows[i].from) = y
           kept == {x \in old : x[1] # r}
           N(s) == {<<r, i>> : i \in {j \in s : Matches(j)}}
           F == [x \in RequestIds \X Nat |-> M[x[1]][x[2]].days]
           G == [x \in old |-> L[x[1]][x[2]].days]
<1>1. /\ M \in [RequestIds -> Seq(LedgerRows)] /\ M[r] = rows
      /\ \A q \in RequestIds \ {r} : M[q] = L[q]
    OBVIOUS
<1>2. \A K \in [RequestIds -> Seq(LedgerRows)] : \A q \in RequestIds : \A i \in DOMAIN K[q] :
          i \in Nat /\ K[q][i] \in LedgerRows
    <2> SUFFICES ASSUME NEW K \in [RequestIds -> Seq(LedgerRows)], NEW q \in RequestIds,
                        NEW i \in DOMAIN K[q]
                 PROVE  i \in Nat /\ K[q][i] \in LedgerRows
        OBVIOUS
    <2>1. K[q] \in Seq(LedgerRows)
        OBVIOUS
    <2> QED
        BY <2>1, LenProperties
<1>3. S \subseteq Nat /\ \A i \in S : rows[i] \in LedgerRows /\ rows[i].days \in Nat
    BY LenProperties DEF LedgerRows
<1>4. IsFiniteSet(S)
    BY LenProperties, FS_Interval
<1>5. IsFiniteSet(kept)
    BY FS_Subset
<1>6. \A x \in old : x \in RequestIds \X Nat /\ x[2] \in DOMAIN L[x[1]]
                     /\ G[x] = L[x[1]][x[2]].days /\ G[x] \in Nat
    <2> SUFFICES ASSUME NEW x \in old
                 PROVE  x \in RequestIds \X Nat /\ x[2] \in DOMAIN L[x[1]]
                        /\ L[x[1]][x[2]].days \in Nat
        OBVIOUS
    <2>1. PICK q \in RequestIds : x \in {q} \X DOMAIN L[q]
        BY DEF DrawingIn
    <2>2. x = <<x[1], x[2]>> /\ x[1] = q /\ x[2] \in DOMAIN L[q]
        BY <2>1
    <2>3. x[2] \in Nat /\ L[q][x[2]] \in LedgerRows
        BY <1>2, <2>2
    <2> QED
        BY <2>2, <2>3 DEF LedgerRows
<1>7. \A x \in kept : F[x] = G[x] /\ F[x] \in Nat
    BY <1>1, <1>6
<1>8. new = kept \cup N(S)
    <2>1. ASSUME NEW x \in new PROVE x \in kept \cup N(S)
        <3>1. PICK q \in RequestIds : x \in {q} \X DOMAIN M[q]
            BY DEF DrawingIn
        <3>2. x = <<q, x[2]>> /\ x[1] = q /\ x[2] \in DOMAIN M[q]
            BY <3>1
        <3>3. M[q][x[2]].party = e /\ M[q][x[2]].type = c
              /\ YearStart(Joined[e], M[q][x[2]].from) = y
            BY <3>2 DEF DrawingIn
        <3>4. CASE q = r
            BY <1>1, <3>2, <3>3, <3>4
        <3>5. CASE q # r
            <4>1. M[q] = L[q]
                BY <1>1, <3>5
            <4>2. x \in {q} \X DOMAIN L[q]
                BY <3>1, <4>1
            <4>3. x \in old
                BY <3>2, <3>3, <4>1, <4>2 DEF DrawingIn
            <4> QED
                BY <3>2, <3>5, <4>3
        <3> QED
            BY <3>4, <3>5
    <2>2. ASSUME NEW x \in kept PROVE x \in new
        <3>1. PICK q \in RequestIds : x \in {q} \X DOMAIN L[q]
            BY DEF DrawingIn
        <3>2. x = <<q, x[2]>> /\ x[1] = q /\ x[2] \in DOMAIN L[q] /\ q # r
            BY <3>1
        <3>3. M[q] = L[q]
            BY <1>1, <3>2
        <3>4. x \in {q} \X DOMAIN M[q]
            BY <3>1, <3>3
        <3>5. L[q][x[2]].party = e /\ L[q][x[2]].type = c
              /\ YearStart(Joined[e], L[q][x[2]].from) = y
            BY <3>2 DEF DrawingIn
        <3> QED
            BY <3>2, <3>3, <3>4, <3>5 DEF DrawingIn
    <2>3. ASSUME NEW i \in S, Matches(i) PROVE <<r, i>> \in new
        <3>1. <<r, i>> \in {r} \X DOMAIN M[r]
            BY <1>1
        <3> QED
            BY <1>1, <2>3, <3>1 DEF DrawingIn
    <2> QED
        BY <2>1, <2>2, <2>3
<1>9. \A i \in S : D[i] = (IF Matches(i) THEN rows[i].days ELSE 0) /\ D[i] \in Int
    BY <1>3 DEF NewDraws
<1>10. \A i \in S : F[<<r, i>>] = rows[i].days /\ <<r, i>> \notin kept
    BY <1>1, <1>3
<1> DEFINE Added(X, s) == /\ IsFiniteSet(X)
                          /\ \A x \in X : F[x] \in Int
                          /\ SumFunctionOnSet(F, X)
                                = SumFunctionOnSet(F, kept) + SumFunctionOnSet(D, s)
<1> HIDE DEF M, new, kept, F, G, D, S, Matches
<1>11. SumFunctionOnSet(F, kept) \in Int
    BY <1>5, <1>7, SumType
<1>12. Added(kept \cup N(S), S)
    <2> DEFINE Bad == {s \in SUBSET S : ~Added(kept \cup N(s), s)}
    <2> SUFFICES ASSUME Bad # {} PROVE FALSE
        OBVIOUS
    <2>1. PICK T \in Bad : \A U \in SUBSET T : U # T => U \notin Bad
        <3>1. Bad \in SUBSET SUBSET S
            OBVIOUS
        <3> HIDE DEF Bad
        <3> QED
            BY <1>4, <3>1, MinimalSubset
    <2>2. T \in SUBSET S /\ ~Added(kept \cup N(T), T)
        OBVIOUS
    <2>3. CASE T = {}
        <3>1. kept \cup N({}) = kept
            OBVIOUS
        <3>2. SumFunctionOnSet(D, {}) = 0
            BY SumEmpty
        <3>3. Added(kept, {})
            BY <1>5, <1>7, <1>11, <3>1, <3>2
        <3> QED
            BY <2>2, <2>3, <3>1, <3>3
    <2>4. CASE T # {}
        <3>1. PICK i \in T : TRUE
            BY <2>4
        <3> DEFINE rest == T \ {i}
        <3>2. Added(kept \cup N(rest), rest) /\ rest \in SUBSET S /\ i \in S
            BY <2>1, <2>2, <3>1
        <3>3. IsFiniteSet(T) /\ IsFiniteSet(rest)
            BY <1>4, <2>2, FS_Subset
        <3>4. SumFunctionOnSet(D, T) = D[i] + SumFunctionOnSet(D, rest)
            <4>1. \A j \in T : D[j] \in Int
                BY <1>9, <2>2
            <4>2. i \in T
                BY <3>1
            <4>3. \A x \in T : SumFunctionOnSet(D, T) = D[x] + SumFunctionOnSet(D, T \ {x})
                <5> HIDE DEF Bad, rest
                <5> QED
                    BY <3>3, <4>1, SumRemove
            <4> QED
                BY <4>2, <4>3
        <3>5. SumFunctionOnSet(D, rest) \in Int /\ D[i] \in Int
            BY <1>9, <3>2, <3>3, SumType
        <3>6. CASE Matches(i)
            <4> DEFINE X == kept \cup N(rest)
                       x == <<r, i>>
            <4>1. kept \cup N(T) = X \cup {x}
                BY <2>2, <3>1, <3>6
            <4>2. x \notin X
                BY <1>10, <3>2
            <4>3. F[x] = D[i]
                BY <1>9, <1>10, <3>2, <3>6
            <4>4. IsFiniteSet(X) /\ \A z \in X : F[z] \in Int
                BY <3>2
            <4>5. SumFunctionOnSet(F, X)
                      = SumFunctionOnSet(F, kept) + SumFunctionOnSet(D, rest)
                BY <3>2
            <4> HIDE DEF X, x
            <4>6. SumFunctionOnSet(F, X \cup {x}) = F[x] + SumFunctionOnSet(F, X)
                BY <3>5, <4>2, <4>3, <4>4, SumAdd
            <4>7. IsFiniteSet(X \cup {x})
                BY <4>4, FS_AddElement
            <4>8. \A z \in X \cup {x} : F[z] \in Int
                BY <3>5, <4>3, <4>4
            <4>9. SumFunctionOnSet(F, X \cup {x})
                      = SumFunctionOnSet(F, kept) + SumFunctionOnSet(D, T)
                BY <1>11, <3>4, <3>5, <4>3, <4>5, <4>6
            <4>10. Added(X \cup {x}, T)
                BY <4>7, <4>8, <4>9
            <4> QED
                BY <2>2, <4>1, <4>10
        <3>7. CASE ~Matches(i)
            <4>1. N(T) = N(rest)
                BY <3>1, <3>7
            <4>2. D[i] = 0
                BY <1>9, <3>2, <3>7
            <4>3. SumFunctionOnSet(D, T) = SumFunctionOnSet(D, rest)
                BY <3>4, <3>5, <4>2
            <4>4. Added(kept \cup N(rest), T)
                BY <3>2, <4>3
            <4> QED
                BY <2>2, <4>1, <4>4
        <3> QED
            BY <3>6, <3>7
    <2> QED
        BY <2>3, <2>4
<1>13. DaysIn(M, new) = SumFunctionOnSet(F, new)
    <2> DEFINE H == [x \in new |-> M[x[1]][x[2]].days]
    <2>1. \A x \in new : H[x] = F[x]
        <3>1. \A x \in kept : x \in RequestIds \X Nat
            BY <1>6 DEF kept
        <3>2. ASSUME NEW x \in N(S) PROVE x \in RequestIds \X Nat
            <4>1. PICK i \in S : x = <<r, i>>
                OBVIOUS
            <4>2. i \in Nat
                BY <1>3
            <4> HIDE DEF N
            <4> QED
                BY <4>1, <4>2
        <3> QED
            BY <1>8, <3>1, <3>2 DEF F
    <2>2. IsFiniteSet(new)
        BY <1>8, <1>12
    <2> HIDE DEF H
    <2>3. SumFunctionOnSet(H, new) = SumFunctionOnSet(F, new)
        BY <2>1, <2>2, SumSame
    <2> QED
        BY <2>3 DEF DaysIn, H
<1>14. SumFunctionOnSet(F, kept) <= DaysIn(L, old)
    <2>1. SumFunctionOnSet(F, kept) = SumFunctionOnSet(G, kept)
        BY <1>5, <1>7, SumSame
    <2>2. SumFunctionOnSet(G, kept) <= SumFunctionOnSet(G, old)
        <3>1. kept \in SUBSET old
            BY DEF kept
        <3>2. \A x \in old : G[x] \in Nat
            BY <1>6
        <3>3. IsFiniteSet(old)
            OBVIOUS
        <3> HIDE DEF old
        <3> QED
            BY <3>1, <3>2, <3>3, SumOfPart
    <2> QED
        BY <2>1, <2>2 DEF DaysIn, G
<1>15. SumFunctionOnSet(D, S) \in Int
    BY <1>4, <1>9, SumType
<1>16. DaysIn(L, old) \in Int
    <2>1. \A x \in old : G[x] \in Int
        BY <1>6
    <2>2. IsFiniteSet(old)
        OBVIOUS
    <2> HIDE DEF old
    <2>3. SumFunctionOnSet(G, old) \in Int
        BY <2>1, <2>2, SumType
    <2> QED
        BY <2>3 DEF DaysIn, G
<1>17. IsFiniteSet(new)
    BY <1>8, <1>12
<1>18. DaysIn(M, new) = SumFunctionOnSet(F, kept) + SumFunctionOnSet(D, S)
    BY <1>8, <1>12, <1>13
<1>19. DaysIn(M, new) <= DaysIn(L, old) + SumFunctionOnSet(D, S)
    BY <1>11, <1>14, <1>15, <1>16, <1>18
<1> QED
    BY <1>17, <1>19 DEF M, new, D, S

-----------------------------------------------------------------------------
(* The invariant *)

\* What an employee's balances look like.
BalancesOK ==
    /\ DOMAIN entitlement = Employees
    /\ \A e \in Employees : IsBalances(entitlement[e]) /\ CarriedOnce(entitlement[e], e)

\* A row of the ledger that draws on a balance has one.
RowsHaveBalances ==
    \A r \in RequestIds : \A i \in DOMAIN ledger[r] :
        LET p == ledger[r][i]
        IN  p.type \in Columns => YearStart(Joined[p.party], p.from) \in DOMAIN entitlement[p.party]

\* Each balance was charged at least what the rows of the ledger draw on it.
DaysAreCharged ==
    \A e \in Employees, c \in Columns : \A y \in DOMAIN entitlement[e] :
        /\ IsFiniteSet(DrawingIn(ledger, e, y, c))
        /\ DaysIn(ledger, DrawingIn(ledger, e, y, c)) <= Taken(entitlement[e], y, c)

BalancesInv ==
    /\ ledger \in [RequestIds -> Seq(LedgerRows)]
    /\ BalancesOK
    /\ RowsHaveBalances
    /\ DaysAreCharged

\* What is in the ledger is a row of it.
LEMMA LedgerElements ==
    ASSUME BalancesInv, NEW r \in RequestIds, NEW i \in DOMAIN ledger[r]
    PROVE  ledger[r][i] \in LedgerRows /\ ledger[r][i].party \in Employees
<1>1. ledger[r] \in Seq(LedgerRows)
    BY DEF BalancesInv
<1>2. ledger[r][i] \in LedgerRows
    BY <1>1, LenProperties
<1> QED
    BY <1>2 DEF LedgerRows

\* A balance that has no row is drawn on by no row of the ledger: what
\* DaysAreCharged says of the years there are holds of every year.
LEMMA EveryYearIsCharged ==
    ASSUME BalancesInv, NEW e \in Employees, NEW c \in Columns, NEW y
    PROVE  /\ IsFiniteSet(DrawingIn(ledger, e, y, c))
           /\ DaysIn(ledger, DrawingIn(ledger, e, y, c)) <= Taken(entitlement[e], y, c)
<1>1. CASE y \in DOMAIN entitlement[e]
    BY <1>1 DEF BalancesInv, DaysAreCharged
<1>2. CASE y \notin DOMAIN entitlement[e]
    <2>1. ASSUME NEW x \in DrawingIn(ledger, e, y, c) PROVE FALSE
        <3>1. PICK r \in RequestIds : x \in {r} \X DOMAIN ledger[r]
            BY DEF DrawingIn
        <3>2. x[1] = r /\ x[2] \in DOMAIN ledger[r]
            BY <3>1
        <3>3. ledger[r][x[2]].party = e /\ ledger[r][x[2]].type = c
              /\ YearStart(Joined[e], ledger[r][x[2]].from) = y
            BY <3>2 DEF DrawingIn
        <3> QED
            BY <1>2, <3>2, <3>3 DEF BalancesInv, RowsHaveBalances
    <2> DEFINE X == DrawingIn(ledger, e, y, c)
    <2>2. X = {}
        BY <2>1
    <2> HIDE DEF X
    <2>3. DaysIn(ledger, X) = 0
        BY <2>2, SumEmpty DEF DaysIn
    <2>4. IsFiniteSet(X)
        BY <2>2, FS_EmptySet
    <2> QED
        BY <1>2, <2>3, <2>4 DEF Taken, X
<1> QED
    BY <1>1, <1>2

\* Opening a balance row keeps the books.
LEMMA BalanceOpened ==
    ASSUME BalancesInv, NEW e \in Employees, NEW on \in Nat, ReadBalance(e, on),
           ledger' = ledger
    PROVE  BalancesInv'
<1> DEFINE new == WithRow(entitlement[e], e, on)
<1>1. /\ IsBalances(new)
      /\ CarriedOnce(new, e)
      /\ DOMAIN entitlement[e] \subseteq DOMAIN new
      /\ \A y, c : c \in Columns => Taken(new, y, c) = Taken(entitlement[e], y, c)
    BY WithRowKeeps DEF BalancesInv, BalancesOK
<1>2. /\ DOMAIN entitlement' = Employees
      /\ entitlement'[e] = new
      /\ \A f \in Employees \ {e} : entitlement'[f] = entitlement[f]
    BY DEF ReadBalance, BalancesInv, BalancesOK
<1> HIDE DEF new
<1>3. BalancesOK'
    BY <1>1, <1>2 DEF BalancesInv, BalancesOK
<1>4. RowsHaveBalances'
    <2>1. \A f \in Employees : DOMAIN entitlement[f] \subseteq DOMAIN entitlement'[f]
        BY <1>1, <1>2
    <2>2. \A r \in RequestIds : \A i \in DOMAIN ledger[r] : ledger[r][i].party \in Employees
        BY LedgerElements
    <2> QED
        BY <2>1, <2>2 DEF BalancesInv, RowsHaveBalances
<1>5. DaysAreCharged'
    <2> SUFFICES ASSUME NEW f \in Employees, NEW c \in Columns, NEW y \in DOMAIN entitlement'[f]
                 PROVE  /\ IsFiniteSet(DrawingIn(ledger, f, y, c))
                        /\ DaysIn(ledger, DrawingIn(ledger, f, y, c))
                              <= Taken(entitlement'[f], y, c)
        BY DEF DaysAreCharged
    <2>1. Taken(entitlement'[f], y, c) = Taken(entitlement[f], y, c)
        BY <1>1, <1>2
    <2> QED
        BY <2>1, EveryYearIsCharged
<1> QED
    BY <1>3, <1>4, <1>5 DEF BalancesInv

\* Publishing rows for one party keeps the books, if its balances are charged
\* what the rows draw.
LEMMA RowsPublished ==
    ASSUME BalancesInv, NEW r \in RequestIds, NEW rows \in Seq(LedgerRows),
           NEW e \in Employees, NEW new, IsBalances(new), CarriedOnce(new, e),
           DOMAIN entitlement[e] \subseteq DOMAIN new,
           \A i \in DOMAIN rows :
              /\ rows[i].party = e
              /\ rows[i].type \in Columns => YearStart(Joined[e], rows[i].from) \in DOMAIN new,
           \A y, c : c \in Columns =>
              Taken(entitlement[e], y, c)
                 + SumFunctionOnSet(NewDraws(rows, e, y, c), DOMAIN rows) <= Taken(new, y, c),
           ledger' = [ledger EXCEPT ![r] = rows],
           DOMAIN entitlement' = Employees, entitlement'[e] = new,
           \A f \in Employees \ {e} : entitlement'[f] = entitlement[f]
    PROVE  BalancesInv'
<1>1. /\ ledger' \in [RequestIds -> Seq(LedgerRows)] /\ ledger'[r] = rows
      /\ \A q \in RequestIds \ {r} : ledger'[q] = ledger[q]
    BY DEF BalancesInv
<1>2. BalancesOK'
    BY DEF BalancesInv, BalancesOK
<1>3. RowsHaveBalances'
    <2> SUFFICES ASSUME NEW q \in RequestIds, NEW i \in DOMAIN ledger'[q],
                        ledger'[q][i].type \in Columns
                 PROVE  YearStart(Joined[ledger'[q][i].party], ledger'[q][i].from)
                            \in DOMAIN entitlement'[ledger'[q][i].party]
        BY DEF RowsHaveBalances
    <2>1. CASE q = r
        BY <1>1, <2>1
    <2>2. CASE q # r
        <3>1. ledger[q][i].party \in Employees
            BY <1>1, <2>2, LedgerElements
        <3>2. YearStart(Joined[ledger[q][i].party], ledger[q][i].from)
                  \in DOMAIN entitlement[ledger[q][i].party]
            BY <1>1, <2>2 DEF BalancesInv, RowsHaveBalances
        <3>3. DOMAIN entitlement[ledger[q][i].party]
                  \subseteq DOMAIN entitlement'[ledger[q][i].party]
            BY <3>1
        <3> QED
            BY <1>1, <2>2, <3>2, <3>3
    <2> QED
        BY <2>1, <2>2
<1>4. DaysAreCharged'
    <2> SUFFICES ASSUME NEW f \in Employees, NEW c \in Columns, NEW y \in DOMAIN entitlement'[f]
                 PROVE  /\ IsFiniteSet(DrawingIn(ledger', f, y, c))
                        /\ DaysIn(ledger', DrawingIn(ledger', f, y, c))
                              <= Taken(entitlement'[f], y, c)
        BY DEF DaysAreCharged
    <2> DEFINE old == DaysIn(ledger, DrawingIn(ledger, f, y, c))
               added == SumFunctionOnSet(NewDraws(rows, f, y, c), DOMAIN rows)
    <2>1. ledger \in [RequestIds -> Seq(LedgerRows)]
        BY DEF BalancesInv
    <2>2. IsFiniteSet(DrawingIn(ledger, f, y, c)) /\ old <= Taken(entitlement[f], y, c)
        BY EveryYearIsCharged
    <2>3. /\ IsFiniteSet(DrawingIn(ledger', f, y, c))
          /\ DaysIn(ledger', DrawingIn(ledger', f, y, c)) <= old + added
        BY <2>1, <2>2, RowsReplaced
    <2>4. IsFiniteSet(DOMAIN rows) /\ \A i \in DOMAIN rows : rows[i].days \in Nat
        BY LenProperties, FS_Interval DEF LedgerRows
    <2>5. added \in Int
        <3> DEFINE D == NewDraws(rows, f, y, c)
        <3>1. \A i \in DOMAIN rows : D[i] \in Int
            BY <2>4 DEF NewDraws
        <3> HIDE DEF D
        <3>2. SumFunctionOnSet(D, DOMAIN rows) \in Int
            BY <2>4, <3>1, SumType
        <3> QED
            BY <3>2 DEF D
    <2>6. old \in Int /\ DaysIn(ledger', DrawingIn(ledger', f, y, c)) \in Int
        BY <1>1, <2>1, <2>2, <2>3, DaysInType
    <2>7. Taken(entitlement[f], y, c) \in Int /\ Taken(entitlement'[f], y, c) \in Int
        <3>1. IsBalances(entitlement[f]) /\ IsBalances(entitlement'[f])
            BY <1>2 DEF BalancesInv, BalancesOK
        <3> QED
            BY <3>1 DEF IsBalances, BalanceRows, Taken
    <2>8. Taken(entitlement[f], y, c) + added <= Taken(entitlement'[f], y, c)
        <3>1. CASE f = e
            BY <3>1
        <3>2. CASE f # e
            <4> DEFINE D == NewDraws(rows, f, y, c)
            <4>1. \A i \in DOMAIN rows : D[i] = 0
                BY <3>2 DEF NewDraws
            <4> HIDE DEF D
            <4>2. SumFunctionOnSet(D, DOMAIN rows) = 0 * Cardinality(DOMAIN rows)
                BY <2>4, <4>1, SumConstant
            <4>3. Cardinality(DOMAIN rows) \in Nat
                BY <2>4, FS_CardinalityType
            <4>4. added = 0
                BY <4>2, <4>3 DEF D
            <4>5. entitlement'[f] = entitlement[f]
                BY <3>2
            <4> HIDE DEF added
            <4> QED
                BY <2>7, <4>4, <4>5
        <3> QED
            BY <3>1, <3>2
    <2> HIDE DEF old, added
    <2> QED
        BY <2>2, <2>3, <2>5, <2>6, <2>7, <2>8
<1> QED
    BY <1>1, <1>2, <1>3, <1>4 DEF BalancesInv

\* The rows an approval publishes are rows of the ledger.
LEMMA PublishedRows ==
    ASSUME NEW e \in Employees, NEW ps \in Seq(PeriodInputs)
    PROVE  /\ Published(e, ps) \in Seq(LedgerRows)
           /\ DOMAIN Published(e, ps) = DOMAIN ps
           /\ \A i \in DOMAIN ps : /\ Published(e, ps)[i].party = e
                                   /\ Published(e, ps)[i].type = ps[i].type
                                   /\ Published(e, ps)[i].from = ps[i].from
                                   /\ Published(e, ps)[i].days = ps[i].days
<1>1. DOMAIN ps = 1..Len(ps) /\ Len(ps) \in Nat
    BY LenProperties
<1>2. \A p \in PeriodInputs :
          /\ p.type \in Types /\ p.from \in Nat \ {0} /\ p.to \in Nat /\ p.from <= p.to
          /\ p.days \in Nat \ {0}
    BY LeaveAssumption DEF PeriodInputs
<1>3. \A i \in 1..Len(ps) : ps[i] \in PeriodInputs
    BY LenProperties
<1>4. \A i \in 1..Len(ps) :
          [party |-> e, type |-> ps[i].type, from |-> ps[i].from, to |-> ps[i].to,
           days |-> ps[i].days] \in LedgerRows
    BY <1>2, <1>3 DEF LedgerRows
<1>5. Published(e, ps) \in [1..Len(ps) -> LedgerRows]
    BY <1>1, <1>4 DEF Published
<1>6. Published(e, ps) \in Seq(LedgerRows)
    BY <1>1, <1>5, SequenceOfFunction
<1> QED
    BY <1>1, <1>6 DEF Published

\* They draw what their periods draw.
LEMMA PublishedDraws ==
    ASSUME NEW e \in Employees, NEW ps \in Seq(PeriodInputs), NEW y, NEW c
    PROVE  SumFunctionOnSet(NewDraws(Published(e, ps), e, y, c), DOMAIN Published(e, ps))
               = SumFunctionOnSet(DrawsOf(e, ps, y, c), DOMAIN ps)
<1> DEFINE f == NewDraws(Published(e, ps), e, y, c)
           g == DrawsOf(e, ps, y, c)
<1>1. DOMAIN Published(e, ps) = DOMAIN ps
    BY PublishedRows
<1>2. \A i \in DOMAIN ps : f[i] = g[i]
    BY PublishedRows DEF NewDraws, DrawsOf, Draws
<1>3. IsFiniteSet(DOMAIN ps)
    BY LenProperties, FS_Interval
<1> HIDE DEF f, g
<1>4. SumFunctionOnSet(f, DOMAIN ps) = SumFunctionOnSet(g, DOMAIN ps)
    BY <1>2, <1>3, SumSame
<1> QED
    BY <1>1, <1>4 DEF f, g

\* Every step keeps the books.
LEMMA BalancesStep ==
    ASSUME LedgerInv, BalancesInv, [Next]_vars
    PROVE  BalancesInv'
<1>1. ASSUME NEW r \in RequestIds, NEW e \in Employees, NEW range \in Ranges,
             File(r, e, range)
      PROVE  BalancesInv'
    <2>1. range[1] \in Nat
        BY LeaveAssumption
    <2> QED
        BY <1>1, <2>1, BalanceOpened DEF File
<1>2. ASSUME NEW r \in RequestIds, OpenApprovalForm(r) PROVE BalancesInv'
    <2>1. request[r] \in RequestRows
        BY <1>2 DEF OpenApprovalForm, Pending, Exists, LedgerInv, TablesOK
    <2>2. request[r].party \in Employees /\ request[r].from \in Nat
        BY <2>1 DEF RequestRows
    <2> QED
        BY <1>2, <2>2, BalanceOpened DEF OpenApprovalForm
<1>3. ASSUME UNCHANGED <<ledger, entitlement>> PROVE BalancesInv'
    BY <1>3 DEF BalancesInv, BalancesOK, RowsHaveBalances, DaysAreCharged
<1>4. ASSUME NEW s \in Sessions, CommitApprove(s) PROVE BalancesInv'
    <2> DEFINE r == session[s].id
               e == session[s].party
               ps == session[s].periods
               rows == Published(e, ps)
               new == ChargeAll(entitlement[e], e, ps)
    <2>1. session[s].op = "approve" /\ session[s] \in SessionStates
        BY <1>4 DEF CommitApprove, LedgerInv, TablesOK
    <2>2. r \in RequestIds /\ e \in Employees /\ ps \in Seq(PeriodInputs)
        BY <2>1 DEF SessionStates, Idle
    <2>3. /\ ledger' = [ledger EXCEPT ![r] = rows]
          /\ entitlement' = [entitlement EXCEPT ![e] = new]
        BY <1>4 DEF CommitApprove, ChargeAll
    <2> HIDE DEF r, e, ps
    <2>4. /\ IsBalances(entitlement[e]) /\ CarriedOnce(entitlement[e], e)
          /\ DOMAIN entitlement = Employees
        BY <2>2 DEF BalancesInv, BalancesOK
    <2>5. ChargedAt(new, entitlement[e], e, ps, DOMAIN ps)
        BY <2>2, <2>4, ChargeAllKeeps
    <2>6. /\ DOMAIN entitlement' = Employees /\ entitlement'[e] = new
          /\ \A f \in Employees \ {e} : entitlement'[f] = entitlement[f]
        BY <2>2, <2>3, <2>4
    <2> HIDE DEF new
    <2>7. /\ rows \in Seq(LedgerRows)
          /\ \A i \in DOMAIN rows :
                /\ rows[i].party = e
                /\ rows[i].type \in Columns =>
                      YearStart(Joined[e], rows[i].from) \in DOMAIN new
        BY <2>2, <2>5, PublishedRows DEF ChargedAt
    <2>8. ASSUME NEW y, NEW c \in Columns
          PROVE  Taken(entitlement[e], y, c)
                    + SumFunctionOnSet(NewDraws(rows, e, y, c), DOMAIN rows) <= Taken(new, y, c)
        <3>1. SumFunctionOnSet(NewDraws(rows, e, y, c), DOMAIN rows)
                  = SumFunctionOnSet(DrawsOf(e, ps, y, c), DOMAIN ps)
            BY <2>2, PublishedDraws
        <3>2. Taken(new, y, c)
                  = Taken(entitlement[e], y, c) + SumFunctionOnSet(DrawsOf(e, ps, y, c), DOMAIN ps)
            BY <2>5 DEF ChargedAt
        <3>3. Taken(new, y, c) \in Nat
            BY <2>5 DEF ChargedAt, IsBalances, BalanceRows, Taken
        <3> QED
            BY <3>1, <3>2, <3>3
    <2>9. /\ IsBalances(new) /\ CarriedOnce(new, e) /\ DOMAIN entitlement[e] \subseteq DOMAIN new
        BY <2>5 DEF ChargedAt
    <2> HIDE DEF rows
    <2> QED
        BY <2>2, <2>3, <2>6, <2>7, <2>8, <2>9, RowsPublished
<1>5. ASSUME NEW s \in Sessions, CommitReject(s) PROVE BalancesInv'
    <2> DEFINE r == session[s].id
               e == request[r].party
               rows == <<>>
    <2>1. session[s] # Idle
        BY <1>5 DEF CommitReject, Idle
    <2>2. r \in RequestIds /\ request[r] \in RequestRows
        BY <2>1, SessionKinds DEF LedgerInv
    <2>3. e \in Employees
        BY <2>2 DEF RequestRows
    <2>4. ledger' = [ledger EXCEPT ![r] = <<>>] /\ entitlement' = entitlement
        BY <1>5 DEF CommitReject
    <2>5. /\ rows \in Seq(LedgerRows) /\ DOMAIN rows = {}
        BY EmptySeq
    <2> HIDE DEF r, e, rows
    <2>6. /\ IsBalances(entitlement[e]) /\ CarriedOnce(entitlement[e], e)
          /\ DOMAIN entitlement = Employees
        BY <2>3 DEF BalancesInv, BalancesOK
    <2>7. ASSUME NEW y, NEW c \in Columns
          PROVE  Taken(entitlement[e], y, c)
                    + SumFunctionOnSet(NewDraws(rows, e, y, c), DOMAIN rows)
                 <= Taken(entitlement[e], y, c)
        <3>1. SumFunctionOnSet(NewDraws(rows, e, y, c), DOMAIN rows) = 0
            BY <2>5, SumEmpty
        <3>2. Taken(entitlement[e], y, c) \in Nat
            BY <2>6 DEF IsBalances, BalanceRows, Taken
        <3> QED
            BY <3>1, <3>2
    <2>8. ledger' = [ledger EXCEPT ![r] = rows]
        BY <2>4 DEF rows
    <2> QED
        BY <2>2, <2>3, <2>4, <2>5, <2>6, <2>7, <2>8, RowsPublished
<1> QED
    BY <1>1, <1>2, <1>3, <1>4, <1>5
       DEF Next, QueueNext, SessionNext, vars, Delete, OpenEdit, SaveEdit, DeleteFromEdit,
           CloseEdit, BeginApprove, BeginReject

\* The inductive invariant: the books agree, on top of the ledger being approved.
THEOREM BalancesInvariance == Spec => [](LedgerInv /\ BalancesInv)
<1>1. Init => LedgerInv
    BY EmptySeq DEF Init, LedgerInv, TablesOK, SessionsNameRows, LedgerIsApproved, SessionStates
<1>2. Init => BalancesInv
    <2> SUFFICES ASSUME Init PROVE BalancesInv
        OBVIOUS
    <2>1. ledger \in [RequestIds -> Seq(LedgerRows)]
          /\ \A r \in RequestIds : ledger[r] = <<>> /\ DOMAIN ledger[r] = {}
        BY EmptySeq DEF Init
    <2>2. DOMAIN entitlement = Employees
          /\ \A e \in Employees : entitlement[e] = <<>> /\ DOMAIN entitlement[e] = {}
        BY DEF Init
    <2>a. <<>> \in [{} -> BalanceRows]
        BY EmptySeq
    <2>3. BalancesOK
        BY <2>2, <2>a DEF BalancesOK, IsBalances, CarriedOnce
    <2> QED
        BY <2>1, <2>2, <2>3 DEF BalancesInv, RowsHaveBalances, DaysAreCharged
<1>3. LedgerInv /\ BalancesInv /\ [Next]_vars => (LedgerInv /\ BalancesInv)'
    BY LedgerStep, BalancesStep
<1> QED
    BY <1>1, <1>2, <1>3, PTL DEF Spec

\* The tables keep their types, whatever is filed, edited or decided.
THEOREM LeaveTablesKeepTypes == Spec => []TypeOK
<1>1. LedgerInv /\ BalancesInv => TypeOK
    <2> SUFFICES ASSUME LedgerInv, BalancesInv PROVE TypeOK
        OBVIOUS
    <2>1. ASSUME NEW r \in RequestIds
          PROVE  /\ request[r] \in RequestRows \cup {None}
                 /\ granted[r] \in Seq(PeriodInputs)
        BY DEF LedgerInv, TablesOK
    <2>2. ASSUME NEW r \in RequestIds, NEW i \in DOMAIN ledger[r]
          PROVE  ledger[r][i].party \in Employees
        BY LedgerElements
    <2>3. ASSUME NEW e \in Employees, NEW y \in DOMAIN entitlement[e]
          PROVE  entitlement[e][y] \in [entitled : Nat, taken : [Columns -> Nat]]
        BY DEF BalancesInv, BalancesOK, IsBalances, BalanceRows
    <2> QED
        BY <2>1, <2>2, <2>3 DEF TypeOK
<1> QED
    BY <1>1, BalancesInvariance, PTL

\* No day in the ledger escapes the balance it draws on: whatever crossed, each
\* balance row exists and was charged at least the days of the leaves that draw
\* on it (LeaveRequestService::recordAgainstEntitlement).
THEOREM EveryLeaveIsCharged == Spec => []LedgerIsCharged
<1>1. BalancesInv => LedgerIsCharged
    <2> SUFFICES ASSUME BalancesInv, NEW r \in RequestIds, NEW i \in DOMAIN ledger[r],
                        ledger[r][i].type \in Columns
                 PROVE  LET p    == ledger[r][i]
                            year == YearStart(Joined[p.party], p.from)
                        IN  /\ year \in DOMAIN entitlement[p.party]
                            /\ SumFunction([x \in Drawing(p.party, year, p.type) |->
                                                ledger[x[1]][x[2]].days])
                                  <= entitlement[p.party][year].taken[p.type]
        BY DEF LedgerIsCharged
    <2> DEFINE p == ledger[r][i]
               year == YearStart(Joined[p.party], p.from)
               e == p.party
               c == p.type
    <2>1. e \in Employees
        BY LedgerElements
    <2>2. year \in DOMAIN entitlement[e]
        BY DEF BalancesInv, RowsHaveBalances
    <2>3. c \in Columns
        OBVIOUS
    <2> HIDE DEF year, e, c
    <2>4. DaysIn(ledger, DrawingIn(ledger, e, year, c)) <= Taken(entitlement[e], year, c)
        BY <2>1, <2>2, <2>3 DEF BalancesInv, DaysAreCharged
    <2>5. Taken(entitlement[e], year, c) = entitlement[e][year].taken[c]
        BY <2>2 DEF Taken
    <2>6. Drawing(e, year, c) = DrawingIn(ledger, e, year, c)
        BY DEF Drawing, DrawingIn
    <2>7. SumFunction([x \in Drawing(e, year, c) |-> ledger[x[1]][x[2]].days])
              = DaysIn(ledger, DrawingIn(ledger, e, year, c))
        BY <2>6 DEF SumFunction, DaysIn
    <2> QED
        BY <2>2, <2>4, <2>5, <2>7 DEF year, e, c
<1> QED
    BY <1>1, BalancesInvariance, PTL

\* An employee's opening balance is carried by one of the balance rows, whatever
\* order their service years are first touched in (LeaveEntitlementService::forDate).
THEOREM OpeningIsCarriedOnce == Spec => []OpeningBalanceOnce
<1>1. BalancesInv => OpeningBalanceOnce
    <2> SUFFICES ASSUME BalancesInv, NEW e \in Employees, Shows(e), entitlement[e] # <<>>
                 PROVE  Cardinality({y \in DOMAIN entitlement[e] :
                                        entitlement[e][y].entitled >= Opening[e]}) = 1
        BY DEF OpeningBalanceOnce, Shows
    <2>1. entitlement[e] \in [DOMAIN entitlement[e] -> BalanceRows]
        BY DEF BalancesInv, BalancesOK, IsBalances
    <2>2. DOMAIN entitlement[e] # {}
        <3>1. ASSUME DOMAIN entitlement[e] = {} PROVE entitlement[e] = <<>>
            BY <2>1, <3>1
        <3> QED
            BY <3>1
    <2>3. PICK first \in DOMAIN entitlement[e] : \A y \in DOMAIN entitlement[e] :
              entitlement[e][y].entitled >= Opening[e] <=> y = first
        BY <2>2 DEF BalancesInv, BalancesOK, CarriedOnce
    <2>4. {y \in DOMAIN entitlement[e] : entitlement[e][y].entitled >= Opening[e]} = {first}
        BY <2>3
    <2> QED
        BY <2>4, FS_Singleton
<1> QED
    BY <1>1, BalancesInvariance, PTL

\* A leave granted for every day of its dates loses its pay once over the months
\* it touches, wherever the month boundaries fall (PayrollService::daysInWindow).
THEOREM FullDaysLoseTheirPayOnce == Spec => []FullDaysAreWithheldOnce
<1>1. BalancesInv => FullDaysAreWithheldOnce
    <2> SUFFICES ASSUME BalancesInv, NEW r \in RequestIds, NEW i \in DOMAIN ledger[r],
                        ledger[r][i].days = ledger[r][i].to - ledger[r][i].from + 1
                 PROVE  SumFunction([m \in 1..(ledger[r][i].to + 1) |->
                                        UnpaidHalves(ledger[r][i], m)])
                            = ledger[r][i].days * HalvesLost(ledger[r][i].type)
        BY DEF FullDaysAreWithheldOnce
    <2>1. ledger[r][i] \in LedgerRows
        BY LedgerElements
    <2> QED
        BY <2>1, MonthsAddUp
<1> QED
    BY <1>1, BalancesInvariance, PTL
=============================================================================
