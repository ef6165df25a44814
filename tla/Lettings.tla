------------------------------- MODULE Lettings -------------------------------
(***************************************************************************)
(* The property side: quotations (QuotationService), leases and the status   *)
(* of their units (LeaseService), the instalment schedule of a lease         *)
(* (InstallmentGenerator), payments against it (PaymentService) and the      *)
(* scheduled flagging of overdue rent (FlagOverdueInstallments).             *)
(*                                                                         *)
(* The panel runs each request in a transaction, one after another here;     *)
(* the overdue command loads its list first and then writes row by row, so   *)
(* requests fall in between.  A schedule is one instalment of the whole      *)
(* rent: how a rent is split and taxed is left out.                          *)
(***************************************************************************)
EXTENDS Naturals, FiniteSets

CONSTANTS
    Leases,          \* ids of leases rows
    Units,           \* units rows
    Quotations,      \* identities of quotations rows
    QuotedUnits,     \* inputs: the units a quotation offers
    QuotedRent,      \* inputs: the rent it asks for them
    Billed,          \* bound: the leases a schedule is made for
    UnitEdits,       \* inputs: the status field of the unit form
    Rents,           \* inputs: the total_base_rent field of the lease forms
    Payments,        \* inputs: the amount field of Record Payment
    Penalty,         \* pms_bounced_cheque_penalty
    MaxLedger,       \* bound: the money recorded for one instalment
    None             \* SQL NULL, or no such row

\* LeaseStatus and UnitStatus; "none" is a missing row.  Nothing in the code
\* makes a lease a quotation or lets it expire.
LeaseStatuses == {"draft", "pending_attestation", "active", "renewed", "terminated", "expired"}
UnitStatuses == {"vacant", "occupied", "under_maintenance", "reserved"}
QuotationStatuses == {"none", "draft", "sent", "accepted", "rejected", "expired"}
InstalmentStatuses == {"pending", "paid", "partial", "overdue", "bounced"}

ASSUME LettingsAssumption ==
    /\ IsFiniteSet(Leases) /\ Leases \subseteq Nat
    /\ QuotedUnits \subseteq Units /\ QuotedUnits # {}
    /\ QuotedRent \in Rents
    /\ Billed \subseteq Leases
    /\ UnitEdits \subseteq UnitStatuses
    /\ Rents \subseteq Nat
    /\ Payments \subseteq Nat \ {0}
    /\ Penalty \in Nat
    /\ MaxLedger \in Nat
    /\ None \notin Leases

LeaseRows == [status : LeaseStatuses \cup {"none"},
              units  : SUBSET Units,
              rent   : Rents \cup {0},
              from   : Leases \cup {None}]

NoLease == [status |-> "none", units |-> {}, rent |-> 0, from |-> None]

InstalmentRows == [due     : Nat,
                   penalty : Nat,
                   paid    : Nat,
                   balance : Nat,
                   status  : InstalmentStatuses]

ASSUME NoInstalmentAssumption == None \notin InstalmentRows

VARIABLES
    quotation,   \* status of each quotation
    lease,       \* leases with their lease_unit rows
    unit,        \* status of each unit
    instalment,  \* the instalment of each lease
    ledger,      \* the sum of its installment_payments rows
    received,    \* history: the money it received since a cheque last bounced
    lapsed,      \* the leases whose instalment is past its grace period
    sweep        \* the instalments the overdue command has loaded and not done

leaseVars == <<quotation, lease, unit>>
rentVars == <<instalment, ledger, received, lapsed, sweep>>
vars == <<quotation, lease, unit, instalment, ledger, received, lapsed, sweep>>

Less(a, b) == IF a > b THEN a - b ELSE 0

-----------------------------------------------------------------------------
(* Quotations *)

MoveQuotation(q, from, to) ==
    /\ quotation[q] \in from
    /\ quotation' = [quotation EXCEPT ![q] = to]
    /\ UNCHANGED <<lease, unit>>
    /\ UNCHANGED rentVars

GenerateQuotation(q) == MoveQuotation(q, {"none"}, "draft")
Send(q)   == MoveQuotation(q, {"draft"}, "sent")
Accept(q) == MoveQuotation(q, {"sent"}, "accepted")
Reject(q) == MoveQuotation(q, {"sent"}, "rejected")

-----------------------------------------------------------------------------
(* Leases and units *)

\* The units named become occupied, whatever they were.
Occupied(units) == [u \in Units |-> IF u \in units THEN "occupied" ELSE unit[u]]
Vacated(units)  == [u \in Units |-> IF u \in units THEN "vacant" ELSE unit[u]]

\* The ids are an auto-increment column: a new lease gets the next one.
NextId(l) == lease[l].status = "none" /\ \A m \in Leases : m < l => lease[m].status # "none"

\* draft(): the row and its units; nothing asks whether they are vacant.
Drafted(l, units, rent, from) ==
    [status |-> "draft", units |-> units, rent |-> rent, from |-> from]

\* A schedule of one instalment for a rent.
Bill(rent) == [due |-> rent, penalty |-> 0, paid |-> 0, balance |-> rent, status |-> "pending"]

\* The wizard: the lease and the schedule it declares, in one transaction.
CreateLease(l, units, rent) ==
    /\ NextId(l)
    /\ units # {}
    /\ lease' = [lease EXCEPT ![l] = Drafted(l, units, rent, None)]
    /\ unit' = Occupied(units)
    /\ instalment' = [instalment EXCEPT ![l] = IF l \in Billed THEN Bill(rent) ELSE None]
    /\ UNCHANGED <<quotation, ledger, received, lapsed, sweep>>

\* An accepted quotation stays accepted, and may be converted again.
CreateFromQuotation(l, q) ==
    /\ NextId(l)
    /\ quotation[q] = "accepted"
    /\ lease' = [lease EXCEPT ![l] = Drafted(l, QuotedUnits, QuotedRent, None)]
    /\ unit' = Occupied(QuotedUnits)
    /\ UNCHANGED quotation
    /\ UNCHANGED rentVars

\* Mutation of Renew: a lease that was renewed already is renewed again.
MutRenewAgain(l, old, rent) ==
    /\ NextId(l)
    /\ lease[old].status \in {"active", "expired", "renewed"}
    /\ lease' = [lease EXCEPT ![l] = Drafted(l, lease[old].units, rent, old),
                              ![old].status = "renewed"]
    /\ unit' = Occupied(lease[old].units)
    /\ UNCHANGED quotation
    /\ UNCHANGED rentVars

Renew(l, old, rent) ==
    /\ NextId(l)
    /\ lease[old].status \in {"active", "expired"}
    /\ lease' = [lease EXCEPT ![l] = Drafted(l, lease[old].units, rent, old),
                              ![old].status = "renewed"]
    /\ unit' = Occupied(lease[old].units)
    /\ UNCHANGED quotation
    /\ UNCHANGED rentVars

\* Mutation of UpdateDraft: every unit the draft had goes back on the market.
MutVacateAll(l, units, rent) ==
    /\ lease[l].status = "draft"
    /\ units # {}
    /\ lease' = [lease EXCEPT ![l] = [@ EXCEPT !.units = units, !.rent = rent]]
    /\ unit' = [u \in Units |-> CASE u \in lease[l].units -> "vacant"
                                  [] u \in units \ lease[l].units -> "occupied"
                                  [] OTHER -> unit[u]]
    /\ UNCHANGED quotation
    /\ UNCHANGED rentVars

\* Corrects the units and the rent; a schedule already there is not touched.
UpdateDraft(l, units, rent) ==
    /\ lease[l].status = "draft"
    /\ units # {}
    /\ lease' = [lease EXCEPT ![l] = [@ EXCEPT !.units = units, !.rent = rent]]
    /\ unit' = [u \in Units |-> CASE u \in lease[l].units \ units -> "vacant"
                                  [] u \in units \ lease[l].units -> "occupied"
                                  [] OTHER -> unit[u]]
    /\ UNCHANGED quotation
    /\ UNCHANGED rentVars

SubmitForAttestation(l) ==
    /\ lease[l].status = "draft"
    /\ lease' = [lease EXCEPT ![l].status = "pending_attestation"]
    /\ UNCHANGED <<quotation, unit>>
    /\ UNCHANGED rentVars

\* Mutation of Attest: the page offers it for any lease; the service asks nothing.
MutAttestAny(l) ==
    /\ lease[l].status # "none"
    /\ lease' = [lease EXCEPT ![l].status = "active"]
    /\ UNCHANGED <<quotation, unit>>
    /\ UNCHANGED rentVars

\* The service writes ACTIVE whatever the status; the page offers it while the
\* attestation is pending.
Attest(l) ==
    /\ lease[l].status = "pending_attestation"
    /\ lease' = [lease EXCEPT ![l].status = "active"]
    /\ UNCHANGED <<quotation, unit>>
    /\ UNCHANGED rentVars

\* Mutation of Terminate: the lease is given the status of its units.
MutVacantLease(l) ==
    /\ lease[l].status \notin {"none", "terminated", "expired"}
    /\ lease' = [lease EXCEPT ![l].status = "vacant"]
    /\ unit' = Vacated(lease[l].units)
    /\ UNCHANGED quotation
    /\ UNCHANGED rentVars

\* A draft or a renewed lease may be terminated too; its units go back on the
\* market whatever other lease covers them.
Terminate(l) ==
    /\ lease[l].status \notin {"none", "terminated", "expired"}
    /\ lease' = [lease EXCEPT ![l].status = "terminated"]
    /\ unit' = Vacated(lease[l].units)
    /\ UNCHANGED quotation
    /\ UNCHANGED rentVars

\* The unit form sets any status.
EditUnit(u, status) ==
    /\ unit' = [unit EXCEPT ![u] = status]
    /\ UNCHANGED <<quotation, lease>>
    /\ UNCHANGED rentVars

-----------------------------------------------------------------------------
(* Instalments and payments *)

\* Generate Schedule, once for a lease, of any status.
GenerateSchedule(l) ==
    /\ l \in Billed
    /\ lease[l].status # "none"
    /\ instalment[l] = None
    /\ instalment' = [instalment EXCEPT ![l] = Bill(lease[l].rent)]
    /\ UNCHANGED leaseVars
    /\ UNCHANGED <<ledger, received, lapsed, sweep>>

\* Mutation of Settled: the penalty is not asked for.
MutNoPenalty(row, total) ==
    [row EXCEPT !.paid    = total,
                !.balance = Less(row.due, total),
                !.status  = IF total >= row.due THEN "paid" ELSE "partial"]

\* An instalment with its running totals taken from the ledger.
Settled(row, total) ==
    LET balance == Less(row.due + row.penalty, total)
    IN  [due     |-> row.due,
         penalty |-> row.penalty,
         paid    |-> total,
         balance |-> balance,
         status  |-> IF balance = 0 THEN "paid" ELSE "partial"]

\* A row in the ledger, then the totals from the whole of it.  Nothing joins the
\* two writes and the page catches what the second one throws: the row may stay
\* without its totals, until the next payment.
RecordPayment(l, amount) ==
    /\ instalment[l] # None
    /\ instalment[l].status # "paid"
    /\ ledger[l] + amount <= MaxLedger
    /\ ledger' = [ledger EXCEPT ![l] = @ + amount]
    /\ received' = [received EXCEPT ![l] = @ + amount]
    /\ \/ instalment' = [instalment EXCEPT ![l] = Settled(@, ledger[l] + amount)]
       \/ UNCHANGED instalment
    /\ UNCHANGED leaseVars
    /\ UNCHANGED <<lapsed, sweep>>

\* What has been collected is owed again, and the penalty with it.
Bounced(row) ==
    [due     |-> row.due,
     penalty |-> Penalty,
     paid    |-> 0,
     balance |-> row.due + Penalty,
     status  |-> "bounced"]

\* A bounced cheque: the instalment's totals are reset, the ledger is kept.
MarkBounced(l) ==
    /\ instalment[l] # None
    /\ instalment[l].status # "paid"
    /\ instalment' = [instalment EXCEPT ![l] = Bounced(@)]
    /\ received' = [received EXCEPT ![l] = 0]
    /\ UNCHANGED leaseVars
    /\ UNCHANGED <<ledger, lapsed, sweep>>

-----------------------------------------------------------------------------
(* pms:flag-overdue-installments *)

\* The last day of grace has gone by.
GraceEnds(l) ==
    /\ instalment[l] # None
    /\ l \notin lapsed
    /\ lapsed' = lapsed \cup {l}
    /\ UNCHANGED leaseVars
    /\ UNCHANGED <<instalment, ledger, received, sweep>>

\* Mutation of Overdue: an instalment somebody paid part of is passed over.
MutOnlyPending(l) ==
    /\ instalment[l] # None
    /\ instalment[l].status = "pending"
    /\ l \in lapsed

\* Neither paid nor flagged, and past its grace period.
Overdue(l) ==
    /\ instalment[l] # None
    /\ instalment[l].status \notin {"paid", "overdue"}
    /\ l \in lapsed

\* Every minute, never two at a time.
LoadCandidates ==
    /\ sweep = {}
    /\ sweep' = {l \in Leases : Overdue(l)}
    /\ UNCHANGED leaseVars
    /\ UNCHANGED <<instalment, ledger, received, lapsed>>

\* Each row in a transaction of its own; the rule is applied to the row as it
\* was loaded, so what has been paid since is flagged all the same.
Flag(l) ==
    /\ l \in sweep
    /\ instalment' = [instalment EXCEPT ![l].status = "overdue"]
    /\ sweep' = sweep \ {l}
    /\ UNCHANGED leaseVars
    /\ UNCHANGED <<ledger, received, lapsed>>

\* "one bad instalment must not roll back the ones already flagged"
FlagFails(l) ==
    /\ l \in sweep
    /\ sweep' = sweep \ {l}
    /\ UNCHANGED leaseVars
    /\ UNCHANGED <<instalment, ledger, received, lapsed>>

-----------------------------------------------------------------------------

Init ==
    /\ quotation = [q \in Quotations |-> "none"]
    /\ lease = [l \in Leases |-> NoLease]
    /\ unit = [u \in Units |-> "vacant"]
    /\ instalment = [l \in Leases |-> None]
    /\ ledger = [l \in Leases |-> 0]
    /\ received = [l \in Leases |-> 0]
    /\ lapsed = {}
    /\ sweep = {}

QuotationNext ==
    \E q \in Quotations :
        GenerateQuotation(q) \/ Send(q) \/ Accept(q) \/ Reject(q)

LeaseNext ==
    \E l \in Leases :
        \/ \E units \in SUBSET Units, rent \in Rents :
              CreateLease(l, units, rent) \/ UpdateDraft(l, units, rent)
        \/ \E q \in Quotations : CreateFromQuotation(l, q)
        \/ \E old \in Leases, rent \in Rents : Renew(l, old, rent)
        \/ SubmitForAttestation(l)
        \/ Attest(l)
        \/ Terminate(l)

RentNext ==
    \E l \in Leases :
        \/ GenerateSchedule(l)
        \/ \E amount \in Payments : RecordPayment(l, amount)
        \/ MarkBounced(l)
        \/ GraceEnds(l)

CommandNext ==
    \/ LoadCandidates
    \/ \E l \in Leases : Flag(l) \/ FlagFails(l)

Next ==
    \/ QuotationNext
    \/ LeaseNext
    \/ \E u \in Units, status \in UnitEdits : EditUnit(u, status)
    \/ RentNext
    \/ CommandNext

\* The command runs every minute and gets through its list, and a write that is
\* tried again every minute does not fail for ever.
Fairness ==
    /\ WF_vars(LoadCandidates)
    /\ WF_vars(\E l \in Leases : Flag(l) \/ FlagFails(l))
    /\ \A l \in Leases : SF_vars(Flag(l))

Spec == Init /\ [][Next]_vars /\ Fairness

-----------------------------------------------------------------------------
(* Properties *)

TypeOK ==
    /\ quotation \in [Quotations -> QuotationStatuses]
    /\ lease \in [Leases -> LeaseRows]
    /\ unit \in [Units -> UnitStatuses]
    /\ instalment \in [Leases -> InstalmentRows \cup {None}]
    /\ ledger \in [Leases -> Nat]
    /\ received \in [Leases -> Nat]
    /\ lapsed \subseteq Leases
    /\ sweep \subseteq Leases

\* What an instalment says of itself.
Adds(row) ==
    /\ row.balance = Less(row.due + row.penalty, row.paid)
    /\ row.status = "paid" => row.balance = 0

\* Whatever bounced, was penalised, part-paid or flagged in between, an
\* instalment owes its due amount and penalty less what it is credited with,
\* and is paid only when it owes nothing (PaymentService).
BalanceAdds == \A l \in Leases : instalment[l] # None => Adds(instalment[l])

Rank(status) ==
    CASE status = "none" -> 0
      [] status = "draft" -> 1
      [] status = "pending_attestation" -> 2
      [] status = "active" -> 3
      [] status \in {"renewed", "expired"} -> 4
      [] status = "terminated" -> 5

\* "Status only ever moves forward through LeaseService" (Lease).
LeaseMovesForward ==
    [][\A l \in Leases : Rank(lease'[l].status) >= Rank(lease[l].status)]_vars

\* A lease is continued by at most one other, and once continued it never
\* counts as the tenancy of its units again (LeaseService::renew).
RenewedOnce ==
    \A l, m \in Leases :
        lease[l].from # None =>
            /\ lease[lease[l].from].status \in {"renewed", "terminated"}
            /\ l # m => lease[m].from # lease[l].from

\* A lease that covers a unit lets go of it by ending or by being corrected: no
\* step of another kind puts the unit back on the market, except a person's
\* hand (LeaseService::draft, updateDraft, terminate).
OccupiedUntilReleased ==
    [][\A u \in Units :
          unit[u] # "vacant" /\ unit'[u] = "vacant" =>
              \/ lease' = lease
              \/ \E l \in Leases :
                    /\ u \in lease[l].units
                    /\ lease'[l].status = "terminated" \/ u \notin lease'[l].units]_vars

\* Rent past its grace period is flagged or paid in the end, although a bounce
\* or a part payment may come between the command's reading and its writing,
\* and a row may fail.
OverdueIsFlagged ==
    \A l \in Leases :
        Overdue(l) ~> (instalment[l] # None /\ instalment[l].status \in {"paid", "overdue"})

=============================================================================
