---------------------------- MODULE LettingsProofs ----------------------------
(***************************************************************************)
(* Theorems about Lettings, for any leases, units, rents and payments.      *)
(***************************************************************************)
EXTENDS Lettings, TLAPS

-----------------------------------------------------------------------------
(* Types *)

\* The difference floored at zero is a natural number.
LEMMA LessType == ASSUME NEW a \in Nat, NEW b \in Nat PROVE Less(a, b) \in Nat
    BY DEF Less

\* A fresh instalment is an instalment.
LEMMA BillType == ASSUME NEW rent \in Nat PROVE Bill(rent) \in InstalmentRows
    BY DEF Bill, InstalmentRows, InstalmentStatuses

\* An instalment settled against a ledger total is an instalment.
LEMMA SettledType ==
    ASSUME NEW old \in InstalmentRows, NEW total \in Nat
    PROVE  Settled(old, total) \in InstalmentRows
<1>1. old.due \in Nat /\ old.penalty \in Nat
    BY DEF InstalmentRows
<1>2. old.due + old.penalty \in Nat
    BY <1>1
<1>3. Less(old.due + old.penalty, total) \in Nat
    BY <1>2, LessType, Zenon
<1> DEFINE balance == Less(old.due + old.penalty, total)
<1>4. Settled(old, total) = [due |-> old.due, penalty |-> old.penalty, paid |-> total,
                             balance |-> balance,
                             status |-> IF balance = 0 THEN "paid" ELSE "partial"]
    BY DEF Settled
<1> HIDE DEF balance
<1> QED
    BY <1>1, <1>3, <1>4 DEF InstalmentRows, InstalmentStatuses, balance

\* An instalment after its cheque bounced is an instalment.
LEMMA BouncedType ==
    ASSUME NEW old \in InstalmentRows
    PROVE  Bounced(old) \in InstalmentRows
<1>1. Penalty \in Nat
    BY LettingsAssumption
<1>2. old.due \in Nat
    BY DEF InstalmentRows
<1>3. old.due + Penalty \in Nat
    BY <1>1, <1>2
<1> QED
    BY <1>1, <1>2, <1>3 DEF Bounced, InstalmentRows, InstalmentStatuses

\* The units of a lease in the table are units; its continuation, leases.
LEMMA UnitsType ==
    ASSUME TypeOK, NEW units \in SUBSET Units
    PROVE  Occupied(units) \in [Units -> UnitStatuses] /\ Vacated(units) \in [Units -> UnitStatuses]
    BY DEF TypeOK, Occupied, Vacated, UnitStatuses

\* A drafted lease is a lease.
LEMMA DraftedType ==
    ASSUME NEW l, NEW units \in SUBSET Units, NEW rent \in Rents, NEW from \in Leases \cup {None}
    PROVE  Drafted(l, units, rent, from) \in LeaseRows
    BY DEF Drafted, LeaseRows, LeaseStatuses

\* The initial tables have their types.
LEMMA TypeInit == Init => TypeOK
<1> SUFFICES ASSUME Init PROVE TypeOK
    OBVIOUS
<1>1. NoLease \in LeaseRows
    BY DEF NoLease, LeaseRows
<1> QED
    BY <1>1 DEF Init, TypeOK, QuotationStatuses, UnitStatuses

\* The steps of the quotations keep the types.
LEMMA QuotationType == TypeOK /\ QuotationNext => TypeOK'
    BY DEF TypeOK, QuotationNext, GenerateQuotation, Send, Accept, Reject, MoveQuotation,
           rentVars, QuotationStatuses

\* The steps of the leases keep the types.
LEMMA LeaseType == TypeOK /\ LeaseNext => TypeOK'
<1> SUFFICES ASSUME TypeOK, LeaseNext PROVE TypeOK'
    OBVIOUS
<1> USE DEF rentVars
<1>0. QuotedUnits \in SUBSET Units /\ QuotedRent \in Rents /\ Rents \subseteq Nat
    BY LettingsAssumption
<1>1. ASSUME NEW l \in Leases, NEW units \in SUBSET Units, NEW rent \in Rents,
             CreateLease(l, units, rent)
      PROVE  TypeOK'
    <2>1. lease' \in [Leases -> LeaseRows]
        BY <1>1, DraftedType DEF CreateLease, TypeOK
    <2>2. instalment' \in [Leases -> InstalmentRows \cup {None}]
        BY <1>0, <1>1, BillType DEF CreateLease, TypeOK
    <2> QED
        BY <1>1, <2>1, <2>2, UnitsType DEF CreateLease, TypeOK
<1>2. ASSUME NEW l \in Leases, NEW units \in SUBSET Units, NEW rent \in Rents,
             UpdateDraft(l, units, rent)
      PROVE  TypeOK'
    <2>1. lease' \in [Leases -> LeaseRows]
        <3>1. [lease[l] EXCEPT !.units = units, !.rent = rent] \in LeaseRows
            BY DEF TypeOK, LeaseRows
        <3> QED
            BY <1>2, <3>1 DEF UpdateDraft, TypeOK
    <2>2. unit' \in [Units -> UnitStatuses]
        BY <1>2 DEF UpdateDraft, TypeOK, UnitStatuses
    <2> QED
        BY <1>2, <2>1, <2>2 DEF UpdateDraft, TypeOK
<1>3. ASSUME NEW l \in Leases, NEW q \in Quotations, CreateFromQuotation(l, q)
      PROVE  TypeOK'
    <2>1. lease' \in [Leases -> LeaseRows]
        BY <1>0, <1>3, DraftedType DEF CreateFromQuotation, TypeOK
    <2> QED
        BY <1>0, <1>3, <2>1, UnitsType DEF CreateFromQuotation, TypeOK
<1>4. ASSUME NEW l \in Leases, NEW old \in Leases, NEW rent \in Rents, Renew(l, old, rent)
      PROVE  TypeOK'
    <2>1. lease[old].units \in SUBSET Units
        BY DEF TypeOK, LeaseRows
    <2>2. Drafted(l, lease[old].units, rent, old) \in LeaseRows
        BY <2>1, DraftedType
    <2>3. [lease[old] EXCEPT !.status = "renewed"] \in LeaseRows
        BY DEF TypeOK, LeaseRows, LeaseStatuses
    <2>4. lease' \in [Leases -> LeaseRows]
        <3>1. l # old
            BY <1>4 DEF Renew, NextId
        <3> QED
            BY <1>4, <2>2, <2>3, <3>1 DEF Renew, TypeOK
    <2> QED
        BY <1>4, <2>1, <2>4, UnitsType DEF Renew, TypeOK
<1>5. ASSUME NEW l \in Leases, SubmitForAttestation(l)
      PROVE  TypeOK'
    BY <1>5 DEF SubmitForAttestation, TypeOK, LeaseRows, LeaseStatuses
<1>6. ASSUME NEW l \in Leases, Attest(l)
      PROVE  TypeOK'
    BY <1>6 DEF Attest, TypeOK, LeaseRows, LeaseStatuses
<1>7. ASSUME NEW l \in Leases, Terminate(l)
      PROVE  TypeOK'
    <2>1. lease' \in [Leases -> LeaseRows]
        BY <1>7 DEF Terminate, TypeOK, LeaseRows, LeaseStatuses
    <2>2. lease[l].units \in SUBSET Units
        BY DEF TypeOK, LeaseRows
    <2> QED
        BY <1>7, <2>1, <2>2, UnitsType DEF Terminate, TypeOK
<1> QED
    BY <1>1, <1>2, <1>3, <1>4, <1>5, <1>6, <1>7 DEF LeaseNext

\* Payments and bounces keep the types.
LEMMA RentType == TypeOK /\ RentNext => TypeOK'
<1> SUFFICES ASSUME TypeOK, RentNext PROVE TypeOK'
    OBVIOUS
<1> USE DEF leaseVars
<1>0. Rents \subseteq Nat /\ Payments \subseteq Nat /\ Penalty \in Nat
    BY LettingsAssumption
<1>1. ASSUME NEW l \in Leases, GenerateSchedule(l)
      PROVE  TypeOK'
    <2>1. lease[l].rent \in Nat
        <3>1. lease[l].rent \in Rents \cup {0}
            BY DEF TypeOK, LeaseRows
        <3>2. 0 \in Nat
            OBVIOUS
        <3> QED
            BY <1>0, <3>1, <3>2, Zenon
    <2>2. instalment' \in [Leases -> InstalmentRows \cup {None}]
        BY <1>1, <2>1, BillType DEF GenerateSchedule, TypeOK
    <2> QED
        BY <1>1, <2>2 DEF GenerateSchedule, TypeOK
<1>2. ASSUME NEW l \in Leases, NEW amount \in Payments, RecordPayment(l, amount)
      PROVE  TypeOK'
    <2>1. ledger[l] + amount \in Nat /\ received[l] + amount \in Nat
        BY <1>0 DEF TypeOK
    <2>2. instalment[l] \in InstalmentRows
        BY <1>2 DEF RecordPayment, TypeOK
    <2>3. Settled(instalment[l], ledger[l] + amount) \in InstalmentRows
        BY <2>1, <2>2, SettledType
    <2> QED
        BY <1>2, <2>1, <2>3 DEF RecordPayment, TypeOK
<1>3. ASSUME NEW l \in Leases, MarkBounced(l)
      PROVE  TypeOK'
    <2>1. instalment[l] \in InstalmentRows
        BY <1>3 DEF MarkBounced, TypeOK
    <2>2. instalment'[l] \in InstalmentRows
        BY <1>3, <2>1, BouncedType DEF MarkBounced, TypeOK
    <2> QED
        BY <1>3, <2>2 DEF MarkBounced, TypeOK
<1>4. ASSUME NEW l \in Leases, GraceEnds(l)
      PROVE  TypeOK'
    BY <1>4 DEF GraceEnds, TypeOK
<1> QED
    BY <1>1, <1>2, <1>3, <1>4 DEF RentNext

\* The command's list holds instalments that exist, and only leases billed
\* have one: a lease made in the place of a missing row loses none.
SweptExist ==
    /\ \A l \in sweep : instalment[l] # None
    /\ \A l \in Leases : instalment[l] # None => l \in Billed

\* The overdue command keeps the types.
LEMMA CommandType == TypeOK /\ SweptExist /\ CommandNext => TypeOK'
<1> SUFFICES ASSUME TypeOK, SweptExist, CommandNext PROVE TypeOK'
    OBVIOUS
<1> USE DEF leaseVars
<1>1. ASSUME LoadCandidates PROVE TypeOK'
    BY <1>1 DEF LoadCandidates, TypeOK
<1>2. ASSUME NEW l \in Leases, Flag(l) PROVE TypeOK'
    <2>1. instalment[l] \in InstalmentRows
        BY <1>2 DEF Flag, TypeOK, SweptExist
    <2>2. [instalment[l] EXCEPT !.status = "overdue"] \in InstalmentRows
        BY <2>1 DEF InstalmentRows, InstalmentStatuses
    <2> QED
        BY <1>2, <2>2 DEF Flag, TypeOK
<1>3. ASSUME NEW l \in Leases, FlagFails(l) PROVE TypeOK'
    BY <1>3 DEF FlagFails, TypeOK
<1> QED
    BY <1>1, <1>2, <1>3 DEF CommandNext

\* Every step keeps the types.
LEMMA TypeStep == TypeOK /\ SweptExist /\ [Next]_vars => TypeOK'
<1> SUFFICES ASSUME TypeOK, SweptExist, [Next]_vars PROVE TypeOK'
    OBVIOUS
<1>1. ASSUME NEW u \in Units, NEW status \in UnitEdits, EditUnit(u, status)
      PROVE  TypeOK'
    <2>1. status \in UnitStatuses
        BY LettingsAssumption
    <2> QED
        BY <1>1, <2>1 DEF EditUnit, rentVars, TypeOK
<1>2. CASE UNCHANGED vars
    BY <1>2 DEF vars, TypeOK
<1> QED
    BY <1>1, <1>2, QuotationType, LeaseType, RentType, CommandType DEF Next

\* No step but the wizard, on a row that does not exist, takes an instalment away.
LEMMA SweptStep == TypeOK /\ SweptExist /\ [Next]_vars => SweptExist'
<1> SUFFICES ASSUME TypeOK, SweptExist, [Next]_vars PROVE SweptExist'
    OBVIOUS
<1> USE DEF SweptExist, leaseVars, rentVars
<1>1. ASSUME QuotationNext PROVE SweptExist'
    BY <1>1 DEF QuotationNext, GenerateQuotation, Send, Accept, Reject, MoveQuotation
<1>2. ASSUME LeaseNext PROVE SweptExist'
    <2>1. ASSUME NEW l \in Leases, NEW units \in SUBSET Units, NEW rent \in Rents,
                 CreateLease(l, units, rent)
          PROVE  SweptExist'
        <3>1. Bill(rent) # None
            BY BillType, LettingsAssumption, NoInstalmentAssumption
        <3>2. sweep' = sweep /\ sweep \subseteq Leases
            BY <2>1 DEF CreateLease, TypeOK
        <3>3. \A m \in Leases :
                  instalment'[m] = IF m = l THEN IF l \in Billed THEN Bill(rent) ELSE None
                                   ELSE instalment[m]
            BY <2>1 DEF CreateLease, TypeOK
        <3> QED
            BY <3>1, <3>2, <3>3
    <2> QED
        BY <1>2, <2>1 DEF LeaseNext, UpdateDraft, CreateFromQuotation, Renew,
           SubmitForAttestation, Attest, Terminate
<1>3. ASSUME RentNext PROVE SweptExist'
    <2>1. \A l \in Leases : instalment[l] # None => instalment'[l] # None
        <3>1. ASSUME NEW l \in Leases PROVE instalment'[l] \in InstalmentRows \cup {None}
            BY <1>3, RentType DEF TypeOK
        <3>2. ASSUME NEW m \in Leases, NEW amount \in Payments, RecordPayment(m, amount)
              PROVE  instalment'[m] \in InstalmentRows
            <4>1. instalment[m] \in InstalmentRows
                BY <3>2 DEF RecordPayment, TypeOK
            <4>2. ledger[m] + amount \in Nat
                BY LettingsAssumption DEF TypeOK
            <4> QED
                BY <3>2, <4>1, <4>2, SettledType DEF RecordPayment, TypeOK
        <3>3. ASSUME NEW m \in Leases, MarkBounced(m)
              PROVE  instalment'[m] \in InstalmentRows
            BY <3>3, BouncedType DEF MarkBounced, TypeOK
        <3> QED
            BY <1>3, <3>1, <3>2, <3>3, NoInstalmentAssumption
               DEF RentNext, RecordPayment, MarkBounced, GenerateSchedule, GraceEnds, TypeOK
    <2>2. \A l \in Leases : instalment'[l] # None => instalment[l] # None \/ l \in Billed
        BY <1>3 DEF RentNext, RecordPayment, MarkBounced, GenerateSchedule, GraceEnds, TypeOK
    <2>3. sweep' = sweep /\ sweep \subseteq Leases
        BY <1>3 DEF RentNext, RecordPayment, MarkBounced, GenerateSchedule, GraceEnds, TypeOK
    <2> QED
        BY <2>1, <2>2, <2>3
<1>4. ASSUME LoadCandidates PROVE SweptExist'
    BY <1>4 DEF LoadCandidates, Overdue
<1>5. ASSUME NEW l \in Leases, Flag(l) PROVE SweptExist'
    <2>1. instalment'[l] \in InstalmentRows
        <3>1. instalment[l] \in InstalmentRows
            BY <1>5 DEF Flag, TypeOK
        <3> QED
            BY <1>5, <3>1 DEF Flag, TypeOK, InstalmentRows, InstalmentStatuses
    <2>2. instalment'[l] # None
        BY <2>1, NoInstalmentAssumption
    <2>3. \A m \in Leases \ {l} : instalment'[m] = instalment[m]
        BY <1>5 DEF Flag, TypeOK
    <2> QED
        BY <1>5, <2>2, <2>3 DEF Flag, TypeOK
<1>6. ASSUME NEW l \in Leases, FlagFails(l) PROVE SweptExist'
    BY <1>6 DEF FlagFails
<1>7. ASSUME NEW u \in Units, NEW status \in UnitEdits, EditUnit(u, status) PROVE SweptExist'
    BY <1>7 DEF EditUnit
<1>8. CASE UNCHANGED vars
    BY <1>8 DEF vars
<1> QED
    BY <1>1, <1>2, <1>3, <1>4, <1>5, <1>6, <1>7, <1>8 DEF Next, CommandNext

\* Every table keeps its type.
THEOREM TypeCorrectness == Spec => []TypeOK
<1>1. Init => SweptExist
    BY DEF Init, SweptExist
<1> QED
    BY <1>1, TypeInit, TypeStep, SweptStep, PTL DEF Spec

-----------------------------------------------------------------------------
(* What an instalment owes *)

\* A fresh instalment adds up.
LEMMA BillAdds == ASSUME NEW rent \in Nat PROVE Adds(Bill(rent))
<1>1. /\ Bill(rent).due = rent /\ Bill(rent).penalty = 0 /\ Bill(rent).paid = 0
      /\ Bill(rent).balance = rent /\ Bill(rent).status = "pending"
    BY DEF Bill
<1>2. Less(rent + 0, 0) = rent
    BY DEF Less
<1> QED
    BY <1>1, <1>2 DEF Adds

\* An instalment settled against any ledger total adds up.
LEMMA SettledAdds ==
    ASSUME NEW old \in InstalmentRows, NEW total \in Nat
    PROVE  Adds(Settled(old, total))
<1> DEFINE balance == Less(old.due + old.penalty, total)
<1>1. /\ Settled(old, total).due = old.due
      /\ Settled(old, total).penalty = old.penalty
      /\ Settled(old, total).paid = total
      /\ Settled(old, total).balance = balance
      /\ Settled(old, total).status = IF balance = 0 THEN "paid" ELSE "partial"
    BY DEF Settled
<1>2. Settled(old, total).status = "paid" => balance = 0
    <2> HIDE DEF balance
    <2> QED
        BY <1>1
<1> QED
    BY <1>1, <1>2, Zenon DEF Adds

\* An instalment after its cheque bounced adds up.
LEMMA BouncedAdds ==
    ASSUME NEW old \in InstalmentRows
    PROVE  Adds(Bounced(old))
<1>1. /\ Bounced(old).due = old.due /\ Bounced(old).penalty = Penalty
      /\ Bounced(old).paid = 0 /\ Bounced(old).status = "bounced"
      /\ Bounced(old).balance = old.due + Penalty
    BY DEF Bounced
<1>2. old.due \in Nat /\ Penalty \in Nat
    BY LettingsAssumption DEF InstalmentRows
<1>3. Less(old.due + Penalty, 0) = old.due + Penalty
    BY <1>2 DEF Less
<1> QED
    BY <1>1, <1>3 DEF Adds

\* Every step leaves the instalments adding up.
LEMMA BalanceStep == TypeOK /\ SweptExist /\ BalanceAdds /\ [Next]_vars => BalanceAdds'
<1> SUFFICES ASSUME TypeOK, SweptExist, BalanceAdds, [Next]_vars, NEW l \in Leases,
                    instalment'[l] # None
             PROVE  Adds(instalment'[l])
    BY DEF BalanceAdds, Adds
<1>a. instalment[l] # None => Adds(instalment[l])
    BY DEF BalanceAdds
<1>b. Rents \subseteq Nat /\ Payments \subseteq Nat
    BY LettingsAssumption
<1>1. ASSUME instalment'[l] = instalment[l] PROVE Adds(instalment'[l])
    BY <1>1, <1>a
<1>2. ASSUME NEW m \in Leases, NEW units \in SUBSET Units, NEW rent \in Rents,
             CreateLease(m, units, rent)
      PROVE  Adds(instalment'[l])
    <2>1. instalment'[l] \in {instalment[l], Bill(rent), None}
        BY <1>2 DEF CreateLease, TypeOK
    <2> QED
        BY <1>1, <1>b, <2>1, BillAdds
<1>3. ASSUME NEW m \in Leases, GenerateSchedule(m)
      PROVE  Adds(instalment'[l])
    <2>1. instalment'[l] \in {instalment[l], Bill(lease[m].rent)}
        BY <1>3 DEF GenerateSchedule, TypeOK
    <2>2. lease[m].rent \in Rents \cup {0}
        BY DEF TypeOK, LeaseRows
    <2>3. 0 \in Nat
        OBVIOUS
    <2>4. lease[m].rent \in Nat
        BY <1>b, <2>2, <2>3, Zenon
    <2> QED
        BY <1>1, <2>1, <2>4, BillAdds
<1>4. ASSUME NEW m \in Leases, NEW amount \in Payments, RecordPayment(m, amount)
      PROVE  Adds(instalment'[l])
    <2>1. ledger[m] + amount \in Nat
        BY <1>b DEF TypeOK
    <2>2. instalment[m] \in InstalmentRows
        BY <1>4 DEF RecordPayment, TypeOK
    <2>3. instalment'[l] \in {instalment[l], Settled(instalment[m], ledger[m] + amount)}
        BY <1>4 DEF RecordPayment, TypeOK
    <2> QED
        BY <1>1, <2>1, <2>2, <2>3, SettledAdds
<1>5. ASSUME NEW m \in Leases, MarkBounced(m)
      PROVE  Adds(instalment'[l])
    <2>1. instalment[m] \in InstalmentRows
        BY <1>5 DEF MarkBounced, TypeOK
    <2>2. instalment'[l] \in {instalment[l], Bounced(instalment[m])}
        BY <1>5 DEF MarkBounced, TypeOK
    <2> QED
        BY <1>1, <2>1, <2>2, BouncedAdds
<1>6. ASSUME NEW m \in Leases, Flag(m)
      PROVE  Adds(instalment'[l])
    <2>1. CASE m = l
        <3>1. instalment[l] \in InstalmentRows /\ Adds(instalment[l])
            BY <1>6, <1>a, <2>1 DEF Flag, TypeOK, SweptExist
        <3>2. instalment'[l] = [instalment[l] EXCEPT !.status = "overdue"]
            BY <1>6, <2>1 DEF Flag, TypeOK
        <3> QED
            BY <3>1, <3>2 DEF Adds, InstalmentRows
    <2>2. CASE m # l
        BY <1>1, <1>6, <2>2 DEF Flag, TypeOK
    <2> QED
        BY <2>1, <2>2
<1>7. ASSUME NEW m \in Leases, FlagFails(m) \/ GraceEnds(m)
      PROVE  Adds(instalment'[l])
    BY <1>1, <1>7 DEF FlagFails, GraceEnds
<1>8. ASSUME \/ QuotationNext
             \/ LoadCandidates
             \/ \E u \in Units, status \in UnitEdits : EditUnit(u, status)
             \/ UNCHANGED vars
      PROVE  Adds(instalment'[l])
    BY <1>1, <1>8 DEF QuotationNext, GenerateQuotation, Send, Accept, Reject, MoveQuotation,
       LoadCandidates, EditUnit, rentVars, vars
<1>9. ASSUME NEW m \in Leases,
             \/ \E units \in SUBSET Units, rent \in Rents : UpdateDraft(m, units, rent)
             \/ \E q \in Quotations : CreateFromQuotation(m, q)
             \/ \E old \in Leases, rent \in Rents : Renew(m, old, rent)
             \/ SubmitForAttestation(m)
             \/ Attest(m)
             \/ Terminate(m)
      PROVE  Adds(instalment'[l])
    BY <1>1, <1>9 DEF UpdateDraft, CreateFromQuotation, Renew, SubmitForAttestation, Attest,
       Terminate, rentVars
<1> QED
    BY <1>2, <1>3, <1>4, <1>5, <1>6, <1>7, <1>8, <1>9
       DEF Next, LeaseNext, RentNext, CommandNext

\* Every instalment owes its due amount and penalty less what it is credited
\* with, and none is paid that owes anything.
THEOREM BalancesAdd == Spec => []BalanceAdds
<1>1. Init => SweptExist /\ BalanceAdds
    BY DEF Init, SweptExist, BalanceAdds
<1> QED
    BY <1>1, TypeInit, TypeStep, SweptStep, BalanceStep, PTL DEF Spec

-----------------------------------------------------------------------------
(* Renewals and the way of a lease *)

\* Inductive with the types: who continues a lease was drafted when it was
\* active or expired, and from then on it only ends.
LEMMA RenewedStep == TypeOK /\ RenewedOnce /\ [Next]_vars => RenewedOnce'
<1> SUFFICES ASSUME TypeOK, RenewedOnce, [Next]_vars PROVE RenewedOnce'
    OBVIOUS
<1> USE DEF RenewedOnce
<1>0. None \notin Leases
    BY LettingsAssumption
<1>1. ASSUME lease' = lease PROVE RenewedOnce'
    BY <1>1
<1>2. ASSUME NEW l \in Leases, NEW row \in LeaseRows,
             lease[l].status = "none",
             row.from = None,
             lease' = [lease EXCEPT ![l] = row]
      PROVE  RenewedOnce'
    BY <1>0, <1>2 DEF TypeOK, LeaseRows
<1>3. ASSUME NEW l \in Leases, NEW old \in Leases, NEW rent \in Rents, Renew(l, old, rent)
      PROVE  RenewedOnce'
    <2>1. l # old
        BY <1>3 DEF Renew, NextId
    <2>2. /\ lease'[l].status = "draft" /\ lease'[l].from = old
          /\ lease'[old].status = "renewed" /\ lease'[old].from = lease[old].from
          /\ \A m \in Leases \ {l, old} : lease'[m] = lease[m]
        BY <1>3, <2>1 DEF Renew, Drafted, TypeOK, LeaseRows
    <2>3. \A m \in Leases : lease[m].from \notin {l, old}
        BY <1>3, <1>0 DEF Renew, NextId
    <2>4. \A m \in Leases : lease[m].from \in Leases \cup {None}
        BY DEF TypeOK, LeaseRows
    <2> QED
        BY <1>0, <2>1, <2>2, <2>3, <2>4
<1>4. ASSUME NEW l \in Leases, NEW row \in LeaseRows,
             row.from = lease[l].from,
             \/ row.status = lease[l].status
             \/ row.status = "terminated"
             \/ lease[l].status \in {"draft", "pending_attestation"},
             lease' = [lease EXCEPT ![l] = row]
      PROVE  RenewedOnce'
    <2>1. lease'[l] = row /\ \A m \in Leases \ {l} : lease'[m] = lease[m]
        BY <1>4 DEF TypeOK
    <2>2. \A m \in Leases : lease[m].from \in Leases \cup {None}
        BY DEF TypeOK, LeaseRows
    <2> QED
        BY <1>0, <1>4, <2>1, <2>2
<1>5. ASSUME NEW l \in Leases, NEW units \in SUBSET Units, NEW rent \in Rents,
             CreateLease(l, units, rent)
      PROVE  RenewedOnce'
    <2>1. Drafted(l, units, rent, None) \in LeaseRows /\ Drafted(l, units, rent, None).from = None
        BY DraftedType DEF Drafted
    <2> QED
        BY <1>2, <1>5, <2>1 DEF CreateLease, NextId
<1>6. ASSUME NEW l \in Leases, NEW q \in Quotations, CreateFromQuotation(l, q)
      PROVE  RenewedOnce'
    <2> DEFINE row == Drafted(l, QuotedUnits, QuotedRent, None)
    <2>1. row \in LeaseRows /\ row.from = None
        BY DraftedType, LettingsAssumption DEF Drafted
    <2> QED
        BY <1>2, <1>6, <2>1 DEF CreateFromQuotation, NextId
<1>7. ASSUME NEW l \in Leases, NEW units \in SUBSET Units, NEW rent \in Rents,
             UpdateDraft(l, units, rent)
      PROVE  RenewedOnce'
    <2> DEFINE row == [lease[l] EXCEPT !.units = units, !.rent = rent]
    <2>1. lease[l] \in LeaseRows
        BY DEF TypeOK
    <2>2. row \in LeaseRows
        BY <2>1 DEF LeaseRows
    <2>3. row.from = lease[l].from /\ row.status = lease[l].status
        BY <2>1 DEF LeaseRows
    <2>4. lease' = [lease EXCEPT ![l] = row]
        BY <1>7 DEF UpdateDraft
    <2> HIDE DEF row
    <2> QED
        BY <1>4, <2>2, <2>3, <2>4
<1>8. ASSUME NEW l \in Leases, NEW status \in LeaseStatuses,
             lease' = [lease EXCEPT ![l].status = status],
             status = "terminated" \/ lease[l].status \in {"draft", "pending_attestation"}
      PROVE  RenewedOnce'
    <2> DEFINE row == [lease[l] EXCEPT !.status = status]
    <2>1. row \in LeaseRows /\ row.from = lease[l].from /\ row.status = status
        BY DEF TypeOK, LeaseRows
    <2>2. lease' = [lease EXCEPT ![l] = row]
        BY <1>8
    <2> HIDE DEF row
    <2> QED
        BY <1>4, <1>8, <2>1, <2>2
<1>9. ASSUME NEW l \in Leases, SubmitForAttestation(l) \/ Attest(l) \/ Terminate(l)
      PROVE  RenewedOnce'
    BY <1>8, <1>9 DEF SubmitForAttestation, Attest, Terminate, LeaseStatuses
<1>10. ASSUME \/ QuotationNext
              \/ RentNext
              \/ CommandNext
              \/ \E u \in Units, status \in UnitEdits : EditUnit(u, status)
              \/ UNCHANGED vars
       PROVE  RenewedOnce'
    BY <1>1, <1>10 DEF QuotationNext, GenerateQuotation, Send, Accept, Reject, MoveQuotation,
       RentNext, GenerateSchedule, RecordPayment, MarkBounced, GraceEnds, CommandNext,
       LoadCandidates, Flag, FlagFails, EditUnit, leaseVars, vars
<1> QED
    BY <1>3, <1>5, <1>6, <1>7, <1>9, <1>10 DEF Next, LeaseNext

\* A lease is renewed at most once and, renewed, is never in force again.
THEOREM RenewedAtMostOnce == Spec => []RenewedOnce
<1>1. Init => SweptExist /\ RenewedOnce
    BY DEF Init, SweptExist, RenewedOnce, NoLease
<1> QED
    BY <1>1, TypeInit, TypeStep, SweptStep, RenewedStep, PTL DEF Spec

\* One step of a lease's status.
LEMMA ForwardStep ==
    ASSUME TypeOK, [Next]_vars, NEW l \in Leases
    PROVE  Rank(lease'[l].status) >= Rank(lease[l].status)
<1> DEFINE Up(a, b) == Rank(b) >= Rank(a)
<1>0. lease[l].status \in LeaseStatuses \cup {"none"}
    BY DEF TypeOK, LeaseRows
<1>a. ASSUME NEW a \in LeaseStatuses \cup {"none"}
      PROVE  Up(a, a) /\ Up(a, "terminated") /\ Up("none", a)
    BY DEF LeaseStatuses, Rank
<1>b. Up("draft", "pending_attestation") /\ Up("pending_attestation", "active")
    BY DEF Rank
<1>c. Up("active", "renewed") /\ Up("expired", "renewed")
    BY DEF Rank
<1>d. lease[l].status = "none" => Up("none", "draft")
    BY DEF Rank
<1> HIDE DEF Up
<1>1. ASSUME lease'[l].status = lease[l].status PROVE Up(lease[l].status, lease'[l].status)
    BY <1>0, <1>1, <1>a
<1>2. ASSUME NEW m \in Leases, NEW units \in SUBSET Units, NEW rent \in Rents,
             CreateLease(m, units, rent)
      PROVE  Up(lease[l].status, lease'[l].status)
    BY <1>1, <1>2, <1>d DEF CreateLease, NextId, Drafted, TypeOK
<1>3. ASSUME NEW m \in Leases, NEW q \in Quotations, CreateFromQuotation(m, q)
      PROVE  Up(lease[l].status, lease'[l].status)
    BY <1>1, <1>3, <1>d DEF CreateFromQuotation, NextId, Drafted, TypeOK
<1>4. ASSUME NEW m \in Leases, NEW old \in Leases, NEW rent \in Rents, Renew(m, old, rent)
      PROVE  Up(lease[l].status, lease'[l].status)
    <2>1. \/ l = m /\ lease[l].status = "none" /\ lease'[l].status = "draft"
          \/ l = old /\ lease[l].status \in {"active", "expired"} /\ lease'[l].status = "renewed"
          \/ lease'[l] = lease[l]
        BY <1>4 DEF Renew, NextId, Drafted, TypeOK, LeaseRows
    <2> QED
        BY <1>1, <1>c, <1>d, <2>1
<1>5. ASSUME NEW m \in Leases, NEW units \in SUBSET Units, NEW rent \in Rents,
             UpdateDraft(m, units, rent)
      PROVE  Up(lease[l].status, lease'[l].status)
    <2>1. lease'[l].status = lease[l].status
        BY <1>5 DEF UpdateDraft, TypeOK, LeaseRows
    <2> QED
        BY <1>1, <2>1
<1>6. ASSUME NEW m \in Leases, SubmitForAttestation(m) \/ Attest(m)
      PROVE  Up(lease[l].status, lease'[l].status)
    <2>1. \/ lease[l].status = "draft" /\ lease'[l].status = "pending_attestation"
          \/ lease[l].status = "pending_attestation" /\ lease'[l].status = "active"
          \/ lease'[l] = lease[l]
        BY <1>6 DEF SubmitForAttestation, Attest, TypeOK, LeaseRows
    <2> QED
        BY <1>1, <1>b, <2>1
<1>7. ASSUME NEW m \in Leases, Terminate(m)
      PROVE  Up(lease[l].status, lease'[l].status)
    <2>1. lease'[l].status = "terminated" \/ lease'[l] = lease[l]
        BY <1>7 DEF Terminate, TypeOK, LeaseRows
    <2> QED
        BY <1>0, <1>1, <1>a, <2>1
<1>8. ASSUME \/ QuotationNext
             \/ RentNext
             \/ CommandNext
             \/ \E u \in Units, status \in UnitEdits : EditUnit(u, status)
             \/ UNCHANGED vars
      PROVE  Up(lease[l].status, lease'[l].status)
    BY <1>1, <1>8 DEF QuotationNext, GenerateQuotation, Send, Accept, Reject, MoveQuotation,
       RentNext, GenerateSchedule, RecordPayment, MarkBounced, GraceEnds, CommandNext,
       LoadCandidates, Flag, FlagFails, EditUnit, leaseVars, vars
<1>9. Up(lease[l].status, lease'[l].status)
    BY <1>2, <1>3, <1>4, <1>5, <1>6, <1>7, <1>8 DEF Next, LeaseNext
<1> QED
    BY <1>9 DEF Up

\* No operation takes a lease back: a terminated or renewed one is never drafted,
\* attested or made active again.
THEOREM StatusMovesForward == Spec => LeaseMovesForward
<1>1. Init => SweptExist
    BY DEF Init, SweptExist
<1>2. TypeOK /\ [Next]_vars =>
          [\A l \in Leases : Rank(lease'[l].status) >= Rank(lease[l].status)]_vars
    BY ForwardStep
<1> QED
    BY <1>1, <1>2, TypeInit, TypeStep, SweptStep, PTL DEF Spec, LeaseMovesForward

-----------------------------------------------------------------------------
(* Units let go *)

\* Some lease that covered the unit ends or is corrected.
Released(u) ==
    \E l \in Leases :
        /\ u \in lease[l].units
        /\ lease'[l].status = "terminated" \/ u \notin lease'[l].units

\* One step of a unit.
LEMMA ReleaseStep ==
    ASSUME TypeOK, Next, NEW u \in Units, unit[u] # "vacant", unit'[u] = "vacant"
    PROVE  lease' = lease \/ Released(u)
<1>a. lease \in [Leases -> LeaseRows]
    BY DEF TypeOK
<1>1. ASSUME NEW units \in SUBSET Units, unit' = Occupied(units) PROVE FALSE
    BY <1>1 DEF Occupied
<1>2. ASSUME NEW l \in Leases, NEW units \in SUBSET Units, NEW rent \in Rents,
             CreateLease(l, units, rent)
      PROVE  FALSE
    BY <1>1, <1>2 DEF CreateLease
<1>3. ASSUME NEW l \in Leases, NEW q \in Quotations, CreateFromQuotation(l, q) PROVE FALSE
    BY <1>1, <1>3, LettingsAssumption DEF CreateFromQuotation
<1>4. ASSUME NEW l \in Leases, NEW old \in Leases, NEW rent \in Rents, Renew(l, old, rent)
      PROVE  FALSE
    <2>1. lease[old].units \in SUBSET Units
        BY <1>a DEF LeaseRows
    <2> QED
        BY <1>1, <1>4, <2>1 DEF Renew
<1>5. ASSUME NEW l \in Leases, NEW units \in SUBSET Units, NEW rent \in Rents,
             UpdateDraft(l, units, rent)
      PROVE  Released(u)
    <2>1. unit'[u] = CASE u \in lease[l].units \ units -> "vacant"
                       [] u \in units \ lease[l].units -> "occupied"
                       [] OTHER -> unit[u]
        BY <1>5 DEF UpdateDraft
    <2>2. u \in lease[l].units \ units
        BY <2>1
    <2>3. lease'[l].units = units
        BY <1>5, <1>a DEF UpdateDraft, LeaseRows
    <2> QED
        BY <2>2, <2>3 DEF Released
<1>6. ASSUME NEW l \in Leases, Terminate(l) PROVE Released(u)
    <2>1. u \in lease[l].units
        BY <1>6 DEF Terminate, Vacated
    <2>2. lease'[l].status = "terminated"
        BY <1>6, <1>a DEF Terminate, LeaseRows
    <2> QED
        BY <2>1, <2>2 DEF Released
<1>7. ASSUME NEW l \in Leases, SubmitForAttestation(l) \/ Attest(l) PROVE FALSE
    BY <1>7 DEF SubmitForAttestation, Attest
<1>8. ASSUME \/ QuotationNext
             \/ RentNext
             \/ CommandNext
             \/ \E v \in Units, status \in UnitEdits : EditUnit(v, status)
      PROVE  lease' = lease
    BY <1>8 DEF QuotationNext, GenerateQuotation, Send, Accept, Reject, MoveQuotation,
       RentNext, GenerateSchedule, RecordPayment, MarkBounced, GraceEnds, CommandNext,
       LoadCandidates, Flag, FlagFails, EditUnit, leaseVars
<1> QED
    BY <1>2, <1>3, <1>4, <1>5, <1>6, <1>7, <1>8 DEF Next, LeaseNext

\* A unit goes back on the market only when a lease that covers it ends or lets
\* go of it, or by a person's hand: drafting, renewing, attesting, correcting or
\* billing any other lease never vacates it.
THEOREM UnitsStayLet == Spec => OccupiedUntilReleased
<1>1. Init => SweptExist
    BY DEF Init, SweptExist
<1>2. TypeOK /\ [Next]_vars =>
          [\A u \in Units :
              unit[u] # "vacant" /\ unit'[u] = "vacant" =>
                  \/ lease' = lease
                  \/ \E l \in Leases :
                        /\ u \in lease[l].units
                        /\ lease'[l].status = "terminated" \/ u \notin lease'[l].units]_vars
    BY ReleaseStep DEF Released
<1> QED
    BY <1>1, <1>2, TypeInit, TypeStep, SweptStep, PTL DEF Spec, OccupiedUntilReleased

=============================================================================
