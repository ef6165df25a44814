------------------------- MODULE MatterReceivingProofs -------------------------
(***************************************************************************)
(* Theorems about MatterReceiving, for any requests and dates.              *)
(***************************************************************************)
EXTENDS MatterReceiving, TLAPS

-----------------------------------------------------------------------------
(* Types *)

\* The initial tables have their types.
LEMMA TypeInit == Init => TypeOK
<1> SUFFICES ASSUME Init PROVE TypeOK
    OBVIOUS
<1>1. row \in [Requests -> Rows]
    BY DEF Init, Rows, Statuses
<1>2. seen \in [Requests -> Dates \cup {None}]
    BY DEF Init
<1> QED
    BY <1>1, <1>2 DEF Init, TypeOK

\* Every step keeps the types.
LEMMA TypeStep == TypeOK /\ [Next]_vars => TypeOK'
<1> SUFFICES ASSUME TypeOK, [Next]_vars PROVE TypeOK'
    OBVIOUS
<1> USE DEF TypeOK, Rows, Statuses, command, Decide
<1>1. ASSUME NEW created \in SUBSET Requests, NEW sent \in SUBSET Requests,
             NotifyAssistants(created, sent)
      PROVE  TypeOK'
    BY <1>1 DEF NotifyAssistants
<1>2. ASSUME NEW r \in Requests, AcceptByMail(r) PROVE TypeOK'
    BY <1>2 DEF AcceptByMail
<1>3. ASSUME NEW r \in Requests, NEW d \in Dates, DisputeSubmit(r, d) PROVE TypeOK'
    BY <1>3 DEF DisputeSubmit
<1>4. ASSUME NEW d \in Dates, EditMatter(d) PROVE TypeOK'
    BY <1>4 DEF EditMatter
<1>5. ASSUME NEW r \in Requests, NEW d \in Dates, AddRequest(r, d) PROVE TypeOK'
    BY <1>5 DEF AddRequest
<1>6. ASSUME NEW r \in Requests, Approve(r) PROVE TypeOK'
    BY <1>6 DEF Approve, Apply
<1>7. ASSUME NEW r \in Requests, Reject(r) PROVE TypeOK'
    BY <1>7 DEF Reject
<1>8. ASSUME NEW r \in Requests, DeleteRequest(r) PROVE TypeOK'
    BY <1>8 DEF DeleteRequest
<1>9. ASSUME NEW r \in Requests, DayPasses(r) PROVE TypeOK'
    BY <1>9 DEF DayPasses
<1>10. ASSUME LoadDue PROVE TypeOK'
    BY <1>10 DEF LoadDue, Due, WithStatus
<1>11. ASSUME NEW r \in Requests, Confirm(r) PROVE TypeOK'
    BY <1>11 DEF Confirm, Apply, Drop
<1>12. ASSUME NEW r \in Requests, ConfirmFails(r) PROVE TypeOK'
    BY <1>12 DEF ConfirmFails, Drop
<1>13. CASE UNCHANGED vars
    BY <1>13 DEF vars
<1> QED
    BY <1>1, <1>2, <1>3, <1>4, <1>5, <1>6, <1>7, <1>8, <1>9, <1>10, <1>11, <1>12, <1>13
       DEF Next, MailNext, PageNext, CommandNext

\* The tables, and the command's list, keep their types.
THEOREM TypeCorrectness == Spec => []TypeOK
    BY TypeInit, TypeStep, PTL DEF Spec

-----------------------------------------------------------------------------
(* Where the matter's date comes from *)

\* A link, or the command's list, is about a row that was created, and the
\* date the command is about to apply is still the one its request proposes:
\* only a link changes a proposal, and no mail goes out for a request that
\* was raised on a page and so has one.
ListIsFaithful ==
    \A r \in Requests :
        /\ r \in mailed \cup listed => row[r].status # "none"
        /\ r \in listed /\ seen[r] # None => r \notin mailed /\ row[r].proposed = seen[r]
        /\ row[r].status = "pending" /\ row[r].proposed # None => r \notin mailed

IInv == TypeOK /\ ListIsFaithful /\ DateWasApproved

\* The invariant behind DateWasApproved holds initially.
LEMMA DateInit == Init => IInv
    BY TypeInit DEF Init, IInv, ListIsFaithful, DateWasApproved

\* Every step keeps the invariant behind DateWasApproved.
LEMMA DateStep == IInv /\ [Next]_vars => IInv'
<1> SUFFICES ASSUME IInv, [Next]_vars PROVE ListIsFaithful' /\ DateWasApproved'
    BY TypeStep DEF IInv
<1> USE DEF IInv, TypeOK, Rows, ListIsFaithful, DateWasApproved, command, Decide
<1>1. ASSUME NEW created \in SUBSET Requests, NEW sent \in SUBSET Requests,
             NotifyAssistants(created, sent)
      PROVE  ListIsFaithful' /\ DateWasApproved'
    BY <1>1 DEF NotifyAssistants, WithStatus
<1>2. ASSUME NEW r \in Requests, AcceptByMail(r)
      PROVE  ListIsFaithful' /\ DateWasApproved'
    BY <1>2 DEF AcceptByMail
<1>3. ASSUME NEW r \in Requests, NEW d \in Dates, DisputeSubmit(r, d)
      PROVE  ListIsFaithful' /\ DateWasApproved'
    BY <1>3 DEF DisputeSubmit
<1>4. ASSUME NEW d \in Dates, EditMatter(d)
      PROVE  ListIsFaithful' /\ DateWasApproved'
    BY <1>4 DEF EditMatter
<1>5. ASSUME NEW r \in Requests, NEW d \in Dates, AddRequest(r, d)
      PROVE  ListIsFaithful' /\ DateWasApproved'
    BY <1>5 DEF AddRequest
<1>6. ASSUME NEW r \in Requests, Approve(r)
      PROVE  ListIsFaithful' /\ DateWasApproved'
    BY <1>6 DEF Approve, Apply
<1>7. ASSUME NEW r \in Requests, Reject(r)
      PROVE  ListIsFaithful' /\ DateWasApproved'
    BY <1>7 DEF Reject
<1>8. ASSUME NEW r \in Requests, DeleteRequest(r)
      PROVE  ListIsFaithful' /\ DateWasApproved'
    BY <1>8 DEF DeleteRequest
<1>9. ASSUME NEW r \in Requests, DayPasses(r)
      PROVE  ListIsFaithful' /\ DateWasApproved'
    BY <1>9 DEF DayPasses
<1>10. ASSUME LoadDue
       PROVE  ListIsFaithful' /\ DateWasApproved'
    BY <1>10 DEF LoadDue, Due, WithStatus
<1>11. ASSUME NEW r \in Requests, Confirm(r)
       PROVE  ListIsFaithful' /\ DateWasApproved'
    BY <1>11 DEF Confirm, Apply, Drop
<1>12. ASSUME NEW r \in Requests, ConfirmFails(r)
       PROVE  ListIsFaithful' /\ DateWasApproved'
    BY <1>12 DEF ConfirmFails, Drop
<1>13. CASE UNCHANGED vars
    BY <1>13 DEF vars
<1> QED
    BY <1>1, <1>2, <1>3, <1>4, <1>5, <1>6, <1>7, <1>8, <1>9, <1>10, <1>11, <1>12, <1>13
       DEF Next, MailNext, PageNext, CommandNext

\* The matter's date was typed into its form or is proposed by a request that
\* is approved, whatever crosses the command's list.
THEOREM DatesAreApproved == Spec => []DateWasApproved
<1>1. IInv => DateWasApproved
    BY DEF IInv
<1> QED
    BY <1>1, DateInit, DateStep, PTL DEF Spec

-----------------------------------------------------------------------------
(* What is resolved *)

\* A resolved request is reopened by no step.
LEMMA ResolvedStep ==
    ASSUME TypeOK, ListIsFaithful, [Next]_vars, NEW r \in Requests
    PROVE  /\ row[r].status = "approved" => row'[r].status = "approved"
           /\ row[r].status = "rejected" => row'[r].status \in {"rejected", "approved"}
<1> USE DEF TypeOK, Rows, Decide, command
<1>1. ASSUME NEW created \in SUBSET Requests, NEW sent \in SUBSET Requests,
             NotifyAssistants(created, sent)
      PROVE  row[r].status # "none" => row'[r] = row[r]
    BY <1>1 DEF NotifyAssistants, WithStatus
<1>2. ASSUME MailNext
      PROVE  row[r].status # "pending" => row'[r] = row[r]
    BY <1>2 DEF MailNext, AcceptByMail, DisputeSubmit
<1>3. ASSUME PageNext
      PROVE  row[r].status \notin {"none", "pending"} => row'[r] = row[r]
    BY <1>3 DEF PageNext, EditMatter, AddRequest, Approve, Reject, DeleteRequest
<1>4. ASSUME CommandNext
      PROVE  row'[r].status \in {row[r].status, "approved"}
    BY <1>4 DEF CommandNext, LoadDue, Confirm, ConfirmFails
<1>5. ASSUME NEW q \in Requests, DayPasses(q)
      PROVE  row'[r] = row[r]
    BY <1>5 DEF DayPasses
<1>6. CASE UNCHANGED vars
    BY <1>6 DEF vars
<1> QED
    BY <1>1, <1>2, <1>3, <1>4, <1>5, <1>6 DEF Next

\* No link, page or confirmation reopens a request that was resolved.
THEOREM NothingIsReopened == Spec => ResolvedStaysResolved
<1>1. IInv /\ [Next]_vars =>
          [\A r \in Requests :
              /\ row[r].status = "approved" => row'[r].status = "approved"
              /\ row[r].status = "rejected" => row'[r].status \in {"rejected", "approved"}]_vars
    BY ResolvedStep DEF IInv
<1> QED
    BY <1>1, DateInit, DateStep, PTL DEF Spec, ResolvedStaysResolved

=============================================================================
