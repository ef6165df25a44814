---------------------------- MODULE MatterReceiving ----------------------------
(***************************************************************************)
(* The day an assistant received a matter: the notice a new matter sends to  *)
(* its assistants (NewMatterNotification), the links in it                   *)
(* (MatterReceivedNotificationController), the requests to change the day    *)
(* (ChangeDistributedAtRequestService) and the command that confirms what    *)
(* nobody answered (ConfirmMatterReceivingForUnacceptedMail).                *)
(*                                                                         *)
(* One matter.  A page or a link reads a request and writes it in one step;  *)
(* the command loads its list first and then approves the requests one by    *)
(* one, mailing in between, as it loaded them.                               *)
(***************************************************************************)
EXTENDS FiniteSets

CONSTANTS
    Requests,   \* identities of matter_requests rows, type change_distributed_date
    Dates,      \* inputs: the dates typed into the forms
    None        \* SQL NULL

ASSUME MatterAssumption == IsFiniteSet(Requests) /\ None \notin Dates

\* RequestStatus; "none" is a row not yet created, "deleted" one removed.
Statuses == {"none", "pending", "disputed", "approved", "rejected", "deleted"}

\* extra.proposed_distributed_at is the only part of extra that is read.
Rows == [status : Statuses, proposed : Dates \cup {None}]

VARIABLES
    row,        \* matter_requests
    date,       \* matters.distributed_at
    notified,   \* whether the job of the new matter has run
    mailed,     \* the requests whose links are in an assistant's mailbox
    aged,       \* the requests created a day ago or earlier
    listed,     \* the requests the command has loaded and not done
    seen,       \* the proposed date of each of them, as it was loaded
    own         \* history: the date last typed into the matter's own form

command == <<listed, seen>>
vars == <<row, date, notified, mailed, aged, listed, seen, own>>

WithStatus(S) == {r \in Requests : row[r].status \in S}

\* The rows there are.
Existing == WithStatus({"pending", "disputed", "approved", "rejected"})

Decide(r, status) == row' = [row EXCEPT ![r].status = status]

-----------------------------------------------------------------------------
(* The new matter *)

\* One request for each assistant with an address and, unless queueing it
\* fails, a mail with its links; an assistant whose row fails is left out.
NotifyAssistants(created, sent) ==
    /\ ~notified
    /\ created \subseteq WithStatus({"none"})
    /\ Existing # {} => created = {}
    /\ sent \subseteq created
    /\ notified' = TRUE
    /\ row' = [r \in Requests |->
                 IF r \in created THEN [status |-> "pending", proposed |-> None] ELSE row[r]]
    /\ mailed' = mailed \cup sent
    /\ UNCHANGED <<date, aged, own>>
    /\ UNCHANGED command

\* The matter's own form.
EditMatter(d) ==
    /\ date' = d
    /\ own' = d
    /\ UNCHANGED <<row, notified, mailed, aged>>
    /\ UNCHANGED command

-----------------------------------------------------------------------------
(* The links in the mail *)

\* Records the answer and leaves the matter alone.
AcceptByMail(r) ==
    /\ r \in mailed
    /\ row[r].status = "pending"
    /\ Decide(r, "approved")
    /\ UNCHANGED <<date, notified, mailed, aged, own>>
    /\ UNCHANGED command

\* Mutation of DisputeSubmit: only the form is guarded, as it once was.
MutRedispute(r, d) ==
    /\ r \in mailed
    /\ row[r].status \notin {"none", "deleted"}
    /\ row' = [row EXCEPT ![r] = [status |-> "disputed", proposed |-> d]]
    /\ UNCHANGED <<date, notified, mailed, aged, own>>
    /\ UNCHANGED command

\* The form posts to a signed address of its own, so it may have been open for
\* as long as one likes: the guard is read again.
DisputeSubmit(r, d) ==
    /\ r \in mailed
    /\ row[r].status = "pending"
    /\ row' = [row EXCEPT ![r] = [status |-> "disputed", proposed |-> d]]
    /\ UNCHANGED <<date, notified, mailed, aged, own>>
    /\ UNCHANGED command

-----------------------------------------------------------------------------
(* The pages *)

\* Mutation of AddRequest: the request is created with no status of the enum.
MutUnnamedStatus(r, d) ==
    /\ row[r].status = "none"
    /\ Existing \subseteq WithStatus({"rejected"})
    /\ row' = [row EXCEPT ![r] = [status |-> "new", proposed |-> d]]
    /\ UNCHANGED <<date, notified, mailed, aged, own>>
    /\ UNCHANGED command

\* The type is offered while no other request of it stands.
AddRequest(r, d) ==
    /\ row[r].status = "none"
    /\ Existing \subseteq WithStatus({"rejected"})
    /\ row' = [row EXCEPT ![r] = [status |-> "pending", proposed |-> d]]
    /\ UNCHANGED <<date, notified, mailed, aged, own>>
    /\ UNCHANGED command

\* approve() on a request that proposes d.
Apply(d) == date' = IF d # None THEN d ELSE date

\* A disputed request can be neither approved nor rejected here.
Approve(r) ==
    /\ row[r].status = "pending"
    /\ Decide(r, "approved")
    /\ Apply(row[r].proposed)
    /\ UNCHANGED <<notified, mailed, aged, own>>
    /\ UNCHANGED command

Reject(r) ==
    /\ row[r].status = "pending"
    /\ Decide(r, "rejected")
    /\ UNCHANGED <<date, notified, mailed, aged, own>>
    /\ UNCHANGED command

DeleteRequest(r) ==
    /\ row[r].status = "pending"
    /\ Decide(r, "deleted")
    /\ UNCHANGED <<date, notified, mailed, aged, own>>
    /\ UNCHANGED command

-----------------------------------------------------------------------------
(* matter:confirm-receiving *)

\* A day after it was created.
DayPasses(r) ==
    /\ r \in Existing \ aged
    /\ aged' = aged \cup {r}
    /\ UNCHANGED <<row, date, notified, mailed, own>>
    /\ UNCHANGED command

\* Mutation of Due: the comparison of the dates is the wrong way round.
MutFresh == WithStatus({"pending"}) \ aged

Due == WithStatus({"pending"}) \cap aged

\* Every minute, never two at a time.
LoadDue ==
    /\ listed = {}
    /\ listed' = Due
    /\ seen' = [r \in Requests |-> IF r \in Due THEN row[r].proposed ELSE None]
    /\ UNCHANGED <<row, date, notified, mailed, aged, own>>

Drop(r) ==
    /\ listed' = listed \ {r}
    /\ seen' = [seen EXCEPT ![r] = None]

\* Mutation of Confirm: what was written before refresh() finds the row gone
\* stays written.
MutNoTransaction(r) ==
    /\ r \in listed
    /\ row' = IF r \in Existing THEN [row EXCEPT ![r].status = "approved"] ELSE row
    /\ Apply(seen[r])
    /\ Drop(r)
    /\ UNCHANGED <<notified, mailed, aged, own>>

\* Approves the request as it was loaded, whatever has become of it since.
Confirm(r) ==
    /\ r \in listed
    /\ r \in Existing
    /\ Decide(r, "approved")
    /\ Apply(seen[r])
    /\ Drop(r)
    /\ UNCHANGED <<notified, mailed, aged, own>>

\* The mail is refused, or refresh() finds the row gone: the transaction is
\* undone, "one bad row must not roll back the ones already confirmed".
ConfirmFails(r) ==
    /\ r \in listed
    /\ Drop(r)
    /\ UNCHANGED <<row, date, notified, mailed, aged, own>>

-----------------------------------------------------------------------------

Init ==
    /\ row = [r \in Requests |-> [status |-> "none", proposed |-> None]]
    /\ date \in Dates
    /\ notified = FALSE
    /\ mailed = {}
    /\ aged = {}
    /\ listed = {}
    /\ seen = [r \in Requests |-> None]
    /\ own = date

MailNext ==
    \E r \in Requests :
        AcceptByMail(r) \/ \E d \in Dates : DisputeSubmit(r, d)

PageNext ==
    \/ \E d \in Dates : EditMatter(d)
    \/ \E r \in Requests :
          \/ \E d \in Dates : AddRequest(r, d)
          \/ Approve(r)
          \/ Reject(r)
          \/ DeleteRequest(r)

CommandNext ==
    \/ LoadDue
    \/ \E r \in Requests : Confirm(r) \/ ConfirmFails(r)

Next ==
    \/ \E created, sent \in SUBSET Requests : NotifyAssistants(created, sent)
    \/ MailNext
    \/ PageNext
    \/ \E r \in Requests : DayPasses(r)
    \/ CommandNext

\* The command runs every minute and gets through its list, and a mail that is
\* tried again every minute is not refused for ever.
Fairness ==
    /\ WF_vars(LoadDue)
    /\ WF_vars(\E r \in Requests : Confirm(r) \/ ConfirmFails(r))
    /\ \A r \in Requests : SF_vars(Confirm(r))

Spec == Init /\ [][Next]_vars /\ Fairness

-----------------------------------------------------------------------------
(* Properties *)

TypeOK ==
    /\ row \in [Requests -> Rows]
    /\ date \in Dates
    /\ notified \in BOOLEAN
    /\ mailed \subseteq Requests
    /\ aged \subseteq Requests
    /\ listed \subseteq Requests
    /\ seen \in [Requests -> Dates \cup {None}]
    /\ own \in Dates

\* The matter carries the date typed into its form or one that an approved
\* request proposes, although the command applies what it loaded to requests
\* disputed, rejected or deleted meanwhile (approve, handle).
DateWasApproved ==
    date # own =>
        \E r \in Requests : row[r].status = "approved" /\ row[r].proposed = date

\* An approved request stays approved, and a rejected one is never open again:
\* without the guard on the form's submit "an already resolved request could be
\* re-disputed" (MatterReceivedNotificationController::disputeSubmit).
ResolvedStaysResolved ==
    [][\A r \in Requests :
          /\ row[r].status = "approved" => row'[r].status = "approved"
          /\ row[r].status = "rejected" => row'[r].status \in {"rejected", "approved"}]_vars

\* A request nobody answers in a day is decided, though any confirmation may
\* fail and is then only tried again by a later run of the command.
DueIsDecided ==
    \A r \in Requests : (r \in Due) ~> (row[r].status # "pending")

=============================================================================
