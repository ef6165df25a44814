------------------------------- MODULE BulkMail -------------------------------
(***************************************************************************)
(* One bulk mail campaign: the scheduler that dispatches its batches        *)
(* (SendBulkCampaignsCommand), the queue, the workers that run              *)
(* SendBulkMailBatch, and the people at the campaign's pages.               *)
(*                                                                         *)
(* A worker commits after each statement, so the steps of a batch interleave *)
(* with everything else: reading the rows, handing a message to the mail     *)
(* server, recording it as sent.  Filing the message in the IMAP folder and  *)
(* printing its PDF come between the last two and may fail.                  *)
(***************************************************************************)
EXTENDS Naturals, FiniteSets

CONSTANTS
    Recipients,      \* identities of bulk_mail_recipients rows
    Workers,         \* queue workers serving the queue "mail"
    DailyLimits,     \* inputs: the daily_send_limit field of the form
    BatchSize,       \* recipients one job takes
    RetryAttempts,   \* mail_senders.retry_attempts
    MaxJobs,         \* bound: jobs waiting in the queue that are told apart
    MaxDeaths,       \* bound: jobs lost half-way
    MaxRequeues      \* bound: resends and retries asked for by hand

ASSUME BulkMailAssumption ==
    /\ IsFiniteSet(Recipients)
    /\ DailyLimits \subseteq Nat
    /\ BatchSize \in Nat \ {0}
    /\ RetryAttempts \in Nat \ {0}
    /\ MaxJobs \in Nat \ {0}
    /\ MaxDeaths \in Nat
    /\ MaxRequeues \in Nat

\* BulkMailCampaignStatus.
CampaignStatuses == {"draft", "active", "paused", "completed", "cancelled"}

\* BulkMailRecipientStatus; "none" is a row not yet added, "deleted" one removed.
RowStatuses == {"none", "pending", "sent", "failed", "skipped", "deleted"}

\* sent_at, as far as the daily count can tell.
SentAt == {"never", "today", "earlier"}

Rows == [status : RowStatuses, attempts : Nat, sentAt : SentAt]

\* A worker's job.  seen is the attempt_count of the rows as they were read.
Jobs == [stage : {"idle", "sending", "filing", "sent", "empty"},
         todo  : SUBSET Recipients,
         cur   : SUBSET Recipients,
         seen  : [Recipients -> Nat]]

NoJob == [stage |-> "idle", todo |-> {}, cur |-> {}, seen |-> [r \in Recipients |-> 0]]

VARIABLES
    campaign,   \* status of the campaign
    limit,      \* daily_send_limit of the campaign, as it was created
    row,        \* bulk_mail_recipients
    queued,     \* jobs of the campaign waiting in the queue
    job,        \* what each worker is doing
    mails,      \* history: messages handed over for a row since it was last requeued
    reached,    \* history: the rows whose message ever left
    deaths,     \* jobs lost so far
    requeues    \* requeues asked for so far

vars == <<campaign, limit, row, queued, job, mails, reached, deaths, requeues>>

-----------------------------------------------------------------------------

WithStatus(status) == {r \in Recipients : row[r].status = status}

SentToday == {r \in WithStatus("sent") : row[r].sentAt = "today"}

\* Mutation of RemainingDailyLimit: whatever was ever sent is counted.
MutCountEverSent ==
    LET sent == Cardinality(WithStatus("sent"))
    IN  IF sent < limit THEN limit - sent ELSE 0

\* BulkMailCampaign::getRemainingDailyLimit.
RemainingDailyLimit ==
    LET sent == Cardinality(SentToday)
    IN  IF sent < limit THEN limit - sent ELSE 0

\* Mutations of Batch: the status is not looked at; the limit is not.
MutAnyRow(B) ==
    /\ B \subseteq Recipients \ (WithStatus("none") \cup WithStatus("deleted"))
    /\ Cardinality(B) <= BatchSize
    /\ Cardinality(B) <= RemainingDailyLimit

MutFullBatch(B) ==
    /\ B \subseteq WithStatus("pending")
    /\ Cardinality(B) <= BatchSize
    /\ Cardinality(B) < BatchSize => B = WithStatus("pending")

\* What the query of one job may return: pending rows in no promised order, as
\* many as the batch and the day allow.
Batch(B) ==
    /\ B \subseteq WithStatus("pending")
    /\ Cardinality(B) <= BatchSize
    /\ Cardinality(B) <= RemainingDailyLimit
    /\ Cardinality(B) \in {BatchSize, RemainingDailyLimit} \/ B = WithStatus("pending")

\* One more job in the queue.
Dispatch == queued' = IF queued < MaxJobs THEN queued + 1 ELSE queued

Idle(w) == job' = [job EXCEPT ![w] = NoJob]

-----------------------------------------------------------------------------
(* The scheduler and the clock *)

\* mail:send-bulk-campaigns, every minute.
SchedulerTick ==
    /\ campaign = "active"
    /\ Dispatch
    /\ UNCHANGED <<limit, campaign, row, job, mails, reached, deaths, requeues>>

\* Midnight, where it makes a difference.
NextDay ==
    /\ \E r \in Recipients : row[r].sentAt = "today"
    /\ row' = [r \in Recipients |->
                 IF row[r].sentAt = "today" THEN [row[r] EXCEPT !.sentAt = "earlier"]
                 ELSE row[r]]
    /\ UNCHANGED <<limit, campaign, queued, job, mails, reached, deaths, requeues>>

-----------------------------------------------------------------------------
(* SendBulkMailBatch::handle *)

\* The campaign, what is left of the day and the rows, read one after another.
TakeJob(w) ==
    /\ job[w].stage = "idle"
    /\ queued > 0
    /\ queued' = queued - 1
    /\ IF campaign # "active" \/ RemainingDailyLimit = 0
       THEN UNCHANGED job
       ELSE \E B \in SUBSET Recipients :
              /\ Batch(B)
              /\ job' = [job EXCEPT ![w] =
                           [stage |-> IF B = {} THEN "empty" ELSE "sending",
                            todo  |-> B,
                            cur   |-> {},
                            seen  |-> [r \in Recipients |->
                                         IF r \in B THEN row[r].attempts ELSE 0]]]
    /\ UNCHANGED <<limit, campaign, row, mails, reached, deaths, requeues>>

\* Mutation of CompleteCampaign: the campaign is given a recipient's status.
MutRowStatus(w) ==
    /\ job[w].stage = "empty"
    /\ campaign' = IF WithStatus("pending") = {} THEN "sent" ELSE campaign
    /\ Idle(w)
    /\ UNCHANGED <<limit, row, queued, mails, reached, deaths, requeues>>

\* A job that found no row counts the pending ones again before it completes.
CompleteCampaign(w) ==
    /\ job[w].stage = "empty"
    /\ campaign' = IF WithStatus("pending") = {} THEN "completed" ELSE campaign
    /\ Idle(w)
    /\ UNCHANGED <<limit, row, queued, mails, reached, deaths, requeues>>

\* The mail server takes the message.
Deliver(w, r) ==
    /\ job[w].stage = "sending"
    /\ r \in job[w].todo
    /\ mails' = [mails EXCEPT ![r] = @ + 1]
    /\ reached' = reached \cup {r}
    /\ job' = [job EXCEPT ![w] = [@ EXCEPT !.stage = "filing", !.cur = {r}]]
    /\ UNCHANGED <<limit, campaign, row, queued, deaths, requeues>>

\* The loop goes on, or there is none left of the batch.
Advance(w, r) ==
    LET left == job[w].todo \ {r}
    IN  job' = [job EXCEPT ![w] = [@ EXCEPT !.stage = IF left = {} THEN "sent" ELSE "sending",
                                            !.todo = left,
                                            !.cur = {}]]

\* Filed and printed: the row is recorded as sent.  A row deleted meanwhile has
\* no log entry to be given (its foreign key), which is an exception: see Fail.
MarkSent(w, r) ==
    /\ job[w].stage = "filing"
    /\ r \in job[w].cur
    /\ row[r].status # "deleted"
    /\ row' = [row EXCEPT ![r] = [@ EXCEPT !.status = "sent", !.sentAt = "today"]]
    /\ Advance(w, r)
    /\ UNCHANGED <<limit, campaign, queued, mails, reached, deaths, requeues>>

\* Mutation of CountAttempt: an attempt is not counted.
MutForgetAttempt(w, r) == row' = row

\* attempt_count is raised in the table and, apart from that, in the model read
\* at the start, which decides about the row.
Attempted(old, seen) ==
    [status   |-> IF seen + 1 >= RetryAttempts THEN "failed" ELSE old.status,
     attempts |-> old.attempts + 1,
     sentAt   |-> old.sentAt]

\* The handler of \Exception.
CountAttempt(w, r) ==
    row' = IF row[r].status = "deleted" THEN row
           ELSE [row EXCEPT ![r] = Attempted(@, job[w].seen[r])]

\* Mutation of Fail: the exception is swallowed where the message is sent, and
\* the row is recorded as sent.
MutSwallow(w, r) ==
    /\ \/ job[w].stage = "sending" /\ r \in job[w].todo
       \/ job[w].stage = "filing" /\ r \in job[w].cur
    /\ row' = [row EXCEPT ![r] = [@ EXCEPT !.status = "sent", !.sentAt = "today"]]
    /\ Advance(w, r)
    /\ UNCHANGED <<limit, campaign, queued, mails, reached, deaths, requeues>>

\* The server refuses the message, or filing or printing it fails: the batch
\* stops, and dispatches no other.
Fail(w, r) ==
    /\ \/ job[w].stage = "sending" /\ r \in job[w].todo
       \/ job[w].stage = "filing" /\ r \in job[w].cur
    /\ CountAttempt(w, r)
    /\ Idle(w)
    /\ UNCHANGED <<limit, campaign, queued, mails, reached, deaths, requeues>>

\* A batch sent to the end dispatches the next while the day allows.
FinishBatch(w) ==
    /\ job[w].stage = "sent"
    /\ IF RemainingDailyLimit > 0 THEN Dispatch ELSE UNCHANGED queued
    /\ Idle(w)
    /\ UNCHANGED <<limit, campaign, row, mails, reached, deaths, requeues>>

\* The worker is killed or times out, or the job ends in an \Error, which the
\* handler of \Exception does not see.  A job is tried once, so it is lost.
Die(w) ==
    /\ job[w].stage # "idle"
    /\ deaths < MaxDeaths
    /\ deaths' = deaths + 1
    /\ Idle(w)
    /\ UNCHANGED <<limit, campaign, row, queued, mails, reached, requeues>>

WorkerStep(w) ==
    \/ TakeJob(w)
    \/ CompleteCampaign(w)
    \/ \E r \in Recipients : Deliver(w, r) \/ MarkSent(w, r) \/ Fail(w, r)
    \/ FinishBatch(w)

-----------------------------------------------------------------------------
(* The pages of the campaign *)

\* The Start button dispatches at once.
StartCampaign ==
    /\ campaign \in {"draft", "paused"}
    /\ campaign' = "active"
    /\ Dispatch
    /\ UNCHANGED <<limit, row, job, mails, reached, deaths, requeues>>

\* The edit form sets any status, so it covers the Pause button too.
EditCampaign(status) ==
    /\ campaign' = status
    /\ UNCHANGED <<limit, row, queued, job, mails, reached, deaths, requeues>>

AddRecipient(r) ==
    /\ row[r].status = "none"
    /\ row' = [row EXCEPT ![r].status = "pending"]
    /\ UNCHANGED <<limit, campaign, queued, job, mails, reached, deaths, requeues>>

DeleteRecipient(r) ==
    /\ row[r].status \notin {"none", "deleted"}
    /\ row' = [row EXCEPT ![r] = [status |-> "deleted", attempts |-> 0, sentAt |-> "never"]]
    /\ UNCHANGED <<limit, campaign, queued, job, mails, reached, deaths, requeues>>

\* Resend, for one row once sent or for any rows selected, and Retry Failed.
Requeue(r) ==
    /\ row[r].status \notin {"none", "deleted"}
    /\ requeues < MaxRequeues
    /\ requeues' = requeues + 1
    /\ row' = [row EXCEPT ![r] = [status |-> "pending", attempts |-> 0, sentAt |-> "never"]]
    /\ mails' = [mails EXCEPT ![r] = 0]
    /\ UNCHANGED <<limit, campaign, queued, job, reached, deaths>>

\* The address made of the row's token, whatever the row's status.
Unsubscribe(r) ==
    /\ row[r].status \notin {"none", "deleted"}
    /\ row' = [row EXCEPT ![r].status = "skipped"]
    /\ UNCHANGED <<limit, campaign, queued, job, mails, reached, deaths, requeues>>

UserStep ==
    \/ StartCampaign
    \/ \E status \in CampaignStatuses : EditCampaign(status)
    \/ \E r \in Recipients :
          \/ AddRecipient(r)
          \/ DeleteRecipient(r)
          \/ Requeue(r)
          \/ Unsubscribe(r)

-----------------------------------------------------------------------------

Init ==
    /\ campaign = "draft"
    /\ limit \in DailyLimits
    /\ row = [r \in Recipients |-> [status |-> "none", attempts |-> 0, sentAt |-> "never"]]
    /\ queued = 0
    /\ job = [w \in Workers |-> NoJob]
    /\ mails = [r \in Recipients |-> 0]
    /\ reached = {}
    /\ deaths = 0
    /\ requeues = 0

Next ==
    \/ SchedulerTick
    \/ NextDay
    \/ \E w \in Workers : WorkerStep(w) \/ Die(w)
    \/ UserStep

\* The scheduler runs every minute, a day ends, and a worker works on.  Nobody
\* at the pages is obliged to do anything, and nothing has to fail.
Fairness ==
    /\ WF_vars(SchedulerTick)
    /\ WF_vars(NextDay)
    /\ \A w \in Workers : WF_vars(WorkerStep(w))

Spec == Init /\ [][Next]_vars /\ Fairness

-----------------------------------------------------------------------------
(* Properties *)

TypeOK ==
    /\ campaign \in CampaignStatuses
    /\ limit \in DailyLimits
    /\ row \in [Recipients -> Rows]
    /\ queued \in 0..MaxJobs
    /\ job \in [Workers -> Jobs]
    /\ mails \in [Recipients -> Nat]
    /\ reached \subseteq Recipients
    /\ deaths \in 0..MaxDeaths
    /\ requeues \in 0..MaxRequeues

\* A recipient is recorded as sent only if a message has left for it: a failed
\* send must not "fall through and be recorded as Sent"
\* (SendBulkMailBatch::withMailerConfig).
SentWasDelivered == WithStatus("sent") \subseteq reached

\* With one worker, no day records more messages than the campaign's limit,
\* although each batch reads the limit once and then works on.
RecordedWithinDailyLimit == Cardinality(SentToday) <= limit

\* However sending, filing and printing fail, a recipient nobody requeued is
\* mailed at most retry_attempts times and once for each job lost half-way.
MailedWithinRetries ==
    \A r \in Recipients : mails[r] <= RetryAttempts + deaths

\* No message leaves for a recipient already recorded as sent.
NeverMailedTwice ==
    [][\A r \in Recipients : mails'[r] > mails[r] => row[r].status # "sent"]_vars

\* While its campaign is active and may send at all (the form takes a limit of
\* zero), every pending recipient is sent its message or given up on, though any
\* send may fail and stop its batch without another.
EveryoneIsReached ==
    \A r \in Recipients :
        (campaign = "active" /\ limit > 0 /\ row[r].status = "pending")
            ~> (campaign # "active" \/ row[r].status # "pending")

=============================================================================
