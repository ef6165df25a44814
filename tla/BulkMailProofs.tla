---------------------------- MODULE BulkMailProofs ----------------------------
(***************************************************************************)
(* Theorems about BulkMail, for any recipients, limits and number of         *)
(* workers.                                                                 *)
(***************************************************************************)
EXTENDS BulkMail, FiniteSetTheorems, TLAPS

-----------------------------------------------------------------------------
(* Types *)

\* The record of a worker without a job is a job record.
LEMMA NoJobType == NoJob \in Jobs
    BY DEF NoJob, Jobs

\* Dispatching a job keeps the length of the queue within its bound.
LEMMA QueueType == ASSUME TypeOK, Dispatch PROVE queued' \in 0..MaxJobs
    BY BulkMailAssumption DEF TypeOK, Dispatch

\* A worker that lets its job go keeps every worker's record a job.
LEMMA IdleType == ASSUME TypeOK, NEW w \in Workers, Idle(w) PROVE job' \in [Workers -> Jobs]
    BY NoJobType DEF TypeOK, Idle

\* The initial tables have their types.
LEMMA TypeInit == Init => TypeOK
<1> SUFFICES ASSUME Init PROVE TypeOK
    OBVIOUS
<1>1. row \in [Recipients -> Rows]
    BY DEF Init, Rows, RowStatuses, SentAt
<1>2. 0 \in 0..MaxJobs /\ 0 \in 0..MaxDeaths /\ 0 \in 0..MaxRequeues
    BY BulkMailAssumption
<1> QED
    BY <1>1, <1>2, NoJobType DEF Init, TypeOK, CampaignStatuses

\* Going on to the next recipient keeps the jobs' types.
LEMMA AdvanceType ==
    ASSUME TypeOK, NEW w \in Workers, NEW r \in Recipients, Advance(w, r)
    PROVE  job' \in [Workers -> Jobs]
<1> DEFINE left == job[w].todo \ {r}
           next == [job[w] EXCEPT !.stage = IF left = {} THEN "sent" ELSE "sending",
                                  !.todo = left, !.cur = {}]
<1>1. job[w] \in Jobs
    BY DEF TypeOK
<1>2. left \in SUBSET Recipients
    BY <1>1 DEF Jobs
<1> HIDE DEF left
<1>3. next \in Jobs
    BY <1>1, <1>2 DEF Jobs
<1>4. job' = [job EXCEPT ![w] = next]
    BY DEF Advance, left
<1> QED
    BY <1>3, <1>4 DEF TypeOK

\* The steps of a worker, its death included, keep the types.
LEMMA WorkerType ==
    ASSUME TypeOK, NEW w \in Workers, WorkerStep(w) \/ Die(w)
    PROVE  TypeOK'
<1>1. ASSUME TakeJob(w) PROVE TypeOK'
    <2>1. queued' \in 0..MaxJobs
        BY <1>1, BulkMailAssumption DEF TakeJob, TypeOK
    <2>2. job' \in [Workers -> Jobs]
        <3>1. ASSUME NEW B \in SUBSET Recipients
              PROVE  [stage |-> IF B = {} THEN "empty" ELSE "sending",
                      todo  |-> B,
                      cur   |-> {},
                      seen  |-> [r \in Recipients |-> IF r \in B THEN row[r].attempts ELSE 0]]
                         \in Jobs
            <4>1. \A r \in Recipients : row[r].attempts \in Nat
                BY DEF TypeOK, Rows
            <4> QED
                BY <4>1 DEF Jobs
        <3> QED
            BY <1>1, <3>1 DEF TakeJob, TypeOK
    <2> QED
        BY <1>1, <2>1, <2>2 DEF TakeJob, TypeOK
<1>2. ASSUME CompleteCampaign(w) PROVE TypeOK'
    BY <1>2, IdleType DEF CompleteCampaign, TypeOK, CampaignStatuses
<1>3. ASSUME NEW r \in Recipients, Deliver(w, r) PROVE TypeOK'
    <2>1. [job[w] EXCEPT !.stage = "filing", !.cur = {r}] \in Jobs
        BY DEF TypeOK, Jobs
    <2>2. job' \in [Workers -> Jobs]
        BY <1>3, <2>1 DEF Deliver, TypeOK
    <2> QED
        BY <1>3, <2>2 DEF Deliver, TypeOK
<1>4. ASSUME NEW r \in Recipients, MarkSent(w, r) PROVE TypeOK'
    <2>1. [row[r] EXCEPT !.status = "sent", !.sentAt = "today"] \in Rows
        BY DEF TypeOK, Rows, RowStatuses, SentAt
    <2>2. row' \in [Recipients -> Rows]
        BY <1>4, <2>1 DEF MarkSent, TypeOK
    <2>3. job' \in [Workers -> Jobs]
        BY <1>4, AdvanceType DEF MarkSent
    <2> QED
        BY <1>4, <2>2, <2>3 DEF MarkSent, TypeOK
<1>5. ASSUME NEW r \in Recipients, Fail(w, r) PROVE TypeOK'
    <2>1. row[r].status \in RowStatuses /\ row[r].attempts \in Nat /\ row[r].sentAt \in SentAt
        BY DEF TypeOK, Rows
    <2>2. Attempted(row[r], job[w].seen[r]) \in Rows
        BY <2>1 DEF Attempted, Rows, RowStatuses
    <2>5. row' \in [Recipients -> Rows]
        BY <1>5, <2>2 DEF Fail, CountAttempt, TypeOK
    <2>6. job' \in [Workers -> Jobs]
        BY <1>5, IdleType DEF Fail
    <2> QED
        BY <1>5, <2>5, <2>6 DEF Fail, TypeOK
<1>6. ASSUME FinishBatch(w) PROVE TypeOK'
    <2>1. queued' \in 0..MaxJobs
        BY <1>6, QueueType DEF FinishBatch, TypeOK
    <2> QED
        BY <1>6, <2>1, IdleType DEF FinishBatch, TypeOK
<1>7. ASSUME Die(w) PROVE TypeOK'
    <2>1. deaths' \in 0..MaxDeaths
        BY <1>7, BulkMailAssumption DEF Die, TypeOK
    <2> QED
        BY <1>7, <2>1, IdleType DEF Die, TypeOK
<1> QED
    BY <1>1, <1>2, <1>3, <1>4, <1>5, <1>6, <1>7 DEF WorkerStep

\* The steps taken from the pages of a campaign keep the types.
LEMMA UserType == ASSUME TypeOK, UserStep PROVE TypeOK'
<1>1. ASSUME StartCampaign PROVE TypeOK'
    BY <1>1, QueueType DEF StartCampaign, TypeOK, CampaignStatuses
<1>2. ASSUME NEW status \in CampaignStatuses, EditCampaign(status) PROVE TypeOK'
    BY <1>2 DEF EditCampaign, TypeOK
<1>3. ASSUME NEW r \in Recipients, AddRecipient(r) PROVE TypeOK'
    <2>1. [row[r] EXCEPT !.status = "pending"] \in Rows
        BY DEF TypeOK, Rows, RowStatuses
    <2> QED
        BY <1>3, <2>1 DEF AddRecipient, TypeOK
<1>4. ASSUME NEW r \in Recipients, DeleteRecipient(r) PROVE TypeOK'
    <2>1. [status |-> "deleted", attempts |-> 0, sentAt |-> "never"] \in Rows
        BY DEF Rows, RowStatuses, SentAt
    <2> QED
        BY <1>4, <2>1 DEF DeleteRecipient, TypeOK
<1>5. ASSUME NEW r \in Recipients, Requeue(r) PROVE TypeOK'
    <2>1. [status |-> "pending", attempts |-> 0, sentAt |-> "never"] \in Rows
        BY DEF Rows, RowStatuses, SentAt
    <2>2. requeues' \in 0..MaxRequeues
        BY <1>5, BulkMailAssumption DEF Requeue, TypeOK
    <2> QED
        BY <1>5, <2>1, <2>2 DEF Requeue, TypeOK
<1>6. ASSUME NEW r \in Recipients, Unsubscribe(r) PROVE TypeOK'
    <2>1. [row[r] EXCEPT !.status = "skipped"] \in Rows
        BY DEF TypeOK, Rows, RowStatuses
    <2> QED
        BY <1>6, <2>1 DEF Unsubscribe, TypeOK
<1> QED
    BY <1>1, <1>2, <1>3, <1>4, <1>5, <1>6 DEF UserStep

\* Every step keeps the types.
LEMMA TypeStep == TypeOK /\ [Next]_vars => TypeOK'
<1> SUFFICES ASSUME TypeOK, [Next]_vars PROVE TypeOK'
    OBVIOUS
<1>1. ASSUME SchedulerTick PROVE TypeOK'
    BY <1>1, QueueType DEF SchedulerTick, TypeOK
<1>2. ASSUME NextDay PROVE TypeOK'
    <2>1. \A r \in Recipients : [row[r] EXCEPT !.sentAt = "earlier"] \in Rows
        BY DEF TypeOK, Rows, SentAt
    <2> QED
        BY <1>2, <2>1 DEF NextDay, TypeOK
<1>3. CASE UNCHANGED vars
    BY <1>3 DEF vars, TypeOK
<1> QED
    BY <1>1, <1>2, <1>3, WorkerType, UserType DEF Next

\* The tables, the queue and the jobs keep their types.
THEOREM TypeCorrectness == Spec => []TypeOK
    BY TypeInit, TypeStep, PTL DEF Spec

-----------------------------------------------------------------------------
(* What "sent" means *)

\* A message is being filed only after it has left, by whichever worker.
FiledHasLeft ==
    \A w \in Workers : \A r \in job[w].cur : job[w].stage = "filing" => r \in reached

IInv == TypeOK /\ FiledHasLeft /\ SentWasDelivered

\* The invariant behind SentWasDelivered holds initially.
LEMMA SentInit == Init => IInv
    BY TypeInit DEF Init, IInv, FiledHasLeft, SentWasDelivered, NoJob, WithStatus

\* A worker files a recipient as sent only once the message has left.
LEMMA SentWorker ==
    ASSUME IInv, NEW w \in Workers, WorkerStep(w) \/ Die(w)
    PROVE  FiledHasLeft' /\ SentWasDelivered'
<1> USE DEF IInv, FiledHasLeft, SentWasDelivered, WithStatus
<1>a. job \in [Workers -> Jobs] /\ row \in [Recipients -> Rows]
    BY DEF TypeOK
<1>b. ASSUME Idle(w), reached' = reached PROVE FiledHasLeft'
    BY <1>a, <1>b DEF Idle, NoJob
<1>1. ASSUME TakeJob(w) PROVE FiledHasLeft' /\ SentWasDelivered'
    <2>1. \A v \in Workers : job'[v] = job[v] \/ job'[v].cur = {}
        BY <1>1, <1>a DEF TakeJob
    <2> QED
        BY <1>1, <2>1 DEF TakeJob
<1>2. ASSUME CompleteCampaign(w) PROVE FiledHasLeft' /\ SentWasDelivered'
    BY <1>2, <1>b DEF CompleteCampaign
<1>3. ASSUME NEW r \in Recipients, Deliver(w, r) PROVE FiledHasLeft' /\ SentWasDelivered'
    <2>1. /\ job'[w].cur = {r}
          /\ \A v \in Workers \ {w} : job'[v] = job[v]
        BY <1>3, <1>a DEF Deliver, Jobs
    <2> QED
        BY <1>3, <2>1 DEF Deliver
<1>4. ASSUME NEW r \in Recipients, MarkSent(w, r) PROVE FiledHasLeft' /\ SentWasDelivered'
    <2>1. r \in reached
        BY <1>4 DEF MarkSent
    <2>2. /\ job'[w].cur = {}
          /\ \A v \in Workers \ {w} : job'[v] = job[v]
        BY <1>4, <1>a DEF MarkSent, Advance, Jobs
    <2>3. \A q \in Recipients \ {r} : row'[q] = row[q]
        BY <1>4, <1>a DEF MarkSent
    <2> QED
        BY <1>4, <2>1, <2>2, <2>3 DEF MarkSent
<1>5. ASSUME NEW r \in Recipients, Fail(w, r) PROVE FiledHasLeft' /\ SentWasDelivered'
    <2>1. \A q \in Recipients : row'[q].status \in {row[q].status, "failed"}
        BY <1>5, <1>a DEF Fail, CountAttempt, Attempted
    <2> QED
        BY <1>5, <1>b, <2>1 DEF Fail
<1>6. ASSUME FinishBatch(w) PROVE FiledHasLeft' /\ SentWasDelivered'
    BY <1>6, <1>b DEF FinishBatch
<1>7. ASSUME Die(w) PROVE FiledHasLeft' /\ SentWasDelivered'
    BY <1>7, <1>b DEF Die
<1> QED
    BY <1>1, <1>2, <1>3, <1>4, <1>5, <1>6, <1>7 DEF WorkerStep

\* Every step keeps the invariant behind SentWasDelivered.
LEMMA SentStep == IInv /\ [Next]_vars => IInv'
<1> SUFFICES ASSUME IInv, [Next]_vars PROVE FiledHasLeft' /\ SentWasDelivered'
    BY TypeStep DEF IInv
<1>a. row \in [Recipients -> Rows]
    BY DEF IInv, TypeOK
<1>1. ASSUME NEW w \in Workers, WorkerStep(w) \/ Die(w) PROVE FiledHasLeft' /\ SentWasDelivered'
    BY <1>1, SentWorker
<1>2. ASSUME UNCHANGED <<job, reached>>,
             \A r \in Recipients : row'[r].status = "sent" => row[r].status = "sent"
      PROVE  FiledHasLeft' /\ SentWasDelivered'
    BY <1>2 DEF IInv, FiledHasLeft, SentWasDelivered, WithStatus
<1>3. ASSUME SchedulerTick \/ NextDay PROVE FiledHasLeft' /\ SentWasDelivered'
    <2>1. \A r \in Recipients : row'[r].status = row[r].status
        BY <1>3, <1>a DEF SchedulerTick, NextDay, Rows
    <2> QED
        BY <1>2, <1>3, <2>1 DEF SchedulerTick, NextDay
<1>4. ASSUME UserStep PROVE FiledHasLeft' /\ SentWasDelivered'
    <2>1. \A r \in Recipients : row'[r].status = "sent" => row[r].status = "sent"
        BY <1>4, <1>a DEF UserStep, StartCampaign, EditCampaign, AddRecipient, DeleteRecipient,
           Requeue, Unsubscribe, Rows
    <2> QED
        BY <1>2, <1>4, <2>1 DEF UserStep, StartCampaign, EditCampaign, AddRecipient,
           DeleteRecipient, Requeue, Unsubscribe
<1>5. CASE UNCHANGED vars
    BY <1>2, <1>5 DEF vars
<1> QED
    BY <1>1, <1>3, <1>4, <1>5 DEF Next

\* Nobody is recorded as sent to whom no message has left, however many workers
\* there are and wherever a job fails or is lost.
THEOREM SentMeansDelivered == Spec => []SentWasDelivered
<1>1. IInv => SentWasDelivered
    BY DEF IInv
<1> QED
    BY <1>1, SentInit, SentStep, PTL DEF Spec

-----------------------------------------------------------------------------
(* The daily limit, with one worker *)

\* What a day has recorded and what the job still has to record.
Claimed(w) == SentToday \cup job[w].todo

WithinLimit(w) == Cardinality(Claimed(w)) <= limit

\* The row being filed is one of those left to do.
CurrentIsLeft(w) == job[w].cur \subseteq job[w].todo

\* The recipients a worker has claimed are finitely many.
LEMMA ClaimedFinite ==
    ASSUME TypeOK, NEW w \in Workers
    PROVE  IsFiniteSet(Claimed(w)) /\ Cardinality(Claimed(w)) \in Nat
<1>1. Claimed(w) \subseteq Recipients
    BY DEF TypeOK, Jobs, Claimed, SentToday, WithStatus
<1> QED
    BY <1>1, BulkMailAssumption, FS_Subset, FS_CardinalityType

\* Only reading a batch claims rows that were not claimed.
LEMMA ClaimShrinks ==
    ASSUME TypeOK, NEW w \in Workers, WithinLimit(w), limit' = limit,
           Claimed(w)' \subseteq Claimed(w)
    PROVE  WithinLimit(w)'
<1>1. Cardinality(Claimed(w)') <= Cardinality(Claimed(w))
    BY ClaimedFinite, FS_Subset
<1>2. IsFiniteSet(Claimed(w)') /\ Cardinality(Claimed(w)') \in Nat
    BY ClaimedFinite, FS_Subset, FS_CardinalityType
<1>3. limit \in Nat
    BY BulkMailAssumption DEF TypeOK
<1> QED
    BY <1>1, <1>2, <1>3, ClaimedFinite DEF WithinLimit

\* Taking a job claims no more than what is left of the day.
LEMMA TakeWithinLimit ==
    ASSUME TypeOK, NEW w \in Workers, WithinLimit(w), TakeJob(w)
    PROVE  WithinLimit(w)'
<1>1. limit' = limit /\ SentToday' = SentToday
    BY DEF TakeJob, SentToday, WithStatus
<1>2. CASE job' = job
    BY <1>1, <1>2, ClaimShrinks DEF Claimed
<1>3. ASSUME NEW B \in SUBSET Recipients, Batch(B), job'[w].todo = B
      PROVE  WithinLimit(w)'
    <2>1. /\ SentToday \subseteq Recipients
          /\ IsFiniteSet(SentToday) /\ Cardinality(SentToday) \in Nat
          /\ IsFiniteSet(B) /\ Cardinality(B) \in Nat
        BY BulkMailAssumption, FS_Subset, FS_CardinalityType DEF SentToday, WithStatus
    <2>2. SentToday \cap B = {}
        BY <1>3 DEF Batch, SentToday, WithStatus
    <2>3. Cardinality(SentToday \cup B) = Cardinality(SentToday) + Cardinality(B)
        <3>1. Cardinality(SentToday \cup B)
                 = Cardinality(SentToday) + Cardinality(B) - Cardinality(SentToday \cap B)
            BY <2>1, FS_Union
        <3>2. Cardinality(SentToday \cap B) = 0
            BY <2>2, FS_EmptySet
        <3> QED
            BY <2>1, <3>1, <3>2
    <2>4. limit \in Nat
        BY BulkMailAssumption DEF TypeOK
    <2>5. Cardinality(SentToday) <= limit
        <3>1. SentToday \subseteq Claimed(w)
            BY DEF Claimed
        <3>2. Cardinality(SentToday) <= Cardinality(Claimed(w))
            BY <3>1, ClaimedFinite, FS_Subset
        <3> QED
            BY <2>1, <2>4, <3>2, ClaimedFinite DEF WithinLimit
    <2>6. Cardinality(B) <= limit - Cardinality(SentToday)
        <3>1. Cardinality(B) <= RemainingDailyLimit
            BY <1>3 DEF Batch
        <3>2. RemainingDailyLimit = limit - Cardinality(SentToday)
            BY <2>1, <2>4, <2>5 DEF RemainingDailyLimit
        <3> QED
            BY <3>1, <3>2
    <2>7. Claimed(w)' = SentToday \cup B
        BY <1>1, <1>3 DEF Claimed
    <2>8. Cardinality(SentToday \cup B) <= limit
        BY <2>1, <2>3, <2>4, <2>6
    <2> QED
        BY <1>1, <2>7, <2>8 DEF WithinLimit
<1>4. \/ job' = job
      \/ \E B \in SUBSET Recipients : Batch(B) /\ job'[w].todo = B
    BY DEF TakeJob, TypeOK
<1> QED
    BY <1>2, <1>3, <1>4

\* With one worker, the recipient it is sending to stays in its list.
LEMMA CurrentStep ==
    ASSUME NEW w, Workers = {w}
    PROVE  TypeOK /\ CurrentIsLeft(w) /\ [Next]_vars => CurrentIsLeft(w)'
<1> SUFFICES ASSUME TypeOK, CurrentIsLeft(w), [Next]_vars PROVE CurrentIsLeft(w)'
    OBVIOUS
<1> USE DEF CurrentIsLeft
<1>a. job \in [Workers -> Jobs] /\ w \in Workers
    BY DEF TypeOK
<1>0. ASSUME job' = job \/ job'[w].cur = {} PROVE CurrentIsLeft(w)'
    BY <1>0
<1>1. ASSUME NEW r \in Recipients, Deliver(w, r) PROVE CurrentIsLeft(w)'
    <2>1. job'[w].todo = job[w].todo /\ job'[w].cur = {r}
        BY <1>1, <1>a DEF Deliver, Jobs
    <2> QED
        BY <1>1, <2>1 DEF Deliver
<1>2. ASSUME NEW r \in Recipients, MarkSent(w, r) \/ Fail(w, r) PROVE CurrentIsLeft(w)'
    <2>1. CASE MarkSent(w, r)
        <3>1. job'[w].cur = {}
            BY <1>a, <2>1 DEF MarkSent, Advance, Jobs
        <3> QED
            BY <1>0, <3>1
    <2>2. CASE Fail(w, r)
        <3>1. job'[w].cur = {}
            BY <1>a, <2>2 DEF Fail, Idle, NoJob
        <3> QED
            BY <1>0, <3>1
    <2> QED
        BY <1>2, <2>1, <2>2
<1>3. ASSUME TakeJob(w) \/ CompleteCampaign(w) \/ FinishBatch(w) \/ Die(w)
      PROVE  CurrentIsLeft(w)'
    <2>1. job' = job \/ job'[w].cur = {}
        BY <1>3, <1>a DEF TakeJob, CompleteCampaign, FinishBatch, Die, Idle, NoJob
    <2> QED
        BY <1>0, <2>1
<1>4. ASSUME SchedulerTick \/ NextDay \/ UserStep \/ UNCHANGED vars PROVE CurrentIsLeft(w)'
    BY <1>0, <1>4 DEF SchedulerTick, NextDay, UserStep, StartCampaign, EditCampaign,
       AddRecipient, DeleteRecipient, Requeue, Unsubscribe, vars
<1> QED
    BY <1>1, <1>2, <1>3, <1>4 DEF Next, WorkerStep

\* With one worker, every step leaves the claims within the day's limit.
LEMMA LimitStep ==
    ASSUME NEW w, Workers = {w}
    PROVE  TypeOK /\ CurrentIsLeft(w) /\ WithinLimit(w) /\ [Next]_vars => WithinLimit(w)'
<1> SUFFICES ASSUME TypeOK, CurrentIsLeft(w), WithinLimit(w), [Next]_vars PROVE WithinLimit(w)'
    OBVIOUS
<1>a. job \in [Workers -> Jobs] /\ row \in [Recipients -> Rows] /\ w \in Workers
    BY DEF TypeOK
<1>0. ASSUME limit' = limit, Claimed(w)' \subseteq Claimed(w) PROVE WithinLimit(w)'
    BY <1>0, <1>a, ClaimShrinks
<1> USE DEF Claimed, SentToday, WithStatus
<1>b. ASSUME Idle(w) PROVE job'[w].todo = {}
    BY <1>a, <1>b DEF Idle, NoJob
<1>1. ASSUME TakeJob(w) PROVE WithinLimit(w)'
    BY <1>1, <1>a, TakeWithinLimit
<1>2. ASSUME CompleteCampaign(w) PROVE WithinLimit(w)'
    BY <1>0, <1>2, <1>b DEF CompleteCampaign
<1>3. ASSUME NEW r \in Recipients, Deliver(w, r) PROVE WithinLimit(w)'
    <2>1. job'[w].todo = job[w].todo
        BY <1>3, <1>a DEF Deliver, Jobs
    <2> QED
        BY <1>0, <1>3, <2>1 DEF Deliver
<1>4. ASSUME NEW r \in Recipients, MarkSent(w, r) PROVE WithinLimit(w)'
    <2>0. r \in job[w].todo
        BY <1>4 DEF MarkSent, CurrentIsLeft
    <2>1. job'[w].todo = job[w].todo \ {r}
        BY <1>4, <1>a DEF MarkSent, Advance, Jobs
    <2>2. \A q \in Recipients \ {r} : row'[q] = row[q]
        BY <1>4, <1>a DEF MarkSent
    <2>3. Claimed(w)' \subseteq Claimed(w)
        BY <1>4, <2>0, <2>1, <2>2
    <2> QED
        BY <1>0, <1>4, <2>3 DEF MarkSent
<1>5. ASSUME NEW r \in Recipients, Fail(w, r) PROVE WithinLimit(w)'
    <2>1. \A q \in Recipients : /\ row'[q].status \in {row[q].status, "failed"}
                                /\ row'[q].sentAt = row[q].sentAt
        BY <1>5, <1>a DEF Fail, CountAttempt, Attempted
    <2> QED
        BY <1>0, <1>5, <1>b, <2>1 DEF Fail
<1>6. ASSUME FinishBatch(w) PROVE WithinLimit(w)'
    BY <1>0, <1>6, <1>b DEF FinishBatch
<1>7. ASSUME Die(w) PROVE WithinLimit(w)'
    BY <1>0, <1>7, <1>b DEF Die
<1>8. ASSUME UNCHANGED <<job, limit>>,
             \A r \in Recipients :
                 row'[r].status = "sent" /\ row'[r].sentAt = "today" =>
                     row[r].status = "sent" /\ row[r].sentAt = "today"
      PROVE  WithinLimit(w)'
    BY <1>0, <1>8
<1>9. ASSUME SchedulerTick \/ NextDay PROVE WithinLimit(w)'
    <2>1. \A r \in Recipients : row'[r] = row[r] \/ row'[r].sentAt # "today"
        BY <1>9, <1>a DEF SchedulerTick, NextDay, Rows
    <2> QED
        BY <1>8, <1>9, <2>1 DEF SchedulerTick, NextDay
<1>10. ASSUME UserStep PROVE WithinLimit(w)'
    <2>1. \A r \in Recipients : row'[r] = row[r] \/ row'[r].status # "sent"
        BY <1>10, <1>a DEF UserStep, StartCampaign, EditCampaign, AddRecipient, DeleteRecipient,
           Requeue, Unsubscribe, Rows
    <2> QED
        BY <1>8, <1>10, <2>1 DEF UserStep, StartCampaign, EditCampaign, AddRecipient,
           DeleteRecipient, Requeue, Unsubscribe
<1>11. CASE UNCHANGED vars
    BY <1>8, <1>11 DEF vars
<1> QED
    BY <1>1, <1>2, <1>3, <1>4, <1>5, <1>6, <1>7, <1>9, <1>10, <1>11 DEF Next, WorkerStep

\* One worker never records more messages in a day than the campaign's limit,
\* though a batch reads what is left of the day once and works on for minutes.
THEOREM OneWorkerKeepsTheLimit ==
    ASSUME NEW w, Workers = {w}
    PROVE  Spec => []RecordedWithinDailyLimit
<1> DEFINE LInv == TypeOK /\ CurrentIsLeft(w) /\ WithinLimit(w)
<1>1. Init => LInv
    <2> SUFFICES ASSUME Init PROVE CurrentIsLeft(w) /\ WithinLimit(w)
        BY TypeInit
    <2>1. job[w].cur = {} /\ Claimed(w) = {}
        BY DEF Init, NoJob, Claimed, SentToday, WithStatus
    <2>2. limit \in Nat
        BY TypeInit, BulkMailAssumption DEF TypeOK
    <2> QED
        BY <2>1, <2>2, FS_EmptySet DEF CurrentIsLeft, WithinLimit
<1>2. LInv /\ [Next]_vars => LInv'
    BY TypeStep, CurrentStep, LimitStep
<1>3. LInv => RecordedWithinDailyLimit
    <2> SUFFICES ASSUME LInv PROVE Cardinality(SentToday) <= limit
        BY DEF RecordedWithinDailyLimit
    <2>1. SentToday \subseteq Claimed(w) /\ limit \in Nat
        BY BulkMailAssumption DEF Claimed, TypeOK
    <2>2. /\ IsFiniteSet(SentToday) /\ Cardinality(SentToday) \in Nat
          /\ Cardinality(SentToday) <= Cardinality(Claimed(w))
        BY <2>1, ClaimedFinite, FS_Subset, FS_CardinalityType
    <2> QED
        BY <2>1, <2>2, ClaimedFinite DEF WithinLimit
<1> QED
    BY <1>1, <1>2, <1>3, PTL DEF Spec

-----------------------------------------------------------------------------
(* Retries, with one worker *)

\* A job files one row at a time, one of those it has left to do.
JobShape(w) ==
    /\ job[w].cur \subseteq job[w].todo
    /\ job[w].stage # "filing" => job[w].cur = {}
    /\ \A q, r \in job[w].cur : q = r

\* A message that has left and that no attempt has been counted for yet.
Uncounted(w, r) == IF r \in job[w].cur THEN 1 ELSE 0

\* A row that is still to be mailed was mailed once for each attempt counted, in
\* the table or by the job that read it, and once for each job lost; it has
\* attempts left.  The two counts part when the row is requeued, skipped or
\* deleted under the job.
MailsCounted(w, r) ==
    /\ row[r].status = "none" =>
          mails[r] = 0 /\ row[r].attempts = 0 /\ r \notin job[w].todo
    /\ row[r].status = "pending" =>
          /\ row[r].attempts < RetryAttempts
          /\ mails[r] <= row[r].attempts + deaths + Uncounted(w, r)
    /\ r \in job[w].todo =>
          /\ row[r].status # "sent"
          /\ row[r].attempts <= job[w].seen[r]
          /\ job[w].seen[r] < RetryAttempts
          /\ mails[r] <= job[w].seen[r] + deaths + Uncounted(w, r)
    /\ mails[r] <= RetryAttempts + deaths

RetryInv(w) == TypeOK /\ JobShape(w) /\ \A r \in Recipients : MailsCounted(w, r)

\* The numbers behind it.
LEMMA RetryNumbers ==
    ASSUME TypeOK, NEW w \in Workers, NEW r \in Recipients
    PROVE  /\ row[r] \in Rows /\ row[r].attempts \in Nat /\ mails[r] \in Nat
           /\ job[w] \in Jobs /\ job[w].seen[r] \in Nat
           /\ deaths \in Nat /\ RetryAttempts \in Nat \ {0}
           /\ Uncounted(w, r) \in {0, 1}
<1>1. row[r] \in Rows /\ job[w] \in Jobs /\ mails[r] \in Nat
    BY DEF TypeOK
<1>2. row[r].attempts \in Nat /\ job[w].seen[r] \in Nat
    BY <1>1 DEF Rows, Jobs
<1>3. deaths \in Nat /\ RetryAttempts \in Nat \ {0}
    BY BulkMailAssumption DEF TypeOK
<1> QED
    BY <1>1, <1>2, <1>3 DEF Uncounted

\* A job that ends: nothing is in flight, and the mails of a row being filed
\* were counted, as an attempt or as a job lost.
LEMMA JobEnds ==
    ASSUME NEW w \in Workers, RetryInv(w), Idle(w), NEW r \in Recipients, TypeOK',
           row'[r].status = "none" => mails'[r] = 0 /\ row'[r].attempts = 0,
           row'[r].status = "pending" =>
              row'[r].attempts < RetryAttempts /\ mails'[r] <= row'[r].attempts + deaths',
           mails'[r] <= RetryAttempts + deaths'
    PROVE  JobShape(w)' /\ MailsCounted(w, r)'
<1>1. job'[w] = NoJob
    BY DEF Idle, RetryInv, TypeOK
<1>2. job'[w].cur = {} /\ job'[w].todo = {}
    BY <1>1 DEF NoJob
<1>3. JobShape(w)'
    BY <1>2 DEF JobShape
<1>4. Uncounted(w, r)' = 0
    BY <1>2 DEF Uncounted
<1>5. row'[r].status = "pending" =>
          row'[r].attempts < RetryAttempts /\ mails'[r] <= row'[r].attempts + deaths' + 0
    <2>1. row'[r] \in Rows /\ deaths' \in Nat /\ mails'[r] \in Nat
        BY BulkMailAssumption DEF TypeOK
    <2>2. row'[r].attempts \in Nat
        BY <2>1 DEF Rows
    <2> QED
        BY <2>1, <2>2
<1> QED
    BY <1>2, <1>3, <1>4, <1>5 DEF MailsCounted

\* A step of the scheduler, the clock or the pages.
LEMMA RetryOutside ==
    ASSUME NEW w \in Workers, RetryInv(w), TypeOK', SchedulerTick \/ NextDay \/ UserStep
    PROVE  RetryInv(w)'
<1>1. job' = job /\ deaths' = deaths
    BY DEF SchedulerTick, NextDay, UserStep, StartCampaign, EditCampaign, AddRecipient,
       DeleteRecipient, Requeue, Unsubscribe
<1>2. JobShape(w)' /\ \A r \in Recipients : Uncounted(w, r)' = Uncounted(w, r)
    BY <1>1 DEF RetryInv, JobShape, Uncounted
<1>a. row \in [Recipients -> Rows] /\ mails \in [Recipients -> Nat]
    BY DEF RetryInv, TypeOK
<1>3. ASSUME NEW r \in Recipients
      PROVE  \/ /\ row'[r].status = row[r].status /\ row'[r].attempts = row[r].attempts
                /\ mails'[r] = mails[r]
             \/ /\ row[r].status = "none" /\ row'[r].status = "pending"
                /\ row'[r].attempts = row[r].attempts /\ mails'[r] = mails[r]
             \/ /\ row'[r].status = "deleted" /\ row'[r].attempts = 0
                /\ mails'[r] = mails[r]
             \/ /\ row[r].status # "none" /\ row'[r].status = "pending"
                /\ row'[r].attempts = 0 /\ mails'[r] = 0
             \/ /\ row'[r].status = "skipped" /\ row'[r].attempts = row[r].attempts
                /\ mails'[r] = mails[r]
    <2>1. CASE SchedulerTick
        BY <2>1 DEF SchedulerTick
    <2>2. CASE NextDay
        BY <1>a, <2>2 DEF NextDay, Rows
    <2>3. CASE StartCampaign \/ \E status \in CampaignStatuses : EditCampaign(status)
        BY <2>3 DEF StartCampaign, EditCampaign
    <2>4. ASSUME NEW q \in Recipients, AddRecipient(q)
          PROVE  \/ /\ row'[r].status = row[r].status /\ row'[r].attempts = row[r].attempts
                    /\ mails'[r] = mails[r]
                 \/ /\ row[r].status = "none" /\ row'[r].status = "pending"
                    /\ row'[r].attempts = row[r].attempts /\ mails'[r] = mails[r]
        BY <1>a, <2>4 DEF AddRecipient, Rows
    <2>5. ASSUME NEW q \in Recipients, DeleteRecipient(q)
          PROVE  \/ /\ row'[r].status = row[r].status /\ row'[r].attempts = row[r].attempts
                    /\ mails'[r] = mails[r]
                 \/ /\ row'[r].status = "deleted" /\ row'[r].attempts = 0
                    /\ mails'[r] = mails[r]
        BY <1>a, <2>5 DEF DeleteRecipient, Rows
    <2>6. ASSUME NEW q \in Recipients, Requeue(q)
          PROVE  \/ /\ row'[r].status = row[r].status /\ row'[r].attempts = row[r].attempts
                    /\ mails'[r] = mails[r]
                 \/ /\ row[r].status # "none" /\ row'[r].status = "pending"
                    /\ row'[r].attempts = 0 /\ mails'[r] = 0
        BY <1>a, <2>6 DEF Requeue, Rows
    <2>7. ASSUME NEW q \in Recipients, Unsubscribe(q)
          PROVE  \/ /\ row'[r].status = row[r].status /\ row'[r].attempts = row[r].attempts
                    /\ mails'[r] = mails[r]
                 \/ /\ row'[r].status = "skipped" /\ row'[r].attempts = row[r].attempts
                    /\ mails'[r] = mails[r]
        BY <1>a, <2>7 DEF Unsubscribe, Rows
    <2> QED
        BY <2>1, <2>2, <2>3, <2>4, <2>5, <2>6, <2>7 DEF UserStep
<1>4. ASSUME NEW r \in Recipients PROVE MailsCounted(w, r)'
    <2>1. MailsCounted(w, r)
        BY DEF RetryInv
    <2>2. /\ row[r].attempts \in Nat /\ mails[r] \in Nat /\ job[w].seen[r] \in Nat
          /\ deaths \in Nat /\ RetryAttempts \in Nat \ {0} /\ Uncounted(w, r) \in {0, 1}
        BY RetryNumbers DEF RetryInv
    <2>3. job'[w] = job[w] /\ deaths' = deaths /\ Uncounted(w, r)' = Uncounted(w, r)
        BY <1>1, <1>2
    <2> QED
        BY <1>3, <2>1, <2>2, <2>3 DEF MailsCounted
<1> QED
    BY <1>2, <1>4 DEF RetryInv

\* A step of the worker.
LEMMA RetryWorker ==
    ASSUME NEW w \in Workers, RetryInv(w), TypeOK', WorkerStep(w) \/ Die(w)
    PROVE  RetryInv(w)'
<1>a. /\ job \in [Workers -> Jobs] /\ row \in [Recipients -> Rows]
      /\ mails \in [Recipients -> Nat] /\ JobShape(w)
    BY DEF RetryInv, TypeOK
<1>b. \A r \in Recipients :
          /\ MailsCounted(w, r)
          /\ row[r].attempts \in Nat /\ mails[r] \in Nat /\ job[w].seen[r] \in Nat
          /\ deaths \in Nat /\ RetryAttempts \in Nat \ {0} /\ Uncounted(w, r) \in {0, 1}
    BY RetryNumbers DEF RetryInv
<1>c. ASSUME job[w].stage # "filing", job'[w] = job[w] \/ Idle(w),
             UNCHANGED <<row, mails, deaths>>
      PROVE  RetryInv(w)'
    <2>1. \A r \in Recipients : Uncounted(w, r) = 0
        BY <1>a, <1>c DEF JobShape, Uncounted
    <2>2. CASE job'[w] = job[w]
        <3>1. JobShape(w)' /\ \A r \in Recipients : Uncounted(w, r)' = Uncounted(w, r)
            BY <1>a, <2>2 DEF JobShape, Uncounted
        <3>2. \A r \in Recipients : MailsCounted(w, r)'
            BY <1>b, <1>c, <2>2, <3>1 DEF MailsCounted
        <3> QED
            BY <3>1, <3>2 DEF RetryInv
    <2>3. CASE Idle(w)
        <3>1. JobShape(w)'
            BY <1>a, <2>3 DEF Idle, NoJob, JobShape
        <3>2. ASSUME NEW r \in Recipients PROVE MailsCounted(w, r)'
            BY <1>b, <1>c, <2>1, <2>3, JobEnds DEF MailsCounted
        <3> QED
            BY <3>1, <3>2 DEF RetryInv
    <2> QED
        BY <1>c, <2>2, <2>3
<1>1. ASSUME TakeJob(w) PROVE RetryInv(w)'
    <2>0. job[w].stage = "idle" /\ UNCHANGED <<row, mails, deaths>>
        BY <1>1 DEF TakeJob
    <2>1. CASE job' = job
        BY <1>c, <2>0, <2>1
    <2>2. ASSUME NEW B \in SUBSET Recipients, Batch(B),
                 job' = [job EXCEPT ![w] =
                           [stage |-> IF B = {} THEN "empty" ELSE "sending",
                            todo  |-> B,
                            cur   |-> {},
                            seen  |-> [r \in Recipients |->
                                         IF r \in B THEN row[r].attempts ELSE 0]]]
          PROVE  RetryInv(w)'
        <3>1. /\ job'[w].todo = B /\ job'[w].cur = {}
              /\ \A r \in B : job'[w].seen[r] = row[r].attempts
            BY <1>a, <2>2
        <3>2. \A r \in B : row[r].status = "pending"
            BY <2>2 DEF Batch, WithStatus
        <3>3. JobShape(w)'
            BY <3>1 DEF JobShape
        <3>4. \A r \in Recipients : Uncounted(w, r)' = 0 /\ Uncounted(w, r) = 0
            BY <1>a, <2>0, <3>1 DEF JobShape, Uncounted
        <3>5. ASSUME NEW r \in Recipients PROVE MailsCounted(w, r)'
            BY <1>b, <2>0, <3>1, <3>2, <3>4 DEF MailsCounted
        <3> QED
            BY <3>3, <3>5 DEF RetryInv
    <2> QED
        BY <1>1, <2>1, <2>2 DEF TakeJob
<1>2. ASSUME CompleteCampaign(w) \/ FinishBatch(w) PROVE RetryInv(w)'
    BY <1>2, <1>c DEF CompleteCampaign, FinishBatch
<1>3. ASSUME NEW r \in Recipients, Deliver(w, r) PROVE RetryInv(w)'
    <2>1. /\ job'[w].todo = job[w].todo /\ job'[w].cur = {r} /\ job'[w].seen = job[w].seen
          /\ job'[w].stage = "filing" /\ r \in job[w].todo
        BY <1>3, <1>a DEF Deliver, Jobs
    <2>2. JobShape(w)'
        BY <2>1 DEF JobShape
    <2>3. job[w].cur = {}
        BY <1>3, <1>a DEF Deliver, JobShape
    <2>4. ASSUME NEW q \in Recipients PROVE MailsCounted(w, q)'
        <3>1. Uncounted(w, q) = 0 /\ Uncounted(w, q)' = IF q = r THEN 1 ELSE 0
            BY <2>1, <2>3 DEF Uncounted
        <3>2. mails'[q] = mails[q] + (IF q = r THEN 1 ELSE 0) /\ UNCHANGED <<row, deaths>>
            BY <1>3, <1>a, <1>b DEF Deliver
        <3>3. q = r => row[q].status # "none" /\ mails[q] <= job[w].seen[q] + deaths
                       /\ job[w].seen[q] < RetryAttempts
            BY <1>b, <2>1, <3>1 DEF MailsCounted
        <3> QED
            BY <1>b, <2>1, <3>1, <3>2, <3>3 DEF MailsCounted
    <2> QED
        BY <2>2, <2>4 DEF RetryInv
<1>4. ASSUME NEW r \in Recipients, MarkSent(w, r) PROVE RetryInv(w)'
    <2>1. /\ job'[w].todo = job[w].todo \ {r} /\ job'[w].cur = {}
          /\ job'[w].seen = job[w].seen
        BY <1>4, <1>a DEF MarkSent, Advance, Jobs
    <2>2. JobShape(w)'
        BY <2>1 DEF JobShape
    <2>3. job[w].cur = {r}
        BY <1>4, <1>a DEF MarkSent, JobShape
    <2>4. /\ row'[r].status = "sent" /\ UNCHANGED <<mails, deaths>>
          /\ \A q \in Recipients \ {r} : row'[q] = row[q]
        BY <1>4, <1>a DEF MarkSent, Rows
    <2>5. ASSUME NEW q \in Recipients PROVE MailsCounted(w, q)'
        <3>1. Uncounted(w, q)' = 0 /\ (q # r => Uncounted(w, q) = 0)
            BY <2>1, <2>3 DEF Uncounted
        <3> QED
            BY <1>b, <2>1, <2>4, <3>1 DEF MailsCounted
    <2> QED
        BY <2>2, <2>5 DEF RetryInv
<1>5. ASSUME NEW r \in Recipients, Fail(w, r) PROVE RetryInv(w)'
    <2>1. Idle(w) /\ UNCHANGED <<mails, deaths>> /\ r \in job[w].todo
        BY <1>5, <1>a DEF Fail, JobShape
    <2>2. \A q \in Recipients : q # r => Uncounted(w, q) = 0
        BY <1>5, <1>a DEF Fail, JobShape, Uncounted
    <2>3. \A q \in Recipients \ {r} : row'[q] = row[q]
        BY <1>5, <1>a DEF Fail, CountAttempt
    <2>4. \/ row'[r] = row[r] /\ row[r].status = "deleted"
          \/ /\ row'[r].status = IF job[w].seen[r] + 1 >= RetryAttempts THEN "failed"
                                 ELSE row[r].status
             /\ row'[r].attempts = row[r].attempts + 1
        BY <1>5, <1>a DEF Fail, CountAttempt, Attempted
    <2>5. ASSUME NEW q \in Recipients PROVE JobShape(w)' /\ MailsCounted(w, q)'
        <3>1. CASE q # r
            BY <1>b, <2>1, <2>2, <2>3, <3>1, JobEnds DEF MailsCounted
        <3>2. CASE q = r
            <4>1. row[r].status # "none"
                BY <1>b, <2>1 DEF MailsCounted
            <4>2. row'[r].status # "none"
                BY <2>4, <4>1
            <4>3. row'[r].status = "pending" =>
                     row'[r].attempts < RetryAttempts /\ mails'[r] <= row'[r].attempts + deaths'
                BY <1>b, <2>1, <2>4 DEF MailsCounted
            <4>4. mails'[r] <= RetryAttempts + deaths'
                BY <1>b, <2>1 DEF MailsCounted
            <4> QED
                BY <2>1, <3>2, <4>2, <4>3, <4>4, JobEnds
        <3> QED
            BY <3>1, <3>2
    <2>6. JobShape(w)'
        BY <2>5
    <2> QED
        BY <2>5, <2>6 DEF RetryInv
<1>6. ASSUME Die(w) PROVE RetryInv(w)'
    <2>1. Idle(w) /\ UNCHANGED <<row, mails>> /\ deaths' = deaths + 1
        BY <1>6 DEF Die
    <2>2. JobShape(w)'
        BY <1>a, <2>1 DEF Idle, NoJob, JobShape
    <2>3. ASSUME NEW r \in Recipients PROVE MailsCounted(w, r)'
        BY <1>b, <2>1, JobEnds DEF MailsCounted
    <2> QED
        BY <2>2, <2>3 DEF RetryInv
<1> QED
    BY <1>1, <1>2, <1>3, <1>4, <1>5, <1>6 DEF WorkerStep

\* RetryInv holds initially.
LEMMA RetryInit == ASSUME NEW w \in Workers, Init PROVE RetryInv(w)
<1>1. TypeOK
    BY TypeInit
<1>2. job[w].todo = {} /\ job[w].cur = {}
    BY DEF Init, NoJob
<1>3. deaths \in Nat /\ RetryAttempts \in Nat
    BY BulkMailAssumption DEF Init
<1>4. \A r \in Recipients : row[r].status = "none" /\ row[r].attempts = 0 /\ mails[r] = 0
    BY DEF Init
<1> QED
    BY <1>1, <1>2, <1>3, <1>4 DEF RetryInv, JobShape, MailsCounted

\* With one worker, every step keeps RetryInv.
LEMMA RetryStep ==
    ASSUME NEW w, Workers = {w}, RetryInv(w), [Next]_vars
    PROVE  RetryInv(w)'
<1>1. w \in Workers /\ TypeOK'
    BY TypeStep DEF RetryInv
<1>2. CASE UNCHANGED vars
    BY <1>1, <1>2 DEF vars, RetryInv, JobShape, MailsCounted, Uncounted
<1> QED
    BY <1>1, <1>2, RetryOutside, RetryWorker DEF Next

\* With one worker, however sending, filing and printing fail, a recipient is
\* mailed at most retry_attempts times and once for each job lost half-way since
\* it was last requeued by hand.
THEOREM RetriesBoundTheMails ==
    ASSUME NEW w, Workers = {w}
    PROVE  Spec => []MailedWithinRetries
<1>1. Init => RetryInv(w)
    BY RetryInit
<1>2. RetryInv(w) /\ [Next]_vars => RetryInv(w)'
    BY RetryStep
<1>3. RetryInv(w) => MailedWithinRetries
    BY DEF RetryInv, MailsCounted, MailedWithinRetries
<1> QED
    BY <1>1, <1>2, <1>3, PTL DEF Spec

\* With one worker, no message leaves for a recipient already recorded as sent,
\* though a batch works on with the statuses it read.
THEOREM SentIsNotMailedAgain ==
    ASSUME NEW w, Workers = {w}
    PROVE  Spec => NeverMailedTwice
<1>1. Init => RetryInv(w)
    BY RetryInit
<1>2. RetryInv(w) /\ [Next]_vars => RetryInv(w)'
    BY RetryStep
<1>3. RetryInv(w) /\ [Next]_vars =>
          [\A r \in Recipients : mails'[r] > mails[r] => row[r].status # "sent"]_vars
    <2> SUFFICES ASSUME RetryInv(w), Next, NEW r \in Recipients, mails'[r] > mails[r]
                 PROVE  row[r].status # "sent"
        OBVIOUS
    <2>1. mails[r] \in Nat /\ mails \in [Recipients -> Nat]
        BY DEF RetryInv, TypeOK
    <2>2. PICK q \in Recipients : Deliver(w, q) \/ Requeue(q)
        <3>1. mails' # mails
            BY <2>1
        <3> QED
            BY <3>1 DEF Next, SchedulerTick, NextDay, WorkerStep, TakeJob, CompleteCampaign,
               MarkSent, Fail, FinishBatch, Die, UserStep, StartCampaign, EditCampaign,
               AddRecipient, DeleteRecipient, Unsubscribe
    <2>3. CASE Deliver(w, q)
        <3>1. r = q
            BY <2>1, <2>3 DEF Deliver
        <3> QED
            BY <2>3, <3>1 DEF Deliver, RetryInv, MailsCounted
    <2>4. CASE Requeue(q)
        <3>1. mails'[r] = mails[r] \/ mails'[r] = 0
            BY <2>1, <2>4 DEF Requeue
        <3> QED
            BY <2>1, <3>1
    <2> QED
        BY <2>2, <2>3, <2>4
<1> QED
    BY <1>1, <1>2, <1>3, PTL DEF Spec, NeverMailedTwice

=============================================================================
