----------------------------- MODULE NatPipeline -----------------------------
(***************************************************************************)
(* The asynchronous NAT pipeline: the rows of one PostgreSQL database and  *)
(* the processes that move a batch from its upload to its result e-mail.   *)
(*                                                                         *)
(*   upload -> nat_task_status_worker -> nat_batch_notify_worker           *)
(*          -> aggregator (external) -> assomi_worker                      *)
(*          -> intake_result_email_worker                                  *)
(*                                                                         *)
(* A worker opens a transaction, claims ONE row with SELECT .. FOR UPDATE  *)
(* SKIP LOCKED, makes its outside call while the row locks are held, then  *)
(* records the answer and commits, or rolls back.  Every claim joins       *)
(* nat_batches without OF, so what it locks always includes the batch row: *)
(* one lock per batch is exact.  Claim and answer are separate steps, so   *)
(* every other process may step between them.                              *)
(***************************************************************************)
EXTENDS Naturals, FiniteSets

CONSTANTS
  Batches,        \* nat_batches rows; their numbers are their created_at order
  Tasks,          \* nat_tasks rows
  BatchOf,        \* [Tasks -> Batches], the batch_id of a task
  Source,         \* [Batches -> source of the intake]
  StatusWorkers, NotifyWorkers, AssomiWorkers, MailWorkers,  \* replicas
  Requests,       \* concurrent pause/resume calls of the API
  BatchLimit,     \* *_WORKER_BATCH_LIMIT, 0 for *_PROCESS_ALL=true
  RespectPause,   \* INTAKE_RESULT_EMAIL_RESPECT_PROCESSING_PAUSE
  AggResults,     \* the ways the external aggregation may end
  MaxFaults,      \* bound: outside effects whose answer is never recorded
  NoBatch, NoTask

Workers == StatusWorkers \cup NotifyWorkers \cup AssomiWorkers \cup MailWorkers

\* How the aggregator's row may end: failed, or completed with a usable
\* spin_matched_path, with a whitespace-only one, or with none.
AggEnds == {"failed", "spin", "blank", "nospin"}

ASSUME PipelineAssumption ==
  /\ Batches \subseteq Nat /\ IsFiniteSet(Batches)
  /\ BatchOf \in [Tasks -> Batches]
  /\ \A b \in Batches : \E t \in Tasks : BatchOf[t] = b
  /\ Source \in [Batches -> {"nat", "manual_spin", "manual_assomi"}]
  /\ StatusWorkers \cap NotifyWorkers = {}
  /\ StatusWorkers \cap AssomiWorkers = {}
  /\ StatusWorkers \cap MailWorkers = {}
  /\ NotifyWorkers \cap AssomiWorkers = {}
  /\ NotifyWorkers \cap MailWorkers = {}
  /\ AssomiWorkers \cap MailWorkers = {}
  /\ BatchLimit \in Nat
  /\ RespectPause \in BOOLEAN
  /\ AggResults \subseteq AggEnds
  /\ MaxFaults \in Nat
  /\ NoBatch \notin Batches
  /\ NoTask \notin Tasks

VARIABLES
  live,      \* [Batches -> BOOLEAN]: the upload that creates the batch has committed
  asked,     \* [Batches -> BOOLEAN]: single_stage_only as given to the upload
  paused,    \* nat_batches.processing_paused
  single,    \* nat_batches.single_stage_only
  notified,  \* nat_batches.notified_at is set
  emailed,   \* nat_batches.result_emailed_at is set
  task,      \* nat_tasks (status, error_message), see TaskStates
  agg,       \* aggregation_tasks row of the batch
  assomi,    \* assomi_tasks row of the batch
  arank,     \* order of assomi_tasks.created_at
  gpaused,   \* nat_global_processing.processing_paused
  spinReq,   \* the manual-SPIN upload request of the batch
  pc,        \* program point of each worker
  claim,     \* the batch whose row locks the worker's transaction holds
  ctask,     \* the task a status worker has claimed
  enq,       \* what an assomi worker's INSERT .. SELECT has read
  processed, \* rows handled in the current queue of the current cycle
  apiReq,    \* [Requests -> a checked, not yet applied pause/resume]
  sends, notices, mails, \* outside effects so far: NAT requests, notifications, e-mails
  told,      \* [Batches -> SUBSET outcomes]: what the e-mails said
  faults     \* outside effects whose answer was never recorded

rowVars  == <<live, asked, paused, single, notified, emailed, task, agg, assomi,
              arank, gpaused>>
loopVars == <<pc, claim, ctask, enq, processed>>
seenVars == <<sends, notices, mails, told, faults>>
vars     == <<rowVars, spinReq, loopVars, apiReq, seenVars>>

\* nat_tasks by what the claims tell apart: "ready" is NULL status without
\* error, "unsent" NULL status with error_message, "inflight" one of
\* NON_TERMINAL_NAT_STATUSES, "abandoned" LOCAL_ABANDONED, "failed" any other
\* code that is not COMPLETED.
TaskStates   == {"ready", "unsent", "inflight", "completed", "failed", "abandoned"}
NatAnswers   == {"inflight", "completed", "failed"}
AggStates    == AggEnds \cup {"none", "pending"}
AssomiStates == {"none", "pending", "completed", "failed"}
Outcomes     == {"success", "assomi_failed", "aggregation_failed", "no_spin", "nat_failed"}

-----------------------------------------------------------------------------
(* Predicates of the claims.                                               *)

TasksOf(b)        == {t \in Tasks : BatchOf[t] = b}
HasCompleted(b)   == \E t \in TasksOf(b) : task[t] = "completed"
\* Mutant: error_message is forgotten, a rejected task counts as pending.
HasNonTerminal_NoErrorMessage(b) ==
  \E t \in TasksOf(b) : task[t] \in {"ready", "unsent", "inflight"}
HasNonTerminal(b) == \E t \in TasksOf(b) : task[t] \in {"ready", "inflight"}

\* Mutant: unfinished tasks are forgotten, no success yet counts as failure.
NatAllFailed_NoTerminalCheck(b) == Source[b] = "nat" /\ ~HasCompleted(b)
\* nat_all_failed of the claim and is_nat_all_failed of pipeline_outcome.py
NatAllFailed(b) == Source[b] = "nat" /\ ~HasCompleted(b) /\ ~HasNonTerminal(b)

\* Mutant: SELECT without FOR UPDATE.
Locked_NoForUpdate(b) == FALSE
\* Mutant: the claims look at the global pause only.
Running_GlobalOnly(b) == ~gpaused
Locked(b)  == \E w \in Workers : claim[w] = b
Running(b) == ~paused[b] /\ ~gpaused

Dispatchable == {t \in Tasks : LET b == BatchOf[t] IN
                   /\ live[b] /\ Source[b] = "nat" /\ task[t] = "ready"
                   /\ Running(b) /\ ~Locked(b)}

\* Mutant: whatever is not COMPLETED is polled again.
Pollable_Failed == {t \in Tasks : LET b == BatchOf[t] IN
                      /\ live[b] /\ Source[b] = "nat" /\ ~Locked(b)
                      /\ task[t] \in {"inflight", "failed"}}
Pollable == {t \in Tasks : LET b == BatchOf[t] IN
               live[b] /\ Source[b] = "nat" /\ task[t] = "inflight" /\ ~Locked(b)}

\* Mutant: one completed task is enough.
Notifiable_Unsettled == {b \in Batches :
                           /\ live[b] /\ Source[b] = "nat" /\ ~notified[b]
                           /\ Running(b) /\ ~Locked(b) /\ HasCompleted(b)}
Notifiable == {b \in Batches :
                 /\ live[b] /\ Source[b] = "nat" /\ ~notified[b]
                 /\ Running(b) /\ ~Locked(b)
                 /\ HasCompleted(b) /\ ~HasNonTerminal(b)}

AllFailedSingleStage == {b \in Batches : live[b] /\ single[b] /\ Running(b)
                                         /\ ~Locked(b) /\ NatAllFailed(b)}

\* INSERT .. SELECT takes no row lock: a locked batch is enqueued as well
Enqueueable == {b \in Batches : live[b] /\ agg[b] \in {"spin", "blank"}
                                /\ assomi[b] = "none" /\ Running(b)}

AssomiClaimable == {b \in Batches : live[b] /\ assomi[b] = "pending"
                                    /\ Running(b) /\ ~Locked(b)}

\* Mutant: this claim alone trims the path, the claim that enqueues does not.
ReadyForMail_Trimmed(b) == \/ assomi[b] \in {"completed", "failed"}
                           \/ agg[b] = "failed"
                           \/ agg[b] \in {"nospin", "blank"} /\ assomi[b] = "none"
                           \/ NatAllFailed(b)
\* ready_for_result_email of the claim (SQL)
ReadyForMail(b) == \/ assomi[b] \in {"completed", "failed"}
                   \/ agg[b] = "failed"
                   \/ agg[b] = "nospin" /\ assomi[b] = "none"
                   \/ NatAllFailed(b)

\* Mutant: result_emailed_at is not looked at.
Mailable_Again == {b \in Batches : /\ live[b] /\ ~single[b]
                                   /\ ReadyForMail(b) /\ ~Locked(b)
                                   /\ RespectPause => Running(b)}
Mailable == {b \in Batches : /\ live[b] /\ ~emailed[b] /\ ~single[b]
                             /\ ReadyForMail(b) /\ ~Locked(b)
                             /\ RespectPause => Running(b)}

\* classify_pipeline_outcome (Python), "none" where it returns None; a blank
\* path is no path here, but is one to the SQL of the claims
Classify(b) ==
  CASE assomi[b] = "completed" -> "success"
    [] assomi[b] = "failed"    -> "assomi_failed"
    [] assomi[b] \in {"none", "pending"} /\ agg[b] = "failed" -> "aggregation_failed"
    [] assomi[b] = "none" /\ agg[b] \in {"nospin", "blank"}   -> "no_spin"
    [] assomi[b] \in {"none", "pending"} /\ agg[b] # "failed"
       /\ ~(assomi[b] = "none" /\ agg[b] \in {"nospin", "blank"})
       /\ NatAllFailed(b) -> "nat_failed"
    [] OTHER -> "none"

\* is_pipeline_terminal: the results of the batch may be downloaded
PipelineTerminal(b) == live[b] /\ ~single[b] /\ Classify(b) # "none"

\* ORDER BY created_at LIMIT 1: the tasks of one batch share their created_at
OldestTasks(S)   == {t \in S : \A u \in S : BatchOf[t] <= BatchOf[u]}
OldestBatches(S) == {b \in S : \A c \in S : b <= c}
OldestAssomi(S)  == {b \in S : \A c \in S : arank[b] <= arank[c]}

-----------------------------------------------------------------------------
(* Steps shared by the workers' loops.                                     *)

Exhausted(w) == BatchLimit # 0 /\ processed[w] >= BatchLimit

\* Mutant: handled rows are not counted.
Counted_Never(w) == UNCHANGED processed
Counted(w) == processed' = [processed EXCEPT ![w] = IF BatchLimit = 0 THEN 0 ELSE @ + 1]

\* the transaction is open, the rows of b are locked, the call is under way
Open(w, b, at) ==
  /\ pc' = [pc EXCEPT ![w] = at]
  /\ claim' = [claim EXCEPT ![w] = b]
  /\ UNCHANGED <<enq, processed>>

\* commit or rollback: the locks are gone and the loop counts one row
Close(w, at) ==
  /\ pc' = [pc EXCEPT ![w] = at]
  /\ claim' = [claim EXCEPT ![w] = NoBatch]
  /\ Counted(w)
  /\ UNCHANGED enq

\* the loop over one queue has broken off, the next one starts
NextQueue(w, at) ==
  /\ pc' = [pc EXCEPT ![w] = at]
  /\ processed' = [processed EXCEPT ![w] = 0]
  /\ UNCHANGED <<claim, ctask, enq>>

CanLose == faults < MaxFaults
Lose    == faults' = faults + 1

SetTask(w, s) == task' = [task EXCEPT ![ctask[w]] = s]
Forget(w)     == ctask' = [ctask EXCEPT ![w] = NoTask]

taskRest  == <<live, asked, paused, single, notified, emailed, agg, assomi, arank, gpaused>>
batchRest == <<live, asked, emailed, task, agg, assomi, arank, gpaused>>
quiet     == <<spinReq, apiReq>>
-----------------------------------------------------------------------------
(* nat_task_status_worker: the dispatch queue, then the poll queue.        *)

ClaimDispatch(w) ==
  /\ pc[w] = "dispatch" /\ ~Exhausted(w)
  /\ \E t \in OldestTasks(Dispatchable) :
       /\ Open(w, BatchOf[t], "sending")
       /\ ctask' = [ctask EXCEPT ![w] = t]
  /\ UNCHANGED <<rowVars, quiet, seenVars>>

EndDispatch(w) ==
  /\ pc[w] = "dispatch" /\ (Exhausted(w) \/ Dispatchable = {})
  /\ NextQueue(w, "poll")
  /\ UNCHANGED <<rowVars, quiet, seenVars>>

\* ACTION=send succeeded: update_after_send stores whatever status NAT gave
SendOk(w) ==
  /\ pc[w] = "sending"
  /\ \E s \in NatAnswers : SetTask(w, s)
  /\ sends' = [sends EXCEPT ![ctask[w]] = @ + 1]
  /\ Close(w, "dispatch") /\ Forget(w)
  /\ UNCHANGED <<taskRest, quiet, notices, mails, told, faults>>

\* permanent error: error_message is set, the status stays NULL
SendRejected(w) ==
  /\ pc[w] = "sending"
  /\ SetTask(w, "unsent")
  /\ Close(w, "dispatch") /\ Forget(w)
  /\ UNCHANGED <<taskRest, quiet, seenVars>>

\* transient error: rollback, the loop goes on and will claim the row again
SendTransient(w) ==
  /\ pc[w] = "sending"
  /\ Close(w, "dispatch") /\ Forget(w)
  /\ UNCHANGED <<rowVars, quiet, seenVars>>

\* NAT created the request but its answer is lost (timeout, unreadable body,
\* a crash or a failed commit after the call): nothing is recorded
SendLost(w) ==
  /\ pc[w] = "sending" /\ CanLose
  /\ sends' = [sends EXCEPT ![ctask[w]] = @ + 1]
  /\ Close(w, "dispatch") /\ Forget(w) /\ Lose
  /\ UNCHANGED <<rowVars, quiet, notices, mails, told>>

ClaimPoll(w) ==
  /\ pc[w] = "poll" /\ ~Exhausted(w)
  /\ \E t \in OldestTasks(Pollable) :
       /\ Open(w, BatchOf[t], "polling")
       /\ ctask' = [ctask EXCEPT ![w] = t]
  /\ UNCHANGED <<rowVars, quiet, seenVars>>

\* both queues are done: the cycle ends, the worker sleeps and starts over
EndPoll(w) ==
  /\ pc[w] = "poll" /\ (Exhausted(w) \/ Pollable = {})
  /\ NextQueue(w, "dispatch")
  /\ UNCHANGED <<rowVars, quiet, seenVars>>

\* the status call answered: update_after_poll, also when still in flight
PollOk(w, s) ==
  /\ pc[w] = "polling"
  /\ SetTask(w, s)
  /\ Close(w, "poll") /\ Forget(w)
  /\ UNCHANGED <<taskRest, quiet, seenVars>>

\* Mutant: a status no reader of the row knows.
PollRejected_UnknownStatus(w) ==
  /\ pc[w] = "polling"
  /\ SetTask(w, "rejected")
  /\ Close(w, "poll") /\ Forget(w)
  /\ UNCHANGED <<taskRest, quiet, seenVars>>

\* permanent error: LOCAL_ABANDONED with error_message
PollRejected(w) ==
  /\ pc[w] = "polling"
  /\ SetTask(w, "abandoned")
  /\ Close(w, "poll") /\ Forget(w)
  /\ UNCHANGED <<taskRest, quiet, seenVars>>

PollTransient(w) ==
  /\ pc[w] = "polling"
  /\ Close(w, "poll") /\ Forget(w)
  /\ UNCHANGED <<rowVars, quiet, seenVars>>

StatusStep(w) ==
  \/ ClaimDispatch(w) \/ EndDispatch(w)
  \/ SendOk(w) \/ SendRejected(w) \/ SendTransient(w) \/ SendLost(w)
  \/ ClaimPoll(w) \/ EndPoll(w)
  \/ (\E s \in NatAnswers : PollOk(w, s)) \/ PollRejected(w) \/ PollTransient(w)

-----------------------------------------------------------------------------
(* nat_batch_notify_worker: stop single-stage batches whose NAT tasks all  *)
(* failed, then notify the aggregator about settled batches.               *)

\* set_processing_paused(paused=True): only the pause flag changes
Pause(b) == paused' = [paused EXCEPT ![b] = TRUE] /\ UNCHANGED single

StopAllFailed(w) ==
  /\ pc[w] = "stop" /\ ~Exhausted(w)
  /\ \E b \in OldestBatches(AllFailedSingleStage) : Pause(b)
  /\ Close(w, "stop")
  /\ UNCHANGED <<batchRest, notified, ctask, quiet, seenVars>>

EndStop(w) ==
  /\ pc[w] = "stop" /\ (Exhausted(w) \/ AllFailedSingleStage = {})
  /\ NextQueue(w, "notify")
  /\ UNCHANGED <<rowVars, quiet, seenVars>>

\* a single-stage batch is paused instead of being notified
StopSingleStage(w) ==
  /\ pc[w] = "notify" /\ ~Exhausted(w)
  /\ \E b \in OldestBatches(Notifiable) : single[b] /\ Pause(b)
  /\ Close(w, "notify")
  /\ UNCHANGED <<batchRest, notified, ctask, quiet, seenVars>>

\* Mutant: single-stage batches are notified as well.
ClaimNotify_SingleStage(w) ==
  /\ pc[w] = "notify" /\ ~Exhausted(w)
  /\ \E b \in OldestBatches(Notifiable) : Open(w, b, "notifying")
  /\ UNCHANGED <<rowVars, ctask, quiet, seenVars>>

ClaimNotify(w) ==
  /\ pc[w] = "notify" /\ ~Exhausted(w)
  /\ \E b \in OldestBatches(Notifiable) : ~single[b] /\ Open(w, b, "notifying")
  /\ UNCHANGED <<rowVars, ctask, quiet, seenVars>>

EndNotify(w) ==
  /\ pc[w] = "notify" /\ (Exhausted(w) \/ Notifiable = {})
  /\ NextQueue(w, "stop")
  /\ UNCHANGED <<rowVars, quiet, seenVars>>

\* 202 Accepted: mark_notified
NotifyOk(w) ==
  /\ pc[w] = "notifying"
  /\ notified' = [notified EXCEPT ![claim[w]] = TRUE]
  /\ notices' = [notices EXCEPT ![claim[w]] = @ + 1]
  /\ Close(w, "notify")
  /\ UNCHANGED <<batchRest, paused, single, ctask, quiet, sends, mails, told, faults>>

NotifyFailed(w) ==
  /\ pc[w] = "notifying"
  /\ Close(w, "notify")
  /\ UNCHANGED <<rowVars, ctask, quiet, seenVars>>

\* the aggregator took the notification, notified_at was never committed
NotifyLost(w) ==
  /\ pc[w] = "notifying" /\ CanLose
  /\ notices' = [notices EXCEPT ![claim[w]] = @ + 1]
  /\ Close(w, "notify") /\ Lose
  /\ UNCHANGED <<rowVars, ctask, quiet, sends, mails, told>>

NotifyStep(w) ==
  \/ StopAllFailed(w) \/ EndStop(w)
  \/ StopSingleStage(w) \/ ClaimNotify(w) \/ EndNotify(w)
  \/ NotifyOk(w) \/ NotifyFailed(w) \/ NotifyLost(w)

-----------------------------------------------------------------------------
(* assomi_worker: enqueue what the aggregation completed, then enrich it.  *)

\* the SELECT of ensure_pending_for_completed_aggregation_tasks
EnsureRead(w) ==
  /\ pc[w] = "ensure"
  /\ enq' = [enq EXCEPT ![w] = Enqueueable]
  /\ pc' = [pc EXCEPT ![w] = "ensuring"]
  /\ UNCHANGED <<rowVars, claim, ctask, processed, quiet, seenVars>>

\* its INSERT .. ON CONFLICT DO NOTHING and the commit: pause is not read again
EnsureCommit(w) ==
  LET new == {b \in enq[w] : assomi[b] = "none"}
      last == Cardinality({b \in Batches : assomi[b] # "none"})
  IN /\ pc[w] = "ensuring"
     /\ assomi' = [b \in Batches |-> IF b \in new THEN "pending" ELSE assomi[b]]
     /\ arank' = [b \in Batches |-> IF b \in new THEN last ELSE arank[b]]
     /\ enq' = [enq EXCEPT ![w] = {}]
     /\ pc' = [pc EXCEPT ![w] = "process"]
     /\ processed' = [processed EXCEPT ![w] = 0]
     /\ UNCHANGED <<live, asked, paused, single, notified, emailed, task, agg, gpaused,
                    claim, ctask, quiet, seenVars>>

ClaimAssomi(w) ==
  /\ pc[w] = "process" /\ ~Exhausted(w)
  /\ \E b \in OldestAssomi(AssomiClaimable) : Open(w, b, "fetching")
  /\ UNCHANGED <<rowVars, ctask, quiet, seenVars>>

EndAssomi(w) ==
  /\ pc[w] = "process" /\ (Exhausted(w) \/ AssomiClaimable = {})
  /\ NextQueue(w, "ensure")
  /\ UNCHANGED <<rowVars, quiet, seenVars>>

\* Mutant: maybe_pause_single_stage_batch is not called.
AssomiDone_NoPause(w) ==
  /\ pc[w] = "fetching"
  /\ \E r \in {"completed", "failed"} :
       /\ agg[claim[w]] = "spin" \/ r = "failed"
       /\ assomi' = [assomi EXCEPT ![claim[w]] = r]
  /\ Close(w, "process")
  /\ UNCHANGED <<live, asked, paused, single, notified, emailed, task, agg, arank, gpaused,
                 ctask, quiet, seenVars>>

\* mark_completed or mark_failed, then maybe_pause_single_stage_batch, in one
\* commit.  Without a usable spin_matched_path the only end is "failed".
AssomiDone(w) ==
  LET b == claim[w] IN
  /\ pc[w] = "fetching"
  /\ \E r \in {"completed", "failed"} :
       /\ agg[b] = "spin" \/ r = "failed"
       /\ assomi' = [assomi EXCEPT ![b] = r]
  /\ paused' = [paused EXCEPT ![b] = @ \/ single[b]]
  /\ Close(w, "process")
  /\ UNCHANGED <<live, asked, single, notified, emailed, task, agg, arank, gpaused,
                 ctask, quiet, seenVars>>

\* transient error of the ASSOMI service: rollback, claimed again at once
AssomiTransient(w) ==
  /\ pc[w] = "fetching" /\ agg[claim[w]] = "spin"
  /\ Close(w, "process")
  /\ UNCHANGED <<rowVars, ctask, quiet, seenVars>>

AssomiStep(w) == \/ EnsureRead(w) \/ EnsureCommit(w) \/ ClaimAssomi(w)
                 \/ EndAssomi(w) \/ AssomiDone(w) \/ AssomiTransient(w)

-----------------------------------------------------------------------------
(* intake_result_email_worker.                                             *)

ClaimMail(w) ==
  /\ pc[w] = "mail" /\ ~Exhausted(w)
  /\ \E b \in OldestBatches(Mailable) : Open(w, b, "mailing")
  /\ UNCHANGED <<rowVars, ctask, quiet, seenVars>>

EndMail(w) ==
  /\ pc[w] = "mail" /\ (Exhausted(w) \/ Mailable = {})
  /\ NextQueue(w, "mail")
  /\ UNCHANGED <<rowVars, quiet, seenVars>>

\* the SMTP server has taken a message that reports Classify(b), which is read
\* after the claim, from the rows as they are then
Mailed(b) ==
  /\ Classify(b) # "none"
  /\ mails' = [mails EXCEPT ![b] = @ + 1]
  /\ told' = [told EXCEPT ![b] = @ \cup {Classify(b)}]

MailOk(w) ==
  /\ pc[w] = "mailing"
  /\ Mailed(claim[w])
  /\ emailed' = [emailed EXCEPT ![claim[w]] = TRUE]
  /\ Close(w, "mail")
  /\ UNCHANGED <<live, asked, paused, single, notified, task, agg, assomi, arank, gpaused,
                 ctask, quiet, sends, notices, faults>>

\* SmtpClientError, or 'skipped' because nothing could be classified: rollback
MailNotSent(w) ==
  /\ pc[w] = "mailing"
  /\ Close(w, "mail")
  /\ UNCHANGED <<rowVars, ctask, quiet, seenVars>>

\* sent, but the process died or the commit failed before result_emailed_at
MailLost(w) ==
  /\ pc[w] = "mailing" /\ CanLose
  /\ Mailed(claim[w])
  /\ Close(w, "mail") /\ Lose
  /\ UNCHANGED <<rowVars, ctask, quiet, sends, notices>>

MailStep(w) == ClaimMail(w) \/ EndMail(w) \/ MailOk(w) \/ MailNotSent(w) \/ MailLost(w)

-----------------------------------------------------------------------------
(* Restart of a worker, and an exception that ends its cycle: the open     *)
(* transaction is rolled back and run_once starts from its first queue.    *)

FirstQueue(w) == IF w \in StatusWorkers THEN "dispatch"
                 ELSE IF w \in NotifyWorkers THEN "stop"
                 ELSE IF w \in AssomiWorkers THEN "ensure" ELSE "mail"

Abort(w) ==
  /\ pc' = [pc EXCEPT ![w] = FirstQueue(w)]
  /\ claim' = [claim EXCEPT ![w] = NoBatch]
  /\ ctask' = [ctask EXCEPT ![w] = NoTask]
  /\ enq' = [enq EXCEPT ![w] = {}]
  /\ processed' = [processed EXCEPT ![w] = 0]
  /\ UNCHANGED <<rowVars, quiet, seenVars>>

-----------------------------------------------------------------------------
(* The API.                                                                *)

\* one commit of IntakeService.process creates intake, batch and tasks
AcceptNat(b, s) ==
  /\ ~live[b] /\ Source[b] = "nat"
  /\ live' = [live EXCEPT ![b] = TRUE]
  /\ asked' = [asked EXCEPT ![b] = s]
  /\ single' = [single EXCEPT ![b] = s]
  /\ UNCHANGED <<paused, notified, emailed, task, agg, assomi, arank, gpaused, quiet,
                 loopVars, seenVars>>

\* a manual upload creates a placeholder task that no claim will ever take
Upload(b, s, aggRow) ==
  /\ ~live[b]
  /\ live' = [live EXCEPT ![b] = TRUE]
  /\ asked' = [asked EXCEPT ![b] = s]
  /\ single' = [single EXCEPT ![b] = s]
  /\ task' = [t \in Tasks |-> IF BatchOf[t] = b THEN "abandoned" ELSE task[t]]
  /\ agg' = [agg EXCEPT ![b] = aggRow]
  /\ UNCHANGED <<paused, notified, emailed, gpaused, apiReq, loopVars, seenVars>>

AcceptAssomi(b, s) ==
  /\ Source[b] = "manual_assomi"
  /\ Upload(b, s, "spin")
  /\ assomi' = [assomi EXCEPT ![b] = "pending"]
  /\ arank' = [arank EXCEPT ![b] = Cardinality({c \in Batches : assomi[c] # "none"})]
  /\ UNCHANGED spinReq

\* ManualSpinMatchService.process: the rows are committed, then SPIN is called
AcceptSpin(b, s) ==
  /\ Source[b] = "manual_spin"
  /\ Upload(b, s, "pending")
  /\ spinReq' = [spinReq EXCEPT ![b] = "calling"]
  /\ UNCHANGED <<assomi, arank>>

spinRest == <<rowVars, apiReq, loopVars>>

SpinStarted(b) == notices' = [notices EXCEPT ![b] = @ + 1]

SpinCallOk(b) ==
  /\ spinReq[b] = "calling"
  /\ SpinStarted(b)
  /\ spinReq' = [spinReq EXCEPT ![b] = "marking"]
  /\ UNCHANGED <<spinRest, sends, mails, told, faults>>

\* ManualSpinUpstreamFailure: nothing more is written
SpinCallFailed(b) ==
  /\ spinReq[b] = "calling"
  /\ spinReq' = [spinReq EXCEPT ![b] = "failed"]
  /\ UNCHANGED <<spinRest, seenVars>>

\* SPIN accepted the match but the client saw a failure, or the app died
SpinCallLost(b) ==
  /\ spinReq[b] = "calling" /\ CanLose
  /\ SpinStarted(b) /\ Lose
  /\ spinReq' = [spinReq EXCEPT ![b] = "failed"]
  /\ UNCHANGED <<spinRest, sends, mails, told>>

\* Mutant: mark_notified is not called.
SpinMark_NotNotified(b) ==
  /\ spinReq[b] = "marking" /\ ~Locked(b)
  /\ paused' = [paused EXCEPT ![b] = @ \/ asked[b]]
  /\ spinReq' = [spinReq EXCEPT ![b] = "done"]
  /\ UNCHANGED <<live, asked, single, notified, emailed, task, agg, assomi, arank, gpaused,
                 apiReq, loopVars, seenVars>>

\* mark_notified and, when asked for, the pause: the UPDATE waits for row locks
SpinMark(b) ==
  /\ spinReq[b] = "marking" /\ ~Locked(b)
  /\ notified' = [notified EXCEPT ![b] = TRUE]
  /\ paused' = [paused EXCEPT ![b] = @ \/ asked[b]]
  /\ spinReq' = [spinReq EXCEPT ![b] = "done"]
  /\ UNCHANGED <<live, asked, single, emailed, task, agg, assomi, arank, gpaused, apiReq,
                 loopVars, seenVars>>

\* the app dies after the call and before the second commit
SpinMarkLost(b) ==
  /\ spinReq[b] = "marking" /\ CanLose /\ Lose
  /\ spinReq' = [spinReq EXCEPT ![b] = "failed"]
  /\ UNCHANGED <<spinRest, sends, notices, mails, told>>

SpinStep(b) == \/ SpinCallOk(b) \/ SpinCallFailed(b) \/ SpinCallLost(b)
               \/ SpinMark(b) \/ SpinMarkLost(b)

NoRequest == [batch |-> NoBatch, paused |-> FALSE]

\* IntakeProcessingService: the 404/409 checks read the row without a lock ..
PauseCheck(r, b, v) ==
  /\ apiReq[r] = NoRequest
  /\ live[b] /\ ~emailed[b]
  /\ apiReq' = [apiReq EXCEPT ![r] = [batch |-> b, paused |-> v]]
  /\ UNCHANGED <<rowVars, spinReq, loopVars, seenVars>>

\* .. and the UPDATE, once no transaction holds the row, repeats none of them;
\* resuming clears single_stage_only
PauseApply(r) ==
  LET b == apiReq[r].batch
      v == apiReq[r].paused
  IN /\ apiReq[r] # NoRequest /\ ~Locked(b)
     /\ paused' = [paused EXCEPT ![b] = v]
     /\ single' = [single EXCEPT ![b] = @ /\ v]
     /\ apiReq' = [apiReq EXCEPT ![r] = NoRequest]
     /\ UNCHANGED <<batchRest, notified, spinReq, loopVars, seenVars>>

\* GlobalProcessingService.set_processing_paused: touches no batch row
GlobalPause(v) ==
  /\ gpaused # v
  /\ gpaused' = v
  /\ UNCHANGED <<live, asked, paused, single, notified, emailed, task, agg, assomi, arank,
                 quiet, loopVars, seenVars>>

-----------------------------------------------------------------------------
(* The external aggregator and SPIN service: owner of aggregation_tasks.   *)

AggCreate(b) ==
  /\ Source[b] = "nat" /\ notices[b] > 0 /\ agg[b] = "none"
  /\ agg' = [agg EXCEPT ![b] = "pending"]
  /\ UNCHANGED <<live, asked, paused, single, notified, emailed, task, assomi, arank, gpaused,
                 quiet, loopVars, seenVars>>

AggFinish(b) ==
  /\ agg[b] = "pending" /\ notices[b] > 0
  /\ \E r \in AggResults : agg' = [agg EXCEPT ![b] = r]
  /\ UNCHANGED <<live, asked, paused, single, notified, emailed, task, assomi, arank, gpaused,
                 quiet, loopVars, seenVars>>

-----------------------------------------------------------------------------

Init ==
  /\ live = [b \in Batches |-> FALSE]
  /\ asked = [b \in Batches |-> FALSE]
  /\ paused = [b \in Batches |-> FALSE]
  /\ single = [b \in Batches |-> FALSE]
  /\ notified = [b \in Batches |-> FALSE]
  /\ emailed = [b \in Batches |-> FALSE]
  /\ task = [t \in Tasks |-> "ready"]
  /\ agg = [b \in Batches |-> "none"]
  /\ assomi = [b \in Batches |-> "none"]
  /\ arank = [b \in Batches |-> 0]
  /\ gpaused = FALSE
  /\ spinReq = [b \in Batches |-> "none"]
  /\ pc = [w \in Workers |-> FirstQueue(w)]
  /\ claim = [w \in Workers |-> NoBatch]
  /\ ctask = [w \in Workers |-> NoTask]
  /\ enq = [w \in Workers |-> {}]
  /\ processed = [w \in Workers |-> 0]
  /\ apiReq = [r \in Requests |-> NoRequest]
  /\ sends = [t \in Tasks |-> 0]
  /\ notices = [b \in Batches |-> 0]
  /\ mails = [b \in Batches |-> 0]
  /\ told = [b \in Batches |-> {}]
  /\ faults = 0

WorkerStep ==
  \/ \E w \in StatusWorkers : StatusStep(w)
  \/ \E w \in NotifyWorkers : NotifyStep(w)
  \/ \E w \in AssomiWorkers : AssomiStep(w)
  \/ \E w \in MailWorkers : MailStep(w)

WorkerNext == WorkerStep \/ \E w \in Workers : Abort(w)

ApiNext ==
  \/ \E b \in Batches, s \in BOOLEAN : AcceptNat(b, s) \/ AcceptAssomi(b, s) \/ AcceptSpin(b, s)
  \/ \E b \in Batches : SpinStep(b)
  \/ \E r \in Requests, b \in Batches, v \in BOOLEAN : PauseCheck(r, b, v)
  \/ \E r \in Requests : PauseApply(r)
  \/ \E v \in BOOLEAN : GlobalPause(v)

AggNext == \E b \in Batches : AggCreate(b) \/ AggFinish(b)

Next == WorkerNext \/ ApiNext \/ AggNext

Spec == Init /\ [][Next]_vars

SendAnswered(w) == SendOk(w) \/ SendRejected(w)
PollSettled(w)  == (\E s \in NatAnswers \ {"inflight"} : PollOk(w, s)) \/ PollRejected(w)

\* What the code's scheduling gives: a worker's loop goes on after any answer
\* and any exception.  Restarts and exceptions come to an end, and NAT finishes
\* what it was sent and answers status calls, but perhaps never a request to send.
LoopFairness ==
  /\ <>[][WorkerStep \/ ApiNext \/ AggNext]_vars
  /\ \A w \in StatusWorkers : WF_vars(StatusStep(w)) /\ SF_vars(PollSettled(w))

\* Every outside service answers definitely again and again, aggregations are
\* finished some day, and an upload request that was begun is carried through.
ServiceFairness ==
  /\ LoopFairness
  /\ \A w \in StatusWorkers : SF_vars(SendAnswered(w))
  /\ \A w \in NotifyWorkers : WF_vars(NotifyStep(w)) /\ SF_vars(NotifyOk(w))
  /\ \A w \in AssomiWorkers : WF_vars(AssomiStep(w)) /\ SF_vars(AssomiDone(w))
  /\ \A w \in MailWorkers : WF_vars(MailStep(w)) /\ SF_vars(MailOk(w))
  /\ \A b \in Batches : WF_vars(SpinStep(b)) /\ WF_vars(AggCreate(b)) /\ WF_vars(AggFinish(b))

FairSpec == Spec /\ LoopFairness

-----------------------------------------------------------------------------
(* intake_monitoring_mapping: the numbers of the tasks of a batch.         *)

CountOf(b, states) == Cardinality({t \in TasksOf(b) : task[t] \in states})

\* Mutant: status IS NULL is enough.
PendingDispatch_NullStatus(b) == CountOf(b, {"ready", "unsent"})
PendingDispatch(b) == CountOf(b, {"ready"})
InProgress(b)      == CountOf(b, {"inflight"})
Completed(b)       == CountOf(b, {"completed"})
\* what is none of the others
FailedTasks(b)     == Cardinality(TasksOf(b)) - PendingDispatch(b) - InProgress(b) - Completed(b)

-----------------------------------------------------------------------------
(* Properties.                                                             *)

TypeRows ==
  /\ live \in [Batches -> BOOLEAN] /\ asked \in [Batches -> BOOLEAN]
  /\ paused \in [Batches -> BOOLEAN] /\ single \in [Batches -> BOOLEAN]
  /\ notified \in [Batches -> BOOLEAN] /\ emailed \in [Batches -> BOOLEAN]
  /\ task \in [Tasks -> TaskStates]
  /\ agg \in [Batches -> AggStates]
  /\ assomi \in [Batches -> AssomiStates]
  /\ arank \in [Batches -> Nat]
  /\ gpaused \in BOOLEAN

TypeLoop ==
  /\ pc \in [Workers -> {"dispatch", "sending", "poll", "polling", "stop", "notify",
                         "notifying", "ensure", "ensuring", "process", "fetching",
                         "mail", "mailing"}]
  /\ claim \in [Workers -> Batches \cup {NoBatch}]
  /\ ctask \in [Workers -> Tasks \cup {NoTask}]
  /\ enq \in [Workers -> SUBSET Batches]
  /\ processed \in [Workers -> Nat]

TypeCalls ==
  /\ spinReq \in [Batches -> {"none", "calling", "marking", "done", "failed"}]
  /\ apiReq \in [Requests -> [batch : Batches \cup {NoBatch}, paused : BOOLEAN]]

TypeSeen ==
  /\ sends \in [Tasks -> Nat]
  /\ notices \in [Batches -> Nat] /\ mails \in [Batches -> Nat]
  /\ told \in [Batches -> SUBSET Outcomes]
  /\ faults \in 0 .. MaxFaults

\* Every variable holds values the code can store or be in.
TypeOK == TypeRows /\ TypeLoop /\ TypeCalls /\ TypeSeen

\* A batch pause is a barrier: once its commit is visible no dispatch,
\* notification or ASSOMI call for the batch is under way, since the UPDATE of
\* the API waits for the row lock the caller holds, and none begins.  Polling
\* goes on; result e-mail obeys the worker's setting.
PauseIsBarrier ==
  \A w \in Workers : claim[w] # NoBatch /\ paused[claim[w]] =>
     \/ pc[w] = "polling"
     \/ pc[w] = "mailing" /\ ~RespectPause

\* Whatever other processes did since the claim, the row still is what the
\* claim selected when the answer of the outside call is recorded.
ClaimStaysTrue ==
  \A w \in Workers : LET b == claim[w] IN
    /\ pc[w] = "sending"   => task[ctask[w]] = "ready"
    /\ pc[w] = "polling"   => task[ctask[w]] = "inflight"
    /\ pc[w] = "notifying" => ~notified[b] /\ ~single[b]
    /\ pc[w] = "fetching"  => assomi[b] = "pending"
    /\ pc[w] = "mailing"   => ~emailed[b] /\ ~single[b] /\ Classify(b) # "none"

\* The aggregator hears of a NAT batch only when NAT has finished with every
\* task of it and one at least succeeded, and this stays so afterwards.
NotifiedOnlyWhenSettled ==
  \A b \in Batches : Source[b] = "nat" /\ notices[b] > 0
                     => live[b] /\ HasCompleted(b) /\ ~HasNonTerminal(b)

\* All e-mails about a batch, duplicates included, report one outcome, and the
\* rows of the batch never come to say another.
OneOutcomeTold ==
  \A b \in Batches : told[b] \subseteq {Classify(b)} /\ (emailed[b] => told[b] # {})

Once(n, recorded) == LET m == IF recorded THEN 1 ELSE 0 IN m <= n /\ n <= m + faults

\* Every outside effect is recorded once, and happens more often than recorded
\* only by as many lost answers: NAT requests, notifications and e-mails are
\* at-least-once, and exactly-once as long as no answer is lost.
OnceUnlessLost ==
  /\ \A t \in Tasks : Source[BatchOf[t]] = "nat" =>
       Once(sends[t], task[t] \notin {"ready", "unsent"})
  /\ \A b \in Batches : Once(notices[b], notified[b] \/ spinReq[b] = "marking")
  /\ \A b \in Batches : Once(mails[b], emailed[b])

\* While single_stage_only is set a NAT batch is not handed to the aggregator,
\* a batch whose enrichment has ended is paused, and no result is e-mailed.
SingleStageStops ==
  \A b \in Batches : single[b] =>
    /\ Source[b] = "nat" => notices[b] = 0 /\ agg[b] = "none"
    /\ assomi[b] \in {"completed", "failed"} => paused[b]
    /\ mails[b] = 0

\* What an operator sees agrees with what others were told: a batch the
\* aggregator knows shows no task pending or under way and a completed one, and
\* a batch reported as failed in NAT shows that all its tasks failed.
MonitoringAgrees ==
  \A b \in Batches : Source[b] = "nat" =>
    /\ notices[b] > 0 => PendingDispatch(b) + InProgress(b) = 0 /\ Completed(b) > 0
    /\ "nat_failed" \in told[b] => FailedTasks(b) = Cardinality(TasksOf(b))

\* The safety of the pipeline in one formula, for instances that vary only who
\* runs and where a batch comes from.
PipelineSafe ==
  PauseIsBarrier /\ NotifiedOnlyWhenSettled /\ OneOutcomeTold /\ OnceUnlessLost /\ SingleStageStops

\* Once the results of a batch may be downloaded they always may: no step of a
\* worker or of the API takes a finished pipeline back.
DownloadStaysReady ==
  [][\A b \in Batches : PipelineTerminal(b) => PipelineTerminal(b)']_vars

\* How far a batch is, for BatchLife.
Phase(b) ==
  IF ~live[b] THEN "absent"
  ELSE IF ReadyForMail(b) THEN "ended"
  ELSE IF assomi[b] = "pending" THEN "enriching"
  ELSE IF agg[b] \in {"spin", "blank"} THEN "aggregated"
  ELSE IF Source[b] # "nat" \/ notices[b] > 0 THEN "aggregation"
  ELSE "nat"

\* How it ended, "none" before.
Ending(b) == IF Phase(b) = "ended" THEN Classify(b) ELSE "none"

Phases  == [b \in Batches |-> Phase(b)]
Endings == [b \in Batches |-> Ending(b)]

\* Workers, locks, lost answers and stale reads together keep the promise of
\* BatchLife: every step takes a batch one stage on, tells its outcome, sets or
\* lifts its hold, or is not seen from outside.
Life == INSTANCE BatchLife WITH
  phase <- Phases,
  outcome <- Endings,
  held <- paused,
  limited <- single,
  reported <- emailed
ImplementsLife == Life!Spec

\* When every service answers in the end and the global pause does not stay on,
\* and nobody pauses it by hand, every uploaded batch is reported by e-mail or,
\* when only its entry stage was asked for, comes to rest paused; only a failed
\* SPIN call leaves it behind.
EveryBatchReported ==
  ServiceFairness /\ <>[]~gpaused => \A b \in Batches :
    live[b] ~> (emailed[b] \/ (asked[b] /\ paused[b]) \/ spinReq[b] = "failed")

\* With a limit on a cycle, polling of what has been sent goes on whatever is
\* paused, and although NAT may never answer a request to send.  Without one
\* (NAT_TASK_STATUS_WORKER_PROCESS_ALL_NON_TERMINAL) the loop over the ready
\* tasks does not end while one of them keeps failing, and nothing is polled.
PollContinues ==
  BatchLimit # 0 => \A t \in Tasks : task[t] = "inflight" ~> task[t] # "inflight"

\* router.py:312 promises 409 for a pause or resume of an intake whose
\* processing is finished: nothing changes the flags of an e-mailed batch.
PauseRefusedOnceEmailed ==
  [][\A b \in Batches : emailed[b] => paused'[b] = paused[b] /\ single'[b] = single[b]]_vars

-----------------------------------------------------------------------------
(* The inductive invariant: what the safety properties rest on.            *)

Calling == {"sending", "polling", "notifying", "fetching", "mailing"}

Places(w) == IF w \in StatusWorkers THEN {"dispatch", "sending", "poll", "polling"}
             ELSE IF w \in NotifyWorkers THEN {"stop", "notify", "notifying"}
             ELSE IF w \in AssomiWorkers THEN {"ensure", "ensuring", "process", "fetching"}
             ELSE {"mail", "mailing"}

\* A worker holds the rows of one batch exactly while it calls out, and no two
\* workers hold the same batch.
Holding ==
  /\ \A w \in Workers : /\ pc[w] \in Places(w)
                        /\ pc[w] \in Calling <=> claim[w] # NoBatch
                        /\ pc[w] \in {"sending", "polling"} =>
                             ctask[w] \in Tasks /\ BatchOf[ctask[w]] = claim[w]
  /\ \A v, w \in Workers : claim[v] = claim[w] /\ claim[v] # NoBatch => v = w

\* Nothing happens to a batch before its upload has committed.
Fresh ==
  /\ \A w \in Workers : claim[w] # NoBatch => live[claim[w]]
  /\ \A w \in Workers : \A b \in enq[w] : live[b]
  /\ \A b \in Batches : ~live[b] =>
       /\ ~notified[b] /\ ~emailed[b]
       /\ agg[b] = "none" /\ assomi[b] = "none" /\ spinReq[b] = "none"
       /\ notices[b] = 0 /\ mails[b] = 0 /\ told[b] = {}
       /\ \A t \in TasksOf(b) : task[t] = "ready" /\ sends[t] = 0

\* Each stage leaves its row before the next one starts.
Chain ==
  /\ \A w \in Workers : \A b \in enq[w] : agg[b] \in {"spin", "blank"}
  /\ \A b \in Batches :
       /\ assomi[b] # "none" => agg[b] \in {"spin", "blank"}
       /\ Source[b] = "nat" /\ agg[b] # "none" => notices[b] > 0
       /\ spinReq[b] # "none" <=> live[b] /\ Source[b] = "manual_spin"
       /\ Source[b] = "manual_spin" /\ notified[b] => spinReq[b] = "done"
       /\ "blank" \notin AggResults => agg[b] # "blank"

\* What a claim selected still holds while the outside call is under way.
StillSelected(w) == LET b == claim[w] IN
  /\ pc[w] = "sending"   => Source[b] = "nat" /\ task[ctask[w]] = "ready" /\ ~paused[b]
  /\ pc[w] = "polling"   => Source[b] = "nat" /\ task[ctask[w]] = "inflight"
  /\ pc[w] = "notifying" => /\ Source[b] = "nat" /\ ~notified[b] /\ ~single[b] /\ ~paused[b]
                            /\ HasCompleted(b) /\ ~HasNonTerminal(b)
  /\ pc[w] = "fetching"  => assomi[b] = "pending" /\ ~paused[b]
  /\ pc[w] = "mailing"   => /\ ~emailed[b] /\ ~single[b] /\ ReadyForMail(b)
                            /\ RespectPause => ~paused[b]

ClaimHolds == \A w \in Workers : StillSelected(w)

Inv == Holding /\ Fresh /\ Chain /\ ClaimHolds
=============================================================================
