------------------------------ MODULE NodeQueue ------------------------------
(***************************************************************************)
(* The job table of one workflow run (queue_workflows/node_queue.py): the  *)
(* rows of workflow_node_jobs, the status of their workflow_runs row and   *)
(* the dispatch-event outbox.  Every action is one SQL statement, or the   *)
(* statements one caller puts in one transaction.                          *)
(*                                                                         *)
(* Next is the most general client: any worker, sweep or operator call, on *)
(* any row, at any moment.  What holds here holds whatever the callers do; *)
(* ClaimWorker and Dispatcher say who calls what and when.                 *)
(*                                                                         *)
(* Abstracted: the order in which claimable rows are taken (priority, warm *)
(* model, creation time) is any order; a lease is live or lapsed, and time *)
(* is the action LeaseLapse; context deltas, errors and timings are left   *)
(* out.  A row is named by its node and by rowId, which stands for the id  *)
(* (a fresh UUID for every INSERT) so that a row deleted and inserted      *)
(* again is a different row.                                               *)
(***************************************************************************)
EXTENDS Naturals, FiniteSets

CONSTANTS
  Node,       \* the nodes of the run's workflow
  Input,      \* the nodes that park the run for user input (__input__ module)
  Host,       \* host labels of the claim workers
  NoHost      \* claimed_by IS NULL

ASSUME NodeQueueAssumption ==
  /\ Input \subseteq Node
  /\ NoHost \notin Host

VARIABLES
  run,        \* workflow_runs.status
  status,     \* workflow_node_jobs.status, "absent" when there is no row
  claimedBy,  \* claimed_by
  lease,      \* lease_expires_at: "none" (NULL), "live" or "lapsed"
  retries,    \* watchdog_retries
  rowId,      \* which of the rows inserted for the node is the present one
  outbox,     \* the unprocessed rows of workflow_dispatch_events
  touched,    \* history: the row has been claimed since it was inserted
  finals      \* history: terminal events written for the present row

tables == <<run, status, claimedBy, lease, retries, rowId, outbox, touched, finals>>

RunStatus == {"queued", "running", "completed", "failed", "cancelled"}
Terminal == {"completed", "failed", "cancelled"}
JobStatus == Terminal \cup {"absent", "queued", "running", "awaiting_input", "skipped"}
Kind == {"completed", "failed", "awaiting_input"}
Event == [node : Node, id : Nat, kind : Kind]

NodeQueueTypeOK ==
  /\ run \in RunStatus
  /\ status \in [Node -> JobStatus]
  /\ claimedBy \in [Node -> Host \cup {NoHost}]
  /\ lease \in [Node -> {"none", "live", "lapsed"}]
  /\ retries \in [Node -> Nat]
  /\ rowId \in [Node -> Nat]
  /\ outbox \subseteq Event
  /\ touched \in [Node -> BOOLEAN]
  /\ finals \in [Node -> Nat]

NodeQueueInit ==
  /\ run = "queued"
  /\ status = [n \in Node |-> "absent"]
  /\ claimedBy = [n \in Node |-> NoHost]
  /\ lease = [n \in Node |-> "none"]
  /\ retries = [n \in Node |-> 0]
  /\ rowId = [n \in Node |-> 0]
  /\ outbox = {}
  /\ touched = [n \in Node |-> FALSE]
  /\ finals = [n \in Node |-> 0]

-----------------------------------------------------------------------------
(* Inserting and deleting rows.                                            *)

InsertReusingId(n, s) ==
  /\ status[n] = "absent"
  /\ status' = [status EXCEPT ![n] = s]
  /\ claimedBy' = [claimedBy EXCEPT ![n] = NoHost]
  /\ lease' = [lease EXCEPT ![n] = "none"]
  /\ retries' = [retries EXCEPT ![n] = 0]
  /\ touched' = [touched EXCEPT ![n] = FALSE]
  /\ finals' = [finals EXCEPT ![n] = 0]
  /\ UNCHANGED <<run, rowId, outbox>>

Insert(n, s) ==
  /\ status[n] = "absent"                    \* UNIQUE (run_id, node_id)
  /\ status' = [status EXCEPT ![n] = s]
  /\ claimedBy' = [claimedBy EXCEPT ![n] = NoHost]
  /\ lease' = [lease EXCEPT ![n] = "none"]
  /\ retries' = [retries EXCEPT ![n] = 0]
  /\ rowId' = [rowId EXCEPT ![n] = @ + 1]
  /\ touched' = [touched EXCEPT ![n] = FALSE]
  /\ finals' = [finals EXCEPT ![n] = 0]
  /\ UNCHANGED <<run, outbox>>

EnqueueNodeJob(n) == Insert(n, "queued")

InsertSkippedJob(n) == Insert(n, "skipped")

DeleteAllJobs ==
  /\ status' = [n \in Node |-> "absent"]
  /\ UNCHANGED <<run, claimedBy, lease, retries, rowId, outbox, touched, finals>>

DeleteNonTerminalJobs ==
  /\ status' = [n \in Node |-> IF status[n] \in {"completed", "skipped"}
                               THEN status[n] ELSE "absent"]
  /\ UNCHANGED <<run, claimedBy, lease, retries, rowId, outbox, touched, finals>>

-----------------------------------------------------------------------------
(* Claim, lease and hand-back.                                             *)

ClaimableOfAnyRun(n) == status[n] = "queued"

\* The WHERE of the claim; its ORDER BY and the capacity test are left open.
Claimable(n) == status[n] = "queued" /\ run \notin {"cancelled", "failed"}

ClaimWithoutLease(n, h) ==
  /\ Claimable(n)
  /\ status' = [status EXCEPT ![n] = "running"]
  /\ claimedBy' = [claimedBy EXCEPT ![n] = h]
  /\ touched' = [touched EXCEPT ![n] = TRUE]
  /\ UNCHANGED <<run, lease, retries, rowId, outbox, finals>>

ClaimNextJob(n, h) ==
  /\ Claimable(n)
  /\ status' = [status EXCEPT ![n] = "running"]
  /\ claimedBy' = [claimedBy EXCEPT ![n] = h]
  /\ lease' = [lease EXCEPT ![n] = "live"]
  /\ touched' = [touched EXCEPT ![n] = TRUE]
  /\ UNCHANGED <<run, retries, rowId, outbox, finals>>

RenewableByAnyHost(n, i, h) == rowId[n] = i /\ status[n] = "running"

\* UPDATE ... WHERE id = i AND claimed_by = h AND status = 'running'
Renewable(n, i, h) ==
  rowId[n] = i /\ claimedBy[n] = h /\ status[n] = "running"

RenewLease(n, i, h) ==
  /\ Renewable(n, i, h)
  /\ lease' = [lease EXCEPT ![n] = "live"]
  /\ UNCHANGED <<run, status, claimedBy, retries, rowId, outbox, touched, finals>>

\* The clock passes lease_expires_at of a running row.
LeaseLapse(n) ==
  /\ status[n] = "running"
  /\ lease[n] = "live"
  /\ lease' = [lease EXCEPT ![n] = "lapsed"]
  /\ UNCHANGED <<run, status, claimedBy, retries, rowId, outbox, touched, finals>>

HandBackKeepingClaim(rows, s) ==
  /\ status' = [n \in Node |-> IF n \in rows THEN s ELSE status[n]]
  /\ lease' = [n \in Node |-> IF n \in rows THEN "none" ELSE lease[n]]
  /\ UNCHANGED <<run, claimedBy, rowId, outbox, touched, finals>>

\* The UPDATE all hand-backs share: the rows get status s and lose their
\* claim; started_at and priority are not modelled.
HandBack(rows, s) ==
  /\ status' = [n \in Node |-> IF n \in rows THEN s ELSE status[n]]
  /\ claimedBy' = [n \in Node |-> IF n \in rows THEN NoHost ELSE claimedBy[n]]
  /\ lease' = [n \in Node |-> IF n \in rows THEN "none" ELSE lease[n]]
  /\ UNCHANGED <<run, rowId, outbox, touched, finals>>

LapsedRowsOfActiveRun ==
  {n \in Node : status[n] = "running" /\ lease[n] = "lapsed" /\ run = "running"}

LapsedRows == {n \in Node : status[n] = "running" /\ lease[n] = "lapsed"}

ReclaimExpiredLeases ==
  /\ HandBack(LapsedRows, IF run = "running" THEN "queued" ELSE "cancelled")
  /\ UNCHANGED retries

\* stale: the hosts without a fresh worker_heartbeats row.
ReclaimAllRunningForResume(stale) ==
  /\ HandBack({n \in Node : status[n] = "running" /\ claimedBy[n] \in stale}, "queued")
  /\ UNCHANGED retries

RequeueRunningForWorker(h) ==
  /\ HandBack({n \in Node : status[n] = "running" /\ claimedBy[n] = h}, "queued")
  /\ UNCHANGED retries

\* WHERE id = i AND status = 'running': the caller's own claim is not asked.
Requeueable(n, i) == rowId[n] = i /\ status[n] = "running"

RequeueCountingDown(n, i) ==
  /\ Requeueable(n, i)
  /\ HandBack({n}, "queued")
  /\ retries' = [retries EXCEPT ![n] = @ - 1]

RequeueJobForRetry(n, i) ==
  /\ Requeueable(n, i)
  /\ HandBack({n}, "queued")
  /\ retries' = [retries EXCEPT ![n] = @ + 1]

-----------------------------------------------------------------------------
(* Finishing a row.  The mark and its dispatch event are one transaction;  *)
(* a mark that matches no row writes no event (the park writes it always). *)

MarkableEvenFinished(n, i) == rowId[n] = i /\ status[n] # "absent"

Markable(n, i) == rowId[n] = i /\ status[n] \notin Terminal \cup {"absent"}

MarkWithoutEvent(n, i, s) ==
  /\ Markable(n, i)
  /\ status' = [status EXCEPT ![n] = s]
  /\ UNCHANGED <<run, claimedBy, lease, retries, rowId, outbox, touched, finals>>

MarkAndEnqueueEvent(n, i, s) ==
  /\ Markable(n, i)
  /\ status' = [status EXCEPT ![n] = s]
  /\ outbox' = outbox \cup {[node |-> n, id |-> i, kind |-> s]}
  /\ finals' = [finals EXCEPT ![n] = @ + 1]
  /\ UNCHANGED <<run, claimedBy, lease, retries, rowId, touched>>

MarkCompletedAndEvent(n, i) == MarkAndEnqueueEvent(n, i, "completed")

MarkFailedAndEvent(n, i) == MarkAndEnqueueEvent(n, i, "failed")

MarkAwaitingInputAndEvent(n, i) ==
  /\ status' = IF Markable(n, i) THEN [status EXCEPT ![n] = "awaiting_input"] ELSE status
  /\ outbox' = outbox \cup {[node |-> n, id |-> i, kind |-> "awaiting_input"]}
  /\ UNCHANGED <<run, claimedBy, lease, retries, rowId, touched, finals>>

\* mark_completed on its own, as resume_after_input calls it.
MarkCompleted(n, i) ==
  /\ Markable(n, i)
  /\ status' = [status EXCEPT ![n] = "completed"]
  /\ UNCHANGED <<run, claimedBy, lease, retries, rowId, outbox, touched, finals>>

-----------------------------------------------------------------------------
(* Run-wide statements.                                                    *)

CancelQueuedJobs ==
  /\ status' = [n \in Node |-> IF status[n] = "queued" THEN "cancelled" ELSE status[n]]
  /\ UNCHANGED <<run, claimedBy, lease, retries, rowId, outbox, touched, finals>>

CancelOrphanedQueuedJobs ==
  /\ run \in {"cancelled", "failed"}
  /\ CancelQueuedJobs

UpdateRun(s) ==
  /\ run' = s
  /\ UNCHANGED <<status, claimedBy, lease, retries, rowId, outbox, touched, finals>>

\* The drain's transaction: events become processed, and a poisonous one
\* fails the run.
ProcessEvents(evs, s) ==
  /\ outbox' = outbox \ evs
  /\ run' = s
  /\ UNCHANGED <<status, claimedBy, lease, retries, rowId, touched, finals>>

-----------------------------------------------------------------------------
(* A worker finishes or parks only rows that were once claimed; workers    *)
(* park input nodes and execute the others; only the answer to an input    *)
(* completes an input node.                                                *)
WorkerCall(n) ==
  \/ \E h \in Host : ClaimNextJob(n, h) \/ RenewLease(n, rowId[n], h)
  \/ RequeueJobForRetry(n, rowId[n])
  \/ n \notin Input /\ touched[n] /\ MarkCompletedAndEvent(n, rowId[n])
  \/ n \notin Input /\ touched[n] /\ MarkFailedAndEvent(n, rowId[n])
  \/ n \in Input /\ \E i \in 1..rowId[n] : (i = rowId[n] => touched[n]) /\ MarkAwaitingInputAndEvent(n, i)

OrchestratorCall ==
  \/ \E n \in Node : EnqueueNodeJob(n) \/ InsertSkippedJob(n)
  \/ \E n \in Input : MarkCompleted(n, rowId[n])
  \/ ReclaimExpiredLeases
  \/ \E stale \in SUBSET Host : ReclaimAllRunningForResume(stale)
  \/ CancelQueuedJobs
  \/ CancelOrphanedQueuedJobs
  \/ DeleteNonTerminalJobs
  \/ \E s \in RunStatus : UpdateRun(s)
  \/ \E evs \in SUBSET outbox, s \in {run, "failed"} : ProcessEvents(evs, s)

NodeQueueNext ==
  \/ \E n \in Node : WorkerCall(n)
  \/ \E h \in Host : RequeueRunningForWorker(h)
  \/ OrchestratorCall
  \/ \E n \in Node : LeaseLapse(n)

NodeQueueSpec == NodeQueueInit /\ [][NodeQueueNext]_tables

-----------------------------------------------------------------------------
(* Properties.                                                             *)

(* The claim columns agree with the status whatever calls interleave: a    *)
(* running row has an owner and a lease (so reclaim_expired_leases can see *)
(* it and no row is stranded), and a queued row has neither (so no renewer *)
(* and no JobStatusWatcher takes it for its own).                          *)
ClaimColumnsConsistent ==
  \A n \in Node :
    /\ status[n] = "running" => claimedBy[n] # NoHost /\ lease[n] # "none"
    /\ status[n] = "queued" => claimedBy[n] = NoHost /\ lease[n] = "none"

(* The outbox contract of mark_*_in_txn: however many workers try to       *)
(* finish the same row, exactly one terminal event is written for it, and  *)
(* only once the row is finished; an input node, which its answer          *)
(* completes without an event, has none.                                   *)
ExactlyOneTerminalEvent ==
  \A n \in Node : status[n] # "absent" =>
    finals[n] = IF n \notin Input /\ status[n] \in {"completed", "failed"} THEN 1 ELSE 0

(* A terminal event that is still unprocessed tells the truth about the    *)
(* row it was written for, as long as that row exists.                     *)
PendingEventsAreTrue ==
  \A ev \in outbox :
    ev.kind \in Terminal /\ ev.id = rowId[ev.node] /\ status[ev.node] # "absent"
      => status[ev.node] = ev.kind

(* A finished row is frozen: a displaced worker's late mark, a reclaim, a  *)
(* re-queue or a run-wide cancel may delete the row but never change it.   *)
FinishedRowsFrozen ==
  [][\A n \in Node : status[n] \in Terminal /\ status'[n] # "absent"
       => status'[n] = status[n] /\ rowId'[n] = rowId[n] /\ claimedBy'[n] = claimedBy[n]]_tables

(* tests/test_invariant_cancel.py: no node-job goes to running after its   *)
(* parent run was cancelled (or failed).                                   *)
NoClaimForDeadRun ==
  [][\A n \in Node : status[n] # "running" /\ status'[n] = "running"
       => run \notin {"cancelled", "failed"}]_tables
=============================================================================
