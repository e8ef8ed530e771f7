--------------------------- MODULE StorageBackend ---------------------------
(***************************************************************************)
(* The durable-queue port of queue_workflows/backends/base.py as its       *)
(* reference adapter, backends/postgres.py, implements it: one row per     *)
(* job in qw_jobs, one statement or one transaction per operation.  It is  *)
(* the yardstick for the other stores (RedisBackend, IngestStore), which   *)
(* are shown to take only steps of this module.                            *)
(*                                                                         *)
(* Three choices are left open, because the stores differ in them: which   *)
(* of the queued jobs of one priority is claimed first (a job that was     *)
(* re-queued keeps its created_at in postgres and gets a new sequence      *)
(* number in redis), how many of the expired jobs one sweep takes (now()   *)
(* is the start of the transaction; mongodb takes them one by one), and    *)
(* whether a sweep raises the priority of what it takes (the relational    *)
(* ingest table does, the adapters do not).  The attempts counter, which   *)
(* no code reads, is left out.                                             *)
(***************************************************************************)
EXTENDS Integers, Sequences, FiniteSets

CONSTANTS
  Job,          \* job ids; uuid4 in the code, so an id is enqueued once
  Worker,       \* worker names stamped into claimed_by
  Queue,
  QueueOf,      \* the queue a job is enqueued on
  Priority,     \* integers; the higher is claimed first
  NoWorker      \* claimed_by IS NULL

VARIABLES
  status,       \* qw_jobs.status, "absent" before the insert
  priority,     \* qw_jobs.priority
  claimedBy,    \* qw_jobs.claimed_by
  lapsed,       \* running jobs whose lease_expires_at is past
  events        \* the event types of the job in qw_events, oldest first

rows == <<status, priority, claimedBy, lapsed, events>>

TERMINAL_STATUSES == {"completed", "failed"}
JobStatus == {"absent", "queued", "running"} \cup TERMINAL_STATUSES

StorageTypeOK ==
  /\ status \in [Job -> JobStatus]
  /\ priority \in [Job -> Priority]
  /\ claimedBy \in [Job -> Worker \cup {NoWorker}]
  /\ lapsed \subseteq Job
  /\ events \in [Job -> Seq(TERMINAL_STATUSES)]

StorageInit ==
  /\ status = [j \in Job |-> "absent"]
  /\ priority = [j \in Job |-> 0]
  /\ claimedBy = [j \in Job |-> NoWorker]
  /\ lapsed = {}
  /\ events = [j \in Job |-> <<>>]

Queued(q) == {j \in Job : status[j] = "queued" /\ QueueOf[j] = q}
Open(j) == status[j] \in {"queued", "running"}

enqueue(j, p) ==
  /\ status[j] = "absent"
  /\ status' = [status EXCEPT ![j] = "queued"]
  /\ priority' = [priority EXCEPT ![j] = p]
  /\ UNCHANGED <<claimedBy, lapsed, events>>

claim(j, w) ==
  /\ j \in Queued(QueueOf[j])
  /\ \A k \in Queued(QueueOf[j]) : priority[k] <= priority[j]
  /\ status' = [status EXCEPT ![j] = "running"]
  /\ claimedBy' = [claimedBy EXCEPT ![j] = w]
  /\ UNCHANGED <<priority, lapsed, events>>

renew_lease(j, w) ==
  /\ status[j] = "running" /\ claimedBy[j] = w
  /\ lapsed' = lapsed \ {j}
  /\ UNCHANGED <<status, priority, claimedBy, events>>

\* Back to queued, without owner and lease.
Requeue(S) ==
  /\ status' = [j \in Job |-> IF j \in S THEN "queued" ELSE status[j]]
  /\ claimedBy' = [j \in Job |-> IF j \in S THEN NoWorker ELSE claimedBy[j]]
  /\ lapsed' = lapsed \ S
  /\ UNCHANGED events

reclaim_expired(S) ==
  /\ S # {} /\ S \subseteq lapsed
  /\ Requeue(S)
  /\ \A j \in S : priority'[j] >= priority[j]
  /\ \A j \in Job \ S : priority'[j] = priority[j]

requeue_for_retry(j) ==
  /\ Open(j)
  /\ Requeue({j})
  /\ UNCHANGED priority

\* _mark_in: the row leaves the open states once; result and error are not
\* modelled, claimed_by stays as it is.
mark(j, s) ==
  /\ Open(j)
  /\ status' = [status EXCEPT ![j] = s]
  /\ lapsed' = lapsed \ {j}
  /\ UNCHANGED <<priority, claimedBy>>

\* mark_completed, mark_failed
mark_terminal(j, s) == mark(j, s) /\ UNCHANGED events

\* complete_with_event, fail_with_event: the mark and the event, or neither.
terminal_with_event(j, s) ==
  /\ mark(j, s)
  /\ events' = [events EXCEPT ![j] = Append(@, s)]

\* Time passes a lease_expires_at.
LeaseLapse(j) ==
  /\ status[j] = "running" /\ j \notin lapsed
  /\ lapsed' = lapsed \cup {j}
  /\ UNCHANGED <<status, priority, claimedBy, events>>

StorageNext ==
  \/ \E j \in Job :
       \/ \E p \in Priority : enqueue(j, p)
       \/ \E w \in Worker : claim(j, w) \/ renew_lease(j, w)
       \/ requeue_for_retry(j)
       \/ \E s \in TERMINAL_STATUSES : mark_terminal(j, s) \/ terminal_with_event(j, s)
       \/ LeaseLapse(j)
  \/ \E S \in SUBSET Job : reclaim_expired(S)

StorageSpec == StorageInit /\ [][StorageNext]_rows
=============================================================================
