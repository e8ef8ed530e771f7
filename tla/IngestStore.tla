---------------------------- MODULE IngestStore -----------------------------
(***************************************************************************)
(* Standalone ingest jobs: ingest_store.py, the seam that sends each       *)
(* operation either to the relational table (node_queue.py) or to a flat   *)
(* queue of backends/ (here mongodb.py; redis is RedisBackend), and the    *)
(* ingest worker of claim_worker.py with ingest_executor.py.               *)
(*                                                                         *)
(* One queue is modelled: every statement names its queue and rows of two  *)
(* queues never meet.  Ids are numbered in creation order, the order of    *)
(* created_at and of mongodb's seq.                                        *)
(***************************************************************************)
EXTENDS Integers, FiniteSets

CONSTANTS
  MaxJobs,      \* bound on the rows ever inserted
  Worker,       \* ingest workers, one per host label
  IngestPriority,  \* priorities callers enqueue with; 100 is the default
  MaxFaults,    \* bound on crashes, lost writes and stalled renewers
  NoWorker, NoJob

ASSUME IngestAssumption ==
  /\ MaxJobs \in Nat /\ MaxFaults \in Nat
  /\ IngestPriority \subseteq Int /\ 100 \in IngestPriority
  /\ NoWorker \notin Worker /\ NoJob \notin 1..MaxJobs

VARIABLES
  spi,          \* _use_spi(): which store the process was configured with
  inserted,     \* number of rows inserted
  status, priority, claimedBy,
  lapsed,       \* running rows whose lease_expires_at is past
  current,      \* the job a worker is running
  faults

storeVars == <<spi, inserted, status, priority, claimedBy, lapsed>>
ingestVars == <<storeVars, current, faults>>

Job == 1..MaxJobs
Done == {"completed", "failed"}

IngestInit ==
  /\ spi \in BOOLEAN
  /\ inserted = 0
  /\ status = [j \in Job |-> "absent"]
  /\ priority = [j \in Job |-> 0]
  /\ claimedBy = [j \in Job |-> NoWorker]
  /\ lapsed = {}
  /\ current = [w \in Worker |-> NoJob]
  /\ faults = 0

\* The flat queues sort priority DESC, the relational table priority ASC.
StoredPriority(p) == IF spi THEN -p ELSE p

enqueue_ingest_job(p) ==
  LET j == inserted + 1
  IN  /\ j \in Job
      /\ inserted' = j
      /\ status' = [status EXCEPT ![j] = "queued"]
      /\ priority' = [priority EXCEPT ![j] = StoredPriority(p)]
      /\ UNCHANGED <<spi, claimedBy, lapsed>>

Queued == {j \in Job : status[j] = "queued"}

\* ORDER BY priority ASC, created_at ASC
FirstRelational(j) ==
  \A k \in Queued : priority[k] > priority[j] \/ (priority[k] = priority[j] /\ k >= j)

FirstMongoAscending(j) ==
  \A k \in Queued : priority[k] > priority[j] \/ (priority[k] = priority[j] /\ k >= j)

\* sort by priority descending, seq ascending
FirstMongo(j) ==
  \A k \in Queued : priority[k] < priority[j] \/ (priority[k] = priority[j] /\ k >= j)

claim_next_ingest_job(w, j) ==
  /\ j \in Queued
  /\ IF spi THEN FirstMongo(j) ELSE FirstRelational(j)
  /\ status' = [status EXCEPT ![j] = "running"]
  /\ claimedBy' = [claimedBy EXCEPT ![j] = w]
  /\ UNCHANGED <<spi, inserted, priority, lapsed>>

renew_ingest_lease(j, w) ==
  /\ status[j] = "running" /\ claimedBy[j] = w
  /\ lapsed' = lapsed \ {j}
  /\ UNCHANGED <<spi, inserted, status, priority, claimedBy>>

\* mark_ingest_completed, mark_ingest_failed; not guarded by the owner.
mark_ingest(j, s) ==
  /\ status[j] \notin Done
  /\ status' = [status EXCEPT ![j] = s]
  /\ lapsed' = lapsed \ {j}
  /\ UNCHANGED <<spi, inserted, priority, claimedBy>>

BackToQueue(S) ==
  /\ status' = [j \in Job |-> IF j \in S THEN "queued" ELSE status[j]]
  /\ claimedBy' = [j \in Job |-> IF j \in S THEN NoWorker ELSE claimedBy[j]]
  /\ lapsed' = lapsed \ S
  /\ UNCHANGED <<spi, inserted>>

\* One UPDATE over the expired rows, with priority = LEAST(priority, 10).
ReclaimRelational ==
  /\ lapsed # {}
  /\ BackToQueue(lapsed)
  /\ priority' = [j \in Job |-> IF j \in lapsed /\ priority[j] > 10 THEN 10 ELSE priority[j]]

\* One turn of the find_one_and_update loop.
ReclaimMongo ==
  /\ \E j \in lapsed : BackToQueue({j})
  /\ UNCHANGED priority

ReclaimTableOnly == ~ spi /\ ReclaimRelational

reclaim_expired_ingest_leases == IF spi THEN ReclaimMongo ELSE ReclaimRelational
-----------------------------------------------------------------------------
\* The ingest worker: claim, then _run_ingest with a renewer and a watchdog.
IngestClaim(w) ==
  /\ current[w] = NoJob
  /\ \E j \in Job : claim_next_ingest_job(w, j) /\ current' = [current EXCEPT ![w] = j]
  /\ UNCHANGED faults

\* The callable returned or raised; a row that is terminal is skipped.
execute_ingest_job(w) ==
  /\ current[w] # NoJob
  /\ \/ \E s \in Done : mark_ingest(current[w], s)
     \/ status[current[w]] \in Done /\ UNCHANGED storeVars
  /\ current' = [current EXCEPT ![w] = NoJob]
  /\ UNCHANGED faults

IngestRenew(w) ==
  /\ current[w] # NoJob
  /\ renew_ingest_lease(current[w], w)
  /\ UNCHANGED <<current, faults>>

\* The watchdog's budget is spent: mark failed, then exit the process, which
\* its supervisor starts again.  A write that raises is swallowed.
WatchdogTrip(w) ==
  /\ current[w] # NoJob
  /\ \/ mark_ingest(current[w], "failed") /\ UNCHANGED faults
     \/ status[current[w]] \in Done /\ UNCHANGED <<storeVars, faults>>
     \/ faults < MaxFaults /\ faults' = faults + 1 /\ UNCHANGED storeVars
  /\ current' = [current EXCEPT ![w] = NoJob]

IngestCrash(w) ==
  /\ current[w] # NoJob
  /\ faults < MaxFaults /\ faults' = faults + 1
  /\ current' = [current EXCEPT ![w] = NoJob]
  /\ UNCHANGED storeVars

\* Time passes a lease_expires_at; under a live owner only if its renewer stalls.
LeaseLapse(j) ==
  /\ status[j] = "running" /\ j \notin lapsed
  /\ lapsed' = lapsed \cup {j}
  /\ IF \E w \in Worker : current[w] = j /\ claimedBy[j] = w
       THEN faults < MaxFaults /\ faults' = faults + 1
       ELSE UNCHANGED faults
  /\ UNCHANGED <<spi, inserted, status, priority, claimedBy, current>>

SweepIngest == reclaim_expired_ingest_leases /\ UNCHANGED <<current, faults>>

IngestNext ==
  \/ \E w \in Worker : \/ IngestClaim(w) \/ execute_ingest_job(w) \/ IngestRenew(w)
                       \/ WatchdogTrip(w) \/ IngestCrash(w)
  \/ \E j \in Job : LeaseLapse(j)
  \/ SweepIngest

\* Workers poll; a run ends by itself or by its watchdog; time passes; the
\* dispatcher's reclaim tick runs.
IngestFairness ==
  /\ \A w \in Worker : /\ WF_ingestVars(IngestClaim(w))
                       /\ WF_ingestVars(execute_ingest_job(w) \/ WatchdogTrip(w))
  /\ \A j \in Job : WF_ingestVars((\A w \in Worker : current[w] # j) /\ LeaseLapse(j))
  /\ WF_ingestVars(SweepIngest)
-----------------------------------------------------------------------------
\* Type correctness: the rows, whose lease can only lapse while they run.
IngestTypeOK ==
  /\ spi \in BOOLEAN
  /\ inserted \in 0..MaxJobs
  /\ status \in [Job -> {"absent", "queued", "running"} \cup Done]
  /\ \A j \in Job : (status[j] = "absent") = (j > inserted)
  /\ priority \in [Job -> Int]
  /\ claimedBy \in [Job -> Worker \cup {NoWorker}]
  /\ lapsed \subseteq {j \in Job : status[j] = "running"}
  /\ current \in [Worker -> Job \cup {NoJob}]
  /\ faults \in 0..MaxFaults

Contract == INSTANCE StorageBackend
              WITH Queue <- {"ingest"}, QueueOf <- [j \in Job |-> "ingest"],
                   Priority <- {-p : p \in IngestPriority} \cup {0}, events <- [j \in Job |-> <<>>],
                   priority <- [j \in Job |-> IF spi THEN priority[j] ELSE -priority[j]]

\* On either store, the ingest rows behave like the port's reference adapter:
\* the seam's negated priorities, its front-of-the-queue bump and mongodb's
\* one-at-a-time sweep are all steps of StorageBackend.
SeamImplementsTheContract == Contract!StorageSpec

\* Every ingest job that is queued is completed or failed in the end, with
\* finitely many crashes, lost writes and stalled renewers.
EveryIngestJobEnds == \A j \in Job : status[j] = "queued" ~> status[j] \in Done
=============================================================================
