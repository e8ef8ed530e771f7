------------------------------ MODULE GpuPool -------------------------------
(***************************************************************************)
(* gpu_pool.py on its default store, backends/redis.py: apps submit tasks  *)
(* and poll for the answer, the workers of the GPU boxes claim, run and    *)
(* report, an orchestrator sweeps expired leases.  Who calls these         *)
(* functions, and when, is the host's business, so all callers run freely. *)
(*                                                                         *)
(* A worker does not renew its lease and does not look at the row while    *)
(* the handler runs: a lease that lapses under a live worker displaces it. *)
(***************************************************************************)
EXTENDS RedisBackend

CONSTANTS
  Serves,       \* the queues of a worker, in the order it tries them
  MaxFaults,    \* bound on lapses under a live worker, crashes and requeues
  NoTask

ASSUME GpuPoolAssumption ==
  /\ QueueOf \in [Job -> Queue] /\ PriorityOf \in [Job -> Int]
  /\ \A w \in Worker : Serves[w] \in Seq(Queue) /\ Serves[w] # <<>>
  /\ \A q \in Queue : \E w \in Worker : \E i \in DOMAIN Serves[w] : Serves[w][i] = q
  /\ MaxFaults \in Nat /\ NoTask \notin Job /\ NoWorker \notin Worker

VARIABLES
  task,         \* the task a worker is running
  turn,         \* the index into Serves of the queue it tries next
  answer,       \* what await_pool_result gave the submitter
  displaced,    \* history: tasks put back while a worker ran them, or twice
  faults

poolVars == <<redis, task, turn, answer, displaced, faults>>

PoolInit ==
  /\ RedisInit
  /\ task = [w \in Worker |-> NoTask]
  /\ turn = [w \in Worker |-> 1]
  /\ answer = [j \in Job |-> "none"]
  /\ displaced = {}
  /\ faults = 0

Held(j) == \E w \in Worker : task[w] = j

submit_pool_task(j) ==
  /\ ENQUEUE(j)
  /\ answer' = [answer EXCEPT ![j] = "waiting"]
  /\ UNCHANGED <<task, turn, displaced, faults>>

\* One poll that ends the wait: a terminal row.
await_pool_result(j) ==
  /\ answer[j] = "waiting" /\ status[j] \in Terminal
  /\ answer' = [answer EXCEPT ![j] = status[j]]
  /\ UNCHANGED <<redis, task, turn, displaced, faults>>

\* One poll past the deadline, the row still open.
AwaitTimeout(j) ==
  /\ answer[j] = "waiting" /\ status[j] \notin Terminal
  /\ answer' = [answer EXCEPT ![j] = "timeout"]
  /\ UNCHANGED <<redis, task, turn, displaced, faults>>

\* One queue of the loop; past the last one the worker starts over.
claim_pool_task(w) ==
  LET q == Serves[w][turn[w]]
  IN  /\ task[w] = NoTask
      /\ \/ /\ \E m \in waiting[q] : CLAIM(q, m, w) /\ task' = [task EXCEPT ![w] = m[2]]
            /\ turn' = [turn EXCEPT ![w] = 1]
         \/ /\ waiting[q] = {}
            /\ turn' = [turn EXCEPT ![w] = 1 + (@ % Len(Serves[w]))]
            /\ UNCHANGED <<redis, task>>
      /\ UNCHANGED <<answer, displaced, faults>>

\* The handler returned, raised, or is unknown on this box; a task that is
\* terminal already is skipped.
execute_pool_task(w) ==
  /\ task[w] # NoTask
  /\ \/ \E s \in Terminal : TERMINAL(task[w], s)
     \/ status[task[w]] \in Terminal /\ UNCHANGED redis
  /\ task' = [task EXCEPT ![w] = NoTask]
  /\ UNCHANGED <<turn, answer, displaced, faults>>

\* "while a handler runs"
renew_pool_lease(j, w) ==
  /\ task[w] = j
  /\ RENEW(j, w)
  /\ UNCHANGED <<task, turn, answer, displaced, faults>>

\* A running zset score passes now.  Under a live worker it is a fault.
Lapse(j) ==
  /\ j \in running \ lapsed
  /\ lapsed' = lapsed \cup {j}
  /\ IF Held(j) THEN faults < MaxFaults /\ faults' = faults + 1 ELSE UNCHANGED faults
  /\ UNCHANGED <<status, claimedBy, seq, waiting, running, cnt, events,
                 task, turn, answer, displaced>>

reclaim_expired_pool_leases(q) ==
  /\ RECLAIM(q)
  /\ displaced' = displaced \cup {j \in Job : status'[j] # status[j] /\ Held(j)}
  /\ UNCHANGED <<task, turn, answer, faults>>

\* requeue_for_retry, which an operator may call on any open task.
requeue_for_retry(j) ==
  /\ faults < MaxFaults /\ faults' = faults + 1
  /\ REQUEUE(j)
  /\ displaced' = displaced \cup (IF Held(j) \/ status[j] = "queued" THEN {j} ELSE {})
  /\ UNCHANGED <<task, turn, answer>>

\* The worker process dies with its task and is started again.
Crash(w) ==
  /\ task[w] # NoTask
  /\ faults < MaxFaults /\ faults' = faults + 1
  /\ task' = [task EXCEPT ![w] = NoTask]
  /\ UNCHANGED <<redis, turn, answer, displaced>>

PoolNext ==
  \/ \E j \in Job :
       \/ submit_pool_task(j) \/ await_pool_result(j) \/ AwaitTimeout(j)
       \/ Lapse(j) \/ requeue_for_retry(j)
       \/ \E w \in Worker : renew_pool_lease(j, w)
  \/ \E w \in Worker : claim_pool_task(w) \/ execute_pool_task(w) \/ Crash(w)
  \/ \E q \in Queue : reclaim_expired_pool_leases(q)

\* Workers loop and handlers return, the orchestrator keeps sweeping, time
\* passes the lease of a task nobody runs, a submitter keeps polling.
PoolFairness ==
  /\ \A w \in Worker : WF_poolVars(claim_pool_task(w)) /\ WF_poolVars(execute_pool_task(w))
  /\ \A q \in Queue : WF_poolVars(reclaim_expired_pool_leases(q))
  /\ \A j \in Job : WF_poolVars(~Held(j) /\ Lapse(j)) /\ WF_poolVars(await_pool_result(j))

PoolSpec == PoolInit /\ [][PoolNext]_poolVars /\ PoolFairness
-----------------------------------------------------------------------------
\* Type correctness: the keys of the store and the state of the callers.
PoolTypeOK ==
  /\ status \in [Job -> {"absent"} \cup Counted]
  /\ claimedBy \in [Job -> Worker \cup {NoWorker}]
  /\ seq \in [Queue -> Nat]
  /\ waiting \in [Queue -> SUBSET (Nat \X Job)]
  /\ lapsed \subseteq running /\ running \subseteq Job
  /\ cnt \in [Queue -> [Counted -> Int]]
  /\ events \in [Job -> Seq(Terminal)]
  /\ task \in [Worker -> Job \cup {NoTask}]
  /\ turn \in [Worker -> Nat] /\ \A w \in Worker : turn[w] \in DOMAIN Serves[w]
  /\ answer \in [Job -> {"none", "waiting", "timeout"} \cup Terminal]
  /\ displaced \subseteq Job
  /\ faults \in 0..MaxFaults

\* The row of a task and the two sorted sets agree, whatever was displaced: a
\* queued task has a member to be popped, and exactly the running tasks are in
\* the set that the lease sweep reads.  Otherwise a task would be open in its
\* hash and found by nobody.
NoTaskIsLost ==
  \A j \in Job : /\ status[j] = "queued" => \E m \in waiting[QueueOf[j]] : m[2] = j
                 /\ (status[j] = "running") = (j \in running)

\* While no task was displaced, the counters that counts() reports are the
\* numbers of rows in each status, and the waiting members are one for each
\* queued task: no counter goes negative, no member is left over.
CountersMatchRows ==
  displaced = {} =>
    \A q \in Queue :
      /\ \A s \in Counted : cnt[q][s] = Cardinality({j \in Job : QueueOf[j] = q /\ status[j] = s})
      /\ Cardinality(waiting[q]) = cnt[q]["queued"]

\* A task that was not put back under a live worker is run by at most one
\* worker at a time, ends once, and the answer its submitter got stands.
OneRunOneEnd ==
  \A j \in Job \ displaced :
    /\ Cardinality({w \in Worker : task[w] = j}) <= 1
    /\ Len(events[j]) <= 1
    /\ answer[j] \in Terminal => events[j] = <<answer[j]>> /\ status[j] = answer[j]

\* Every submission ends: a submitter that does not give up gets an answer, also
\* when boxes die and tasks are displaced.
EverySubmitterIsAnswered ==
  \A j \in Job : answer[j] = "waiting" ~> answer[j] # "waiting"

Contract == INSTANCE StorageBackend
              WITH priority <- [j \in Job |-> IF status[j] = "absent" THEN 0 ELSE PriorityOf[j]],
                   Priority <- {PriorityOf[j] : j \in Job} \cup {0}

\* Until a task is displaced, the scripts do what the reference adapter does:
\* every step of the pool on the rows is a step of StorageBackend.
ScriptsFollowTheContract ==
  [][displaced' = {} => Contract!StorageNext]_(Contract!rows)

\* backends/base.py: "Terminal states a row can never leave".
TerminalIsForever ==
  [][\A j \in Job : status[j] \in Terminal => status'[j] = status[j]]_status
=============================================================================
