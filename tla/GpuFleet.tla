------------------------------ MODULE GpuFleet ------------------------------
(***************************************************************************)
(* The GPU claim workers of a fleet, one per host, as their threads share  *)
(* them: the inline lane (one warm-model job) and the pool feeder (no-model*)
(* jobs, up to PAR) of claim_worker.py, the warm-model cache and its idle  *)
(* reaper (model_cache.py), the heartbeat row that the emitter and the     *)
(* cache both write, the operator's controls (worker_control.py), and the  *)
(* orchestrator's sweeps over the heartbeats (node_queue.py).              *)
(*                                                                         *)
(* What a row of workflow_node_jobs goes through is ClaimWorker's subject; *)
(* here a job is queued, running with an owner, or done, and a job that no *)
(* thread of its owner runs comes back when its lease lapses.              *)
(***************************************************************************)
EXTENDS Integers, FiniteSets, FiniteSetsExt

CONSTANTS
  Host,         \* host labels: integers, in label order
  VlmJob,       \* jobs without required_model, for the pool lane
  ModelJob,     \* jobs with one, for the inline lane
  Model, ModelOf,
  FitsOf,       \* the registered models that fit a host's VRAM
  Par,          \* the llm_parallelism values an operator may set
  ParAtStart,   \* those the controls hold at first
  MaxOps,       \* bound on operator changes, crashes, wedges, failed queries
  None

ASSUME GpuFleetAssumption ==
  /\ Host \subseteq Int /\ Par \subseteq Nat \ {0} /\ MaxOps \in Nat
  /\ ParAtStart \in [Host -> Par]
  /\ ModelOf \in [ModelJob -> Model] /\ FitsOf \in [Host -> SUBSET Model]

Job == VlmJob \cup ModelJob

VARIABLES
  status, owner,        \* the job rows
  par, desired,         \* the worker_controls rows
  fresh, concurrency, fits,   \* the worker_heartbeats rows
  flaggedDead,          \* those with last_flagged_dead_at set
  unassignable,         \* jobs with unassignable_at set
  life,                 \* where run_forever is
  inline, inlineJob,    \* the inline lane
  feeder, feederPar,    \* the feeder's place in its loop and the PAR it read
  inflight,             \* _pool_inflight
  pooled,               \* jobs on pool threads
  onPool, poolMax,      \* those on the current executor, and its max_workers
  slot, active,         \* ModelCache._current_model, _active
  topPar,               \* history: the largest PAR since the process started
  ops

jobVars == <<status, owner>>
rowVars == <<par, desired, fresh, concurrency, fits, flaggedDead, unassignable>>
laneVars == <<inline, inlineJob, feeder, feederPar, inflight, pooled, onPool, poolMax>>
cacheVars == <<slot, active>>
vars == <<jobVars, rowVars, laneVars, cacheVars, life, topPar, ops>>

FleetInit ==
  /\ status = [j \in Job |-> "queued"] /\ owner = [j \in Job |-> None]
  /\ par = ParAtStart /\ desired = [h \in Host |-> "on"]
  /\ fresh = [h \in Host |-> FALSE]
  /\ concurrency = [h \in Host |-> 1] /\ fits = [h \in Host |-> {}]
  /\ flaggedDead = {} /\ unassignable = {}
  /\ life = [h \in Host |-> "boot"]
  /\ inline = [h \in Host |-> "free"] /\ inlineJob = [h \in Host |-> None]
  /\ feeder = [h \in Host |-> "top"] /\ feederPar = [h \in Host |-> 1]
  /\ inflight = [h \in Host |-> 0]
  /\ pooled = [h \in Host |-> {}] /\ onPool = [h \in Host |-> {}]
  /\ poolMax = [h \in Host |-> 1]
  /\ slot = [h \in Host |-> None] /\ active = [h \in Host |-> 0]
  /\ topPar = par
  /\ ops = 0

\* The threads of a worker run on after a stop was decided, until the exit.
Alive(h) == life[h] \in {"up", "exiting", "stopping"}
RunsOn(h) == pooled[h] \cup ({inlineJob[h]} \ {None})
Op == ops < MaxOps /\ ops' = ops + 1
-----------------------------------------------------------------------------
\* The heartbeat row.

HeartbeatKeepingFlag(h, n, models) ==
  /\ fresh' = [fresh EXCEPT ![h] = TRUE]
  /\ concurrency' = [concurrency EXCEPT ![h] = n]
  /\ fits' = [fits EXCEPT ![h] = models]
  /\ UNCHANGED flaggedDead

upsert_worker_heartbeat(h, n, models) ==
  /\ fresh' = [fresh EXCEPT ![h] = TRUE]
  /\ concurrency' = [concurrency EXCEPT ![h] = n]
  /\ fits' = [fits EXCEPT ![h] = models]
  /\ flaggedDead' = flaggedDead \ {h}

emit_once(h) ==
  /\ Alive(h)
  /\ upsert_worker_heartbeat(h, par[h], FitsOf[h])
  /\ UNCHANGED <<par, desired, unassignable, jobVars, laneVars, cacheVars, life, topPar, ops>>

\* The cache advertises its model with concurrency 1 and no fits_models.
_publish_current_model(h) ==
  upsert_worker_heartbeat(h, 1, {}) /\ UNCHANGED <<par, desired, unassignable>>

\* last_seen falls out of the window of a worker that no longer writes it.
HeartbeatAges(h) ==
  /\ ~Alive(h) /\ fresh[h]
  /\ fresh' = [fresh EXCEPT ![h] = FALSE]
  /\ UNCHANGED <<par, desired, concurrency, fits, flaggedDead, unassignable,
                 jobVars, laneVars, cacheVars, life, topPar, ops>>

\* Fill before spill: is there a fresh host ranked above h with free capacity?
RunningVlm(h) == {j \in VlmJob : status[j] = "running" /\ owner[j] = h}

DeferToSilentHosts(h, p) ==
  \E r \in Host : /\ concurrency[r] > p \/ (concurrency[r] = p /\ r < h)
                  /\ Cardinality(RunningVlm(r)) < concurrency[r]

vlm_pool_should_defer(h, p) ==
  \E r \in Host : /\ fresh[r]
                  /\ concurrency[r] > p \/ (concurrency[r] = p /\ r < h)
                  /\ Cardinality(RunningVlm(r)) < concurrency[r]
-----------------------------------------------------------------------------
\* Boot, park and the operator.

EnterUnasked(h) ==
  /\ life[h] \in {"boot", "parked"}
  /\ life' = [life EXCEPT ![h] = "up"]
  /\ upsert_worker_heartbeat(h, par[h], FitsOf[h])
  /\ poolMax' = [poolMax EXCEPT ![h] = par[h]]
  /\ topPar' = [topPar EXCEPT ![h] = par[h]]
  /\ UNCHANGED <<par, desired, unassignable, jobVars, inline, inlineJob, feeder, feederPar,
                 inflight, pooled, onPool, cacheVars, ops>>

\* _park_until_enabled lets the worker through: start the heartbeat and the lanes.
Enter(h) ==
  /\ life[h] \in {"boot", "parked"} /\ desired[h] = "on"
  /\ life' = [life EXCEPT ![h] = "up"]
  /\ upsert_worker_heartbeat(h, par[h], FitsOf[h])
  /\ poolMax' = [poolMax EXCEPT ![h] = par[h]]
  /\ topPar' = [topPar EXCEPT ![h] = par[h]]
  /\ UNCHANGED <<par, desired, unassignable, jobVars, inline, inlineJob, feeder, feederPar,
                 inflight, pooled, onPool, cacheVars, ops>>

Park(h) ==
  /\ life[h] = "boot" /\ desired[h] = "off"
  /\ life' = [life EXCEPT ![h] = "parked"]
  /\ UNCHANGED <<jobVars, rowVars, laneVars, cacheVars, topPar, ops>>

\* _refuse_blind_gpu: the container cannot use the GPU; the process ends before
\* its first heartbeat and waits for a restart.
RefuseBlind(h) ==
  /\ life[h] \in {"boot", "parked"} /\ desired[h] = "on" /\ Op
  /\ life' = [life EXCEPT ![h] = "dead"]
  /\ UNCHANGED <<jobVars, rowVars, laneVars, cacheVars, topPar>>

set_worker_control(h) ==
  /\ Op
  /\ desired' = [desired EXCEPT ![h] = IF @ = "on" THEN "off" ELSE "on"]
  /\ UNCHANGED <<par, fresh, concurrency, fits, flaggedDead, unassignable,
                 jobVars, laneVars, cacheVars, life, topPar>>

set_llm_config(h, p) ==
  /\ p # par[h] /\ Op
  /\ par' = [par EXCEPT ![h] = p]
  /\ topPar' = [topPar EXCEPT ![h] = Max({@, p})]
  /\ UNCHANGED <<desired, fresh, concurrency, fits, flaggedDead, unassignable,
                 jobVars, laneVars, cacheVars, life>>

requeue_running_for_worker(h) ==
  LET mine == {j \in Job : status[j] = "running" /\ owner[j] = h}
  IN  /\ status' = [j \in Job |-> IF j \in mine THEN "queued" ELSE status[j]]
      /\ owner' = [j \in Job |-> IF j \in mine THEN None ELSE owner[j]]

clear_worker_current_model(h) == fresh' = [fresh EXCEPT ![h] = FALSE]

\* WorkerControlWatcher sees OFF: re-queue what this worker owns and age its
\* heartbeat.  The process exits in a later step; its lanes run until then.
_apply_hard_stop(h) ==
  /\ life[h] = "up" /\ desired[h] = "off"
  /\ requeue_running_for_worker(h)
  /\ clear_worker_current_model(h)
  /\ life' = [life EXCEPT ![h] = "exiting"]
  /\ UNCHANGED <<par, desired, concurrency, fits, flaggedDead, unassignable,
                 laneVars, cacheVars, topPar, ops>>

\* The process is gone, with everything in its memory.
Gone(h, next) ==
  /\ life' = [life EXCEPT ![h] = next]
  /\ inline' = [inline EXCEPT ![h] = "free"] /\ inlineJob' = [inlineJob EXCEPT ![h] = None]
  /\ feeder' = [feeder EXCEPT ![h] = "top"] /\ feederPar' = [feederPar EXCEPT ![h] = 1]
  /\ inflight' = [inflight EXCEPT ![h] = 0]
  /\ pooled' = [pooled EXCEPT ![h] = {}] /\ onPool' = [onPool EXCEPT ![h] = {}]
  /\ poolMax' = [poolMax EXCEPT ![h] = 1]
  /\ slot' = [slot EXCEPT ![h] = None] /\ active' = [active EXCEPT ![h] = 0]
  /\ topPar' = [topPar EXCEPT ![h] = par[h]]
  /\ UNCHANGED <<jobVars, rowVars>>

\* os._exit of the hard stop; the supervisor starts the container again.
Exit(h) == life[h] = "exiting" /\ Gone(h, "boot") /\ UNCHANGED ops

\* SIGTERM sets _stop: the lanes take up nothing new and end what they run, the
\* finally of run_forever tears down, the supervisor starts the process again.
stop(h) ==
  /\ life[h] = "up" /\ Op
  /\ life' = [life EXCEPT ![h] = "stopping"]
  /\ UNCHANGED <<jobVars, rowVars, laneVars, cacheVars, topPar>>

Leave(h) ==
  /\ life[h] = "stopping" /\ inline[h] = "free" /\ pooled[h] = {}
  /\ Gone(h, "boot") /\ UNCHANGED ops

\* A crash or a watchdog's hard exit, restarted by the supervisor; or the
\* process hangs in the driver, silent, until somebody bounces it.
Crash(h) == Alive(h) /\ Op /\ (Gone(h, "boot") \/ Gone(h, "dead"))
Bounce(h) ==
  /\ life[h] = "dead"
  /\ life' = [life EXCEPT ![h] = "boot"]
  /\ UNCHANGED <<jobVars, rowVars, laneVars, cacheVars, topPar, ops>>
-----------------------------------------------------------------------------
\* The inline lane: run_once and _run_node of a warm-model job.

\* PAR is read and, under _pool_lock, the slot taken if the pool leaves one.
InlineReserve(h) ==
  /\ life[h] \in {"up", "exiting"} /\ inline[h] = "free" /\ inflight[h] < par[h]
  /\ inline' = [inline EXCEPT ![h] = "reserved"]
  /\ UNCHANGED <<jobVars, rowVars, inlineJob, feeder, feederPar, inflight, pooled, onPool,
                 poolMax, cacheVars, life, topPar, ops>>

\* _claim: a queued job whose model fits here; then mark_busy.
InlineClaim(h) ==
  LET claimable == {j \in ModelJob : status[j] = "queued" /\ ModelOf[j] \in FitsOf[h]}
  IN  /\ Alive(h) /\ inline[h] = "reserved"
      /\ \/ \E j \in claimable :
              /\ status' = [status EXCEPT ![j] = "running"]
              /\ owner' = [owner EXCEPT ![j] = h]
              /\ inlineJob' = [inlineJob EXCEPT ![h] = j]
              /\ inline' = [inline EXCEPT ![h] = "load"]
              /\ active' = [active EXCEPT ![h] = @ + 1]
         \/ /\ claimable = {}
            /\ inline' = [inline EXCEPT ![h] = "free"]
            /\ UNCHANGED <<jobVars, inlineJob, active>>
      /\ UNCHANGED <<rowVars, feeder, feederPar, inflight, pooled, onPool, poolMax, slot,
                     life, topPar, ops>>

\* require_model: a hit, or drop the slot, publish NULL and call the loader,
\* all under the cache lock.
require_model(h) ==
  /\ Alive(h) /\ inline[h] = "load"
  /\ \/ /\ slot[h] = ModelOf[inlineJob[h]]
        /\ inline' = [inline EXCEPT ![h] = "infer"]
        /\ UNCHANGED <<slot, rowVars>>
     \/ /\ slot[h] # ModelOf[inlineJob[h]]
        /\ inline' = [inline EXCEPT ![h] = "swap"]
        /\ slot' = [slot EXCEPT ![h] = None]
        /\ _publish_current_model(h)
  /\ UNCHANGED <<jobVars, inlineJob, feeder, feederPar, inflight, pooled, onPool, poolMax,
                 active, life, topPar, ops>>

\* The loader returned: fill the slot and publish.
Loaded(h) ==
  /\ Alive(h) /\ inline[h] = "swap"
  /\ slot' = [slot EXCEPT ![h] = ModelOf[inlineJob[h]]]
  /\ inline' = [inline EXCEPT ![h] = "infer"]
  /\ _publish_current_model(h)
  /\ UNCHANGED <<jobVars, inlineJob, feeder, feederPar, inflight, pooled, onPool, poolMax,
                 active, life, topPar, ops>>

\* The job ends, by itself or because the loader raised: the terminal write,
\* mark_idle, and the slot of the lane is free.
InlineFinish(h) ==
  /\ Alive(h) /\ inline[h] \in {"infer", "swap"}
  /\ status' = [status EXCEPT ![inlineJob[h]] = "done"]
  /\ active' = [active EXCEPT ![h] = Max({0, @ - 1})]
  /\ inline' = [inline EXCEPT ![h] = "free"] /\ inlineJob' = [inlineJob EXCEPT ![h] = None]
  /\ UNCHANGED <<owner, rowVars, feeder, feederPar, inflight, pooled, onPool, poolMax, slot,
                 life, topPar, ops>>

ReapIgnoringActive(h) ==
  /\ Alive(h) /\ inline[h] # "swap" /\ slot[h] # None
  /\ slot' = [slot EXCEPT ![h] = None]
  /\ _publish_current_model(h)
  /\ UNCHANGED <<jobVars, laneVars, active, life, topPar, ops>>

\* The TTL has passed and nothing is marked busy; the lock is free.
reap_idle_once(h) ==
  /\ Alive(h) /\ inline[h] # "swap"
  /\ slot[h] # None /\ active[h] <= 0
  /\ slot' = [slot EXCEPT ![h] = None]
  /\ _publish_current_model(h)
  /\ UNCHANGED <<jobVars, laneVars, active, life, topPar, ops>>
-----------------------------------------------------------------------------
\* The pool lane: the feeder thread and the executor.

\* Read PAR and grow the executor if it is too small.
FeederTop(h) ==
  /\ life[h] \in {"up", "exiting"} /\ feeder[h] = "top"
  /\ feeder' = [feeder EXCEPT ![h] = "ask"] /\ feederPar' = [feederPar EXCEPT ![h] = par[h]]
  /\ IF par[h] > poolMax[h]
       THEN poolMax' = [poolMax EXCEPT ![h] = par[h]] /\ onPool' = [onPool EXCEPT ![h] = {}]
       ELSE UNCHANGED <<poolMax, onPool>>
  /\ UNCHANGED <<jobVars, rowVars, inline, inlineJob, inflight, pooled, cacheVars, life, topPar, ops>>

\* A failed query counts as "do not defer".
FeederAsk(h) ==
  /\ life[h] \in {"up", "exiting"} /\ feeder[h] = "ask"
  /\ \/ /\ feeder' = [feeder EXCEPT ![h] =
                        IF vlm_pool_should_defer(h, feederPar[h]) THEN "top" ELSE "reserve"]
        /\ UNCHANGED ops
     \/ feeder' = [feeder EXCEPT ![h] = "reserve"] /\ Op
  /\ UNCHANGED <<jobVars, rowVars, inline, inlineJob, feederPar, inflight, pooled, onPool,
                 poolMax, cacheVars, life, topPar>>

BudgetIgnoringInline(h) == feederPar[h]

_pool_budget(h) == Max({0, feederPar[h] - (IF inline[h] = "free" THEN 0 ELSE 1)})

FeederReserve(h) ==
  /\ Alive(h) /\ feeder[h] = "reserve"
  /\ IF inflight[h] >= _pool_budget(h)
       THEN feeder' = [feeder EXCEPT ![h] = "top"] /\ UNCHANGED inflight
       ELSE feeder' = [feeder EXCEPT ![h] = "claim"] /\ inflight' = [inflight EXCEPT ![h] = @ + 1]
  /\ UNCHANGED <<jobVars, rowVars, inline, inlineJob, feederPar, pooled, onPool, poolMax,
                 cacheVars, life, topPar, ops>>

\* _stop_pool_lane has shut the executor down under a feeder that was claiming:
\* submit raises, the slot is released and the row is left to its lease.
SubmitFails(h) ==
  /\ life[h] = "stopping" /\ feeder[h] = "claim"
  /\ \E j \in VlmJob : /\ status[j] = "queued"
                       /\ status' = [status EXCEPT ![j] = "running"]
                       /\ owner' = [owner EXCEPT ![j] = h]
  /\ inflight' = [inflight EXCEPT ![h] = @ - 1]
  /\ feeder' = [feeder EXCEPT ![h] = "top"]
  /\ UNCHANGED <<rowVars, inline, inlineJob, feederPar, pooled, onPool, poolMax, cacheVars,
                 life, topPar, ops>>

ClaimLeakingSlot(h) ==
  LET claimable == {j \in VlmJob : status[j] = "queued"}
  IN  /\ Alive(h) /\ feeder[h] = "claim"
      /\ \/ \E j \in claimable :
              /\ status' = [status EXCEPT ![j] = "running"]
              /\ owner' = [owner EXCEPT ![j] = h]
              /\ pooled' = [pooled EXCEPT ![h] = @ \cup {j}]
              /\ onPool' = [onPool EXCEPT ![h] = @ \cup {j}]
              /\ feeder' = [feeder EXCEPT ![h] = "ask"]
         \/ /\ claimable = {}
            /\ feeder' = [feeder EXCEPT ![h] = "top"]
            /\ UNCHANGED <<jobVars, pooled, onPool>>
      /\ UNCHANGED <<inflight, rowVars, inline, inlineJob, feederPar, poolMax, cacheVars,
                     life, topPar, ops>>

\* _claim_pool and submit, or release the slot.
FeederClaim(h) ==
  LET claimable == {j \in VlmJob : status[j] = "queued"}
  IN  /\ Alive(h) /\ feeder[h] = "claim"
      /\ \/ \E j \in claimable :
              /\ status' = [status EXCEPT ![j] = "running"]
              /\ owner' = [owner EXCEPT ![j] = h]
              /\ pooled' = [pooled EXCEPT ![h] = @ \cup {j}]
              /\ onPool' = [onPool EXCEPT ![h] = @ \cup {j}]
              /\ feeder' = [feeder EXCEPT ![h] = "ask"]
              /\ UNCHANGED inflight
         \/ /\ claimable = {}
            /\ inflight' = [inflight EXCEPT ![h] = @ - 1]
            /\ feeder' = [feeder EXCEPT ![h] = "top"]
            /\ UNCHANGED <<jobVars, pooled, onPool>>
      /\ UNCHANGED <<rowVars, inline, inlineJob, feederPar, poolMax, cacheVars, life, topPar, ops>>

_pool_run_and_release(h, j) ==
  /\ Alive(h) /\ j \in pooled[h]
  /\ status' = [status EXCEPT ![j] = "done"]
  /\ pooled' = [pooled EXCEPT ![h] = @ \ {j}] /\ onPool' = [onPool EXCEPT ![h] = @ \ {j}]
  /\ inflight' = [inflight EXCEPT ![h] = @ - 1]
  /\ UNCHANGED <<owner, rowVars, inline, inlineJob, feeder, feederPar, poolMax, cacheVars,
                 life, topPar, ops>>
-----------------------------------------------------------------------------
\* The orchestrator's sweeps.

\* The lease of a job that no thread of its owner runs lapses and is swept.
LeaseReclaim(j) ==
  /\ status[j] = "running" /\ j \notin RunsOn(owner[j])
  /\ status' = [status EXCEPT ![j] = "queued"] /\ owner' = [owner EXCEPT ![j] = None]
  /\ UNCHANGED <<rowVars, laneVars, cacheVars, life, topPar, ops>>

flag_stale_workers_holding_running_jobs ==
  LET stale == {h \in Host \ flaggedDead :
                  ~fresh[h] /\ \E j \in Job : status[j] = "running" /\ owner[j] = h}
  IN  /\ stale # {}
      /\ flaggedDead' = flaggedDead \cup stale
      /\ UNCHANGED <<par, desired, fresh, concurrency, fits, unassignable,
                     jobVars, laneVars, cacheVars, life, topPar, ops>>

\* Clear first, then flag, in one transaction.
flag_unassignable_gpu_jobs ==
  LET live == {h \in Host : fresh[h]}
      Held(j) == \E h \in live : ModelOf[j] \in fits[h]
      kept == {j \in unassignable : status[j] = "queued" /\ ~Held(j)}
      new == IF live = {} THEN {} ELSE {j \in ModelJob : status[j] = "queued" /\ ~Held(j)}
  IN  /\ unassignable' = kept \cup new
      /\ unassignable' # unassignable
      /\ UNCHANGED <<par, desired, fresh, concurrency, fits, flaggedDead,
                     jobVars, laneVars, cacheVars, life, topPar, ops>>

HostStep(h) ==
  \/ emit_once(h) \/ HeartbeatAges(h)
  \/ Enter(h) \/ Park(h) \/ RefuseBlind(h) \/ set_worker_control(h)
  \/ \E p \in Par : set_llm_config(h, p)
  \/ _apply_hard_stop(h) \/ Exit(h) \/ stop(h) \/ Leave(h) \/ Crash(h) \/ Bounce(h)
  \/ InlineReserve(h) \/ InlineClaim(h) \/ require_model(h) \/ Loaded(h) \/ InlineFinish(h)
  \/ reap_idle_once(h)
  \/ FeederTop(h) \/ FeederAsk(h) \/ FeederReserve(h) \/ FeederClaim(h) \/ SubmitFails(h)
  \/ \E j \in VlmJob : _pool_run_and_release(h, j)

FleetNext ==
  \/ \E h \in Host : HostStep(h)
  \/ \E j \in Job : LeaseReclaim(j)
  \/ flag_stale_workers_holding_running_jobs \/ flag_unassignable_gpu_jobs

LifeStep(h) == Enter(h) \/ Park(h) \/ _apply_hard_stop(h) \/ Exit(h) \/ Leave(h)
InlineStep(h) == InlineClaim(h) \/ require_model(h) \/ Loaded(h) \/ InlineFinish(h)
FeederStep(h) == FeederTop(h) \/ FeederAsk(h) \/ FeederReserve(h) \/ FeederClaim(h)

\* Every thread of a live worker keeps running, jobs end, time passes, the
\* orchestrator reclaims.  Each lane blocks for up to a second between two polls
\* that find nothing, so the feeder's check of the budget does not fall into an
\* empty poll of the inline lane every time, nor the other way round.
FleetFairness ==
  /\ \A h \in Host :
       /\ WF_vars(LifeStep(h)) /\ WF_vars(emit_once(h) \/ HeartbeatAges(h))
       /\ WF_vars(InlineStep(h)) /\ SF_vars(InlineReserve(h))
       /\ WF_vars(FeederStep(h)) /\ WF_vars(\E j \in VlmJob : _pool_run_and_release(h, j))
       /\ []<><<FeederReserve(h)>>_vars => []<><<FeederReserve(h) /\ inline[h] # "reserved">>_vars
  /\ WF_vars(\E j \in Job : LeaseReclaim(j))

FleetSpec == FleetInit /\ [][FleetNext]_vars /\ FleetFairness
-----------------------------------------------------------------------------
\* Type correctness: the rows, the lanes and the cache of every host.
FleetTypeOK ==
  /\ status \in [Job -> {"queued", "running", "done"}]
  /\ owner \in [Job -> Host \cup {None}]
  /\ par \in [Host -> Par] /\ desired \in [Host -> {"on", "off"}]
  /\ fresh \in [Host -> BOOLEAN] /\ concurrency \in [Host -> Par \cup {1}]
  /\ fits \in [Host -> SUBSET Model]
  /\ flaggedDead \subseteq Host /\ unassignable \subseteq ModelJob
  /\ life \in [Host -> {"boot", "parked", "up", "stopping", "exiting", "dead"}]
  /\ inline \in [Host -> {"free", "reserved", "load", "swap", "infer"}]
  /\ inlineJob \in [Host -> ModelJob \cup {None}]
  /\ feeder \in [Host -> {"top", "ask", "reserve", "claim"}]
  /\ \A h \in Host : inflight[h] \in Nat /\ active[h] \in 0..1
  /\ onPool \in [Host -> SUBSET VlmJob] /\ pooled \in [Host -> SUBSET VlmJob]
  /\ slot \in [Host -> Model \cup {None}]
  /\ ops \in 0..MaxOps

\* The machine's cap that run_once and _pool_budget share: inline plus pool jobs
\* never exceed the largest PAR the worker has seen, also when the operator
\* changes PAR between the feeder's read and its reservation.
MachineWithinPar ==
  \A h \in Host : inflight[h] + (IF inline[h] = "free" THEN 0 ELSE 1) <= topPar[h]

\* No slot leaks and no claimed job waits for a thread: the counter is the jobs
\* on pool threads plus the one being claimed, and the executor in use has a
\* thread for each job submitted to it (a job waiting inside it would hold a
\* claim that nobody renews).
SlotsAreAccounted ==
  \A h \in Host : life[h] = "up" =>
    /\ inflight[h] = Cardinality(pooled[h]) + (IF feeder[h] = "claim" THEN 1 ELSE 0)
    /\ onPool[h] \subseteq pooled[h] /\ Cardinality(onPool[h]) <= poolMax[h]

\* The idle reaper never takes a model away from the job that runs on it.
ModelStaysLoaded ==
  \A h \in Host : inline[h] = "infer" => slot[h] = ModelOf[inlineJob[h]]

\* A host is flagged as wedged only while its heartbeat is silent, whoever wrote
\* the heartbeat: the emitter, the cache or a restarted worker.
FlaggedIsSilent == \A h \in flaggedDead : ~fresh[h]

CanServe(h, j) ==
  /\ desired[h] = "on" /\ life[h] # "dead"
  /\ j \in ModelJob => ModelOf[j] \in FitsOf[h]

\* No job starves, on either lane: neither the deferral to a higher-ranked peer
\* nor the slot that the lanes share keeps a job waiting for ever, through PAR
\* changes, stops and a peer that falls silent - as long as some worker that may
\* take it is switched on and not hung.
EveryJobRuns ==
  \A j \in Job : status[j] = "queued" ~> (status[j] = "done" \/ \A h \in Host : ~CanServe(h, j))

\* Switching a machine off works: its worker ends up parked, unless it is
\* switched on again or hangs.
OffParksTheWorker ==
  \A h \in Host : desired[h] = "off" ~> (desired[h] = "on" \/ life[h] \in {"parked", "dead"})
=============================================================================
