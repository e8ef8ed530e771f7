----------------------------- MODULE ClaimWorker -----------------------------
(***************************************************************************)
(* The claim workers (queue_workflows/claim_worker.py, node_executor.py)   *)
(* over the job table of NodeQueue.  A host runs one worker process; the   *)
(* process has one inline lane and, on a gpu host, the threads of the VLM  *)
(* pool lane.  A lane that executes a row is guarded by threads of its     *)
(* own: the lease renewer, the JobStatusWatcher and, inline, a watchdog.   *)
(* All of them act while the node body runs, and a watchdog that has begun *)
(* to trip goes on after the body returned (its stop() joins for 2 s and   *)
(* then gives up).                                                         *)
(*                                                                         *)
(* os._exit is two steps: the guard decides (doomed), and the process ends *)
(* (Exit).  Between the two the other threads of the process still run.    *)
(* A process that ended is restarted by its supervisor with empty lanes.   *)
(***************************************************************************)
EXTENDS NodeQueue

CONSTANTS
  Lane,       \* every lane of every worker process
  HostOf,     \* the host whose process runs the lane
  Pool,       \* the lanes that are threads of a VLM pool: no watchdog
  Cap,        \* AI_LEADS_WATCHDOG_MAX_RETRIES
  MaxBlind    \* bound: failed reads of watchdog_retries

ASSUME ClaimWorkerAssumption ==
  /\ IsFiniteSet(Lane) /\ Lane # {}
  /\ HostOf \in [Lane -> Host]
  /\ Pool \subseteq Lane
  /\ Cap \in Nat
  /\ MaxBlind \in Nat

VARIABLES
  pc,         \* what the lane's main thread does
  held,       \* the row it claimed: [node, id], or NoRow
  snap,       \* watchdog_retries in the claimed row the lane keeps
  trip,       \* the watchdog thread of the lane: what it decided and for which row
  doomed,     \* the hosts whose process is about to hard-exit
  blind       \* history: trips decided without the row's watchdog_retries

workers == <<pc, held, snap, trip, doomed, blind>>
vars == <<tables, workers>>

Row == [node : Node, id : Nat]
NoRow == [node |-> "none", id |-> 0]
NoTrip == [row |-> NoRow, act |-> "none"]
TripAct == {"none", "requeue", "fail", "done"}

TypeOK ==
  /\ NodeQueueTypeOK
  /\ pc \in [Lane -> {"idle", "execute", "park", "missed"}]
  /\ held \in [Lane -> Row \cup {NoRow}]
  /\ snap \in [Lane -> Nat]
  /\ trip \in [Lane -> [row : Row \cup {NoRow}, act : TripAct]]
  /\ doomed \subseteq Host
  /\ blind \in Nat

Init ==
  /\ NodeQueueInit
  /\ pc = [e \in Lane |-> "idle"]
  /\ held = [e \in Lane |-> NoRow]
  /\ snap = [e \in Lane |-> 0]
  /\ trip = [e \in Lane |-> NoTrip]
  /\ doomed = {}
  /\ blind = 0

-----------------------------------------------------------------------------
(* The lane.                                                               *)

\* run_once / _pool_feeder_loop: claim a row and start on it.
Claim(e, n) ==
  /\ pc[e] = "idle"
  /\ ClaimNextJob(n, HostOf[e])
  /\ pc' = [pc EXCEPT ![e] = IF n \in Input THEN "park" ELSE "execute"]
  /\ held' = [held EXCEPT ![e] = [node |-> n, id |-> rowId[n]]]
  /\ snap' = [snap EXCEPT ![e] = retries[n]]
  /\ UNCHANGED <<trip, doomed, blind>>

\* The lane is done with its row: finally blocks, back to the claim loop.
Release(e) ==
  /\ pc' = [pc EXCEPT ![e] = "idle"]
  /\ held' = [held EXCEPT ![e] = NoRow]
  /\ snap' = [snap EXCEPT ![e] = 0]
  /\ UNCHANGED <<trip, doomed, blind>>

\* An __input__ node: no renewer, watcher or watchdog is started for it.
Park(e) ==
  /\ pc[e] = "park"
  /\ MarkAwaitingInputAndEvent(held[e].node, held[e].id)
  /\ Release(e)

\* A mark that returns None: nothing is written ("skipped").
MarkMissed(r) == ~ Markable(r.node, r.id) /\ UNCHANGED tables

CompleteByNodeName(e) ==
  /\ pc[e] = "execute"
  /\ \/ MarkCompletedAndEvent(held[e].node, rowId[held[e].node])
     \/ MarkMissed(held[e])
  /\ Release(e)

\* execute_node returned: mark_completed and the event in one transaction.
Complete(e) ==
  /\ pc[e] = "execute"
  /\ \/ MarkCompletedAndEvent(held[e].node, held[e].id)
     \/ MarkMissed(held[e])
  /\ Release(e)

\* The body raised, or a transient error met the cap: _finalise_failed.
Fail(e) ==
  /\ pc[e] \in {"execute", "missed"}
  /\ \/ MarkFailedAndEvent(held[e].node, held[e].id)
     \/ MarkMissed(held[e])
  /\ Release(e)

RequeueUncapped(e) ==
  /\ pc[e] = "execute"
  /\ RequeueJobForRetry(held[e].node, held[e].id)
  /\ Release(e)

\* A transient gpu error below the cap, read off the row as it was claimed.
\* When the row is no longer running the code goes on to _finalise_failed.
RequeueForTransientGpu(e) ==
  /\ pc[e] = "execute"
  /\ snap[e] < Cap
  /\ \/ RequeueJobForRetry(held[e].node, held[e].id) /\ Release(e)
     \/ /\ ~ Requeueable(held[e].node, held[e].id)
        /\ pc' = [pc EXCEPT ![e] = "missed"]
        /\ UNCHANGED <<tables, held, snap, trip, doomed, blind>>

\* A statement of the lane raised (database unreachable): run_forever logs it
\* and goes on; the row stays as it is, without a renewer.
Abandon(e) ==
  /\ pc[e] # "idle"
  /\ Release(e)
  /\ UNCHANGED tables

-----------------------------------------------------------------------------
(* The guard threads of a lane that executes a row.                        *)

Guarded(e) == pc[e] \in {"execute", "missed"}

\* Threads of the pool have a renewer and a status watcher, and no watchdog.
Watched(e) == Guarded(e) /\ e \notin Pool

Renew(e) ==
  /\ Guarded(e)
  /\ RenewLease(held[e].node, held[e].id, HostOf[e])
  /\ UNCHANGED workers

\* JobStatusWatcher: the row is gone or no longer claimed by this host.
Displaced(e) ==
  LET r == held[e] IN
    \/ rowId[r.node] # r.id
    \/ status[r.node] = "absent"
    \/ claimedBy[r.node] # HostOf[e]

WatcherOfBareStatus(e) ==
  /\ Guarded(e)
  /\ status[held[e].node] # "running"
  /\ doomed' = doomed \cup {HostOf[e]}
  /\ UNCHANGED <<tables, pc, held, snap, trip, blind>>

JobStatusWatcher(e) ==
  /\ Guarded(e)
  /\ Displaced(e)
  /\ doomed' = doomed \cup {HostOf[e]}
  /\ UNCHANGED <<tables, pc, held, snap, trip, blind>>

\* _watchdog_trip reads the row and decides; a row that is gone, or a read
\* that failed, counts as no retry yet.
DecideTrip(e, count) ==
  trip' = [trip EXCEPT ![e] =
             [row |-> held[e], act |-> IF count < Cap THEN "requeue" ELSE "fail"]]

WatchdogTrip(e) ==
  LET n == held[e].node
      present == rowId[n] = held[e].id /\ status[n] # "absent"
  IN
  /\ Watched(e)
  /\ trip[e] = NoTrip
  /\ \/ DecideTrip(e, IF present THEN retries[n] ELSE 0) /\ UNCHANGED blind
     \/ blind < MaxBlind /\ DecideTrip(e, 0) /\ blind' = blind + 1
  /\ UNCHANGED <<tables, pc, held, snap, doomed>>

\* _requeue_job_and_exit / _fail_job_and_exit.  The write may fail (it is
\* swallowed and logged); the process is doomed all the same.
WatchdogWrite(e) ==
  LET r == trip[e].row IN
  /\ \/ trip[e].act = "requeue" /\ (RequeueJobForRetry(r.node, r.id) \/ UNCHANGED tables)
     \/ trip[e].act = "fail" /\ (MarkFailedAndEvent(r.node, r.id) \/ UNCHANGED tables)
  /\ trip' = [trip EXCEPT ![e].act = "done"]
  /\ doomed' = doomed \cup {HostOf[e]}
  /\ UNCHANGED <<pc, held, snap, blind>>

-----------------------------------------------------------------------------
(* The process.                                                            *)

\* WorkerControlWatcher: _apply_hard_stop hands every running row of this
\* worker back (an error is swallowed) and exits.
HardStop(h) ==
  /\ h \notin doomed
  /\ RequeueRunningForWorker(h) \/ UNCHANGED tables
  /\ doomed' = doomed \cup {h}
  /\ UNCHANGED <<pc, held, snap, trip, blind>>

\* Every lane of the process ends where it is; a fresh process takes over.
EndProcess(h) ==
  /\ pc' = [e \in Lane |-> IF HostOf[e] = h THEN "idle" ELSE pc[e]]
  /\ held' = [e \in Lane |-> IF HostOf[e] = h THEN NoRow ELSE held[e]]
  /\ snap' = [e \in Lane |-> IF HostOf[e] = h THEN 0 ELSE snap[e]]
  /\ trip' = [e \in Lane |-> IF HostOf[e] = h THEN NoTrip ELSE trip[e]]
  /\ doomed' = doomed \ {h}
  /\ UNCHANGED <<tables, blind>>

Exit(h) == h \in doomed /\ EndProcess(h)

Crash(h) == h \notin doomed /\ (\E e \in Lane : HostOf[e] = h /\ pc[e] # "idle") /\ EndProcess(h)

-----------------------------------------------------------------------------
LaneStep(e) ==
  \/ \E n \in Node : Claim(e, n)
  \/ Park(e)
  \/ Complete(e)
  \/ Fail(e)
  \/ RequeueForTransientGpu(e)
  \/ Abandon(e)

GuardStep(e) ==
  \/ Renew(e)
  \/ JobStatusWatcher(e)
  \/ WatchdogTrip(e)
  \/ WatchdogWrite(e)

ProcessStep(h) == HardStop(h) \/ Exit(h) \/ Crash(h)

\* What the orchestrator and the clock do to the table meanwhile.
Environment ==
  /\ OrchestratorCall \/ \E n \in Node : LeaseLapse(n)
  /\ UNCHANGED workers

Next ==
  \/ \E e \in Lane : LaneStep(e) \/ GuardStep(e)
  \/ \E h \in Host : ProcessStep(h)
  \/ Environment

Spec == Init /\ [][Next]_vars

\* The guards poll on timers, a doomed process ends, the orchestrator sweeps
\* every few seconds, and a lease nobody renews runs out.  Nothing is assumed
\* of node bodies (they may hang), of renewals, of watchdogs or of claims.
Holds(e, n) == Guarded(e) /\ held[e] = [node |-> n, id |-> rowId[n]] /\ HostOf[e] = claimedBy[n]
Stranded(n) == status[n] = "running" /\ \A e \in Lane : ~ Holds(e, n)

Fairness ==
  /\ \A e \in Lane : WF_vars(JobStatusWatcher(e))
  /\ \A h \in Host : WF_vars(Exit(h))
  /\ \A n \in Node : WF_vars(Stranded(n) /\ LeaseLapse(n) /\ UNCHANGED workers)
  /\ WF_vars(LapsedRows # {} /\ ReclaimExpiredLeases /\ UNCHANGED workers)

FairSpec == Spec /\ Fairness

-----------------------------------------------------------------------------
(* Properties.                                                             *)

(* A lane only ever holds rows that exist or existed, and a row it holds   *)
(* that is still the present one was claimed: no lane executes a row that  *)
(* reconcile_run inserted anew for the same node.                          *)
HeldRowsWereClaimed ==
  \A e \in Lane :
    /\ pc[e] # "idle" => held[e] \in Row /\ held[e].id <= rowId[held[e].node]
    /\ pc[e] # "idle" /\ held[e].id = rowId[held[e].node] => touched[held[e].node]

(* LeaseRenewer is scoped to claimed_by: only a lane of the host that owns *)
(* the row brings a lapsed lease back, so a displaced worker cannot keep   *)
(* the claim of a dead successor alive.                                    *)
LapsedLeaseRevivedOnlyByOwner ==
  [][\A n \in Node : lease[n] = "lapsed" /\ lease'[n] = "live"
       => \E e \in Lane : Holds(e, n)]_vars

(* Every watchdog or transient-error re-queue was decided below the cap:   *)
(* a lane can carry at most two such decisions at once (its own and its    *)
(* watchdog's), so stale decisions overshoot the cap by a bounded amount,  *)
(* plus one for each trip that could not read the counter.                 *)
RetriesBounded ==
  \A n \in Node : retries[n] <= Cap + blind + 2 * Cardinality(Lane) - 1

(* The row is never run twice across a hand-off (requeue_running_for_worker *)
(* and _requeue_job_and_exit): no two lanes execute the same row.          *)
OneRunnerPerRow ==
  \A e, f \in Lane : e # f /\ pc[e] = "execute" /\ pc[f] = "execute" => held[e] # held[f]

(* JobStatusWatcher: a lane whose row was re-queued or reassigned stops    *)
(* executing it, even when the node body never returns.                    *)
DisplacedLaneStops ==
  \A e \in Lane : (Guarded(e) /\ Displaced(e)) ~> ~ Guarded(e)

(* A running row whose worker died, or that nobody executes any more, does *)
(* not stay running: the lease lapses and the sweep hands it back, also    *)
(* when its run is no longer active.                                       *)
StrandedRowIsRecovered ==
  \A n \in Node : Stranded(n) ~> ~ Stranded(n)
=============================================================================
