-------------------------- MODULE ClaimWorkerProofs --------------------------
(***************************************************************************)
(* Proofs about the claim workers, for any number of processes, lanes,     *)
(* nodes and re-queues.  The workers implement the job table's most        *)
(* general client, so every theorem of NodeQueueProofs holds for them;     *)
(* the invariant needed is that what a lane or its watchdog remembers is a *)
(* row that was claimed.  The second part bounds watchdog_retries.         *)
(***************************************************************************)
EXTENDS ClaimWorker, NodeQueueProofs, FiniteSetTheorems

(* A row once claimed: it is not newer than the present row of its node,   *)
(* and if it is the present one, that one has been claimed.                *)
WasClaimed(r) ==
  /\ r \in Row
  /\ 1 <= r.id /\ r.id <= rowId[r.node]
  /\ r.id = rowId[r.node] => touched[r.node]

RememberedRows ==
  \A e \in Lane :
    /\ pc[e] # "idle" => WasClaimed(held[e]) /\ (pc[e] = "park" <=> held[e].node \in Input)
    /\ trip[e].act # "none" => WasClaimed(trip[e].row) /\ trip[e].row.node \notin Input

WorkerInv == TypeOK /\ RowsNumbered /\ RememberedRows

-----------------------------------------------------------------------------
(* Every step of a worker is a step of the job table's general client, or  *)
(* leaves the table alone.                                                 *)
LEMMA WorkerStepIsQueueStep ==
  WorkerInv /\ [Next]_vars => [NodeQueueNext]_tables
<1> SUFFICES ASSUME WorkerInv, [Next]_vars
             PROVE  [NodeQueueNext]_tables
  OBVIOUS
<1> USE NodeQueueAssumption, ClaimWorkerAssumption
    DEF WorkerInv, TypeOK, NodeQueueTypeOK, RememberedRows, WasClaimed, Row
<1>1. ASSUME NEW e \in Lane, LaneStep(e)
      PROVE  [NodeQueueNext]_tables
  <2>1. ASSUME NEW n \in Node, Claim(e, n)
        PROVE  [NodeQueueNext]_tables
    BY <2>1 DEF Claim, NodeQueueNext, WorkerCall
  <2>2. CASE Park(e)
    <3>1. /\ held[e].node \in Input /\ held[e].node \in Node
          /\ held[e].id \in 1..rowId[held[e].node]
          /\ held[e].id = rowId[held[e].node] => touched[held[e].node]
          /\ MarkAwaitingInputAndEvent(held[e].node, held[e].id)
      BY <2>2 DEF Park
    <3>. QED
      BY <3>1, Zenon DEF NodeQueueNext, WorkerCall
  <2>3. CASE Complete(e)
    <3>1. CASE MarkMissed(held[e])
      BY <3>1, Zenon DEF MarkMissed
    <3>2. CASE MarkCompletedAndEvent(held[e].node, held[e].id)
      <4>1. /\ held[e].node \in Node /\ held[e].node \notin Input
            /\ held[e].id = rowId[held[e].node] /\ touched[held[e].node]
        BY <2>3, <3>2, Zenon DEF Complete, MarkCompletedAndEvent, MarkAndEnqueueEvent, Markable
      <4>. QED
        BY <3>2, <4>1 DEF NodeQueueNext, WorkerCall
    <3>. QED
      BY <2>3, <3>1, <3>2, Zenon DEF Complete
  <2>4. CASE Fail(e)
    <3>1. CASE MarkMissed(held[e])
      BY <3>1, Zenon DEF MarkMissed
    <3>2. CASE MarkFailedAndEvent(held[e].node, held[e].id)
      <4>1. /\ held[e].node \in Node /\ held[e].node \notin Input
            /\ held[e].id = rowId[held[e].node] /\ touched[held[e].node]
        BY <2>4, <3>2 DEF Fail, MarkFailedAndEvent, MarkAndEnqueueEvent, Markable
      <4>. QED
        BY <3>2, <4>1 DEF NodeQueueNext, WorkerCall
    <3>. QED
      BY <2>4, <3>1, <3>2 DEF Fail
  <2>5. CASE RequeueForTransientGpu(e)
    <3>1. CASE RequeueJobForRetry(held[e].node, held[e].id)
      <4>1. held[e].node \in Node /\ held[e].id = rowId[held[e].node]
        BY <2>5, <3>1 DEF RequeueForTransientGpu, RequeueJobForRetry, Requeueable
      <4>. QED
        BY <3>1, <4>1, Zenon DEF NodeQueueNext, WorkerCall
    <3>2. CASE UNCHANGED tables
      BY <3>2, Zenon
    <3>. QED
      BY <2>5, <3>1, <3>2 DEF RequeueForTransientGpu, tables
  <2>6. CASE Abandon(e)
    BY <2>6 DEF Abandon
  <2>. QED
    BY <1>1, <2>1, <2>2, <2>3, <2>4, <2>5, <2>6 DEF LaneStep
<1>2. ASSUME NEW e \in Lane, GuardStep(e)
      PROVE  [NodeQueueNext]_tables
  <2>1. CASE Renew(e)
    <3>1. /\ held[e].node \in Node /\ held[e].id = rowId[held[e].node] /\ HostOf[e] \in Host
          /\ RenewLease(held[e].node, held[e].id, HostOf[e])
      BY <2>1 DEF Renew, Guarded, RenewLease, Renewable
    <3>. QED
      BY <3>1, Zenon DEF NodeQueueNext, WorkerCall
  <2>2. CASE JobStatusWatcher(e) \/ WatchdogTrip(e)
    BY <2>2, Zenon DEF JobStatusWatcher, WatchdogTrip, tables
  <2>3. CASE WatchdogWrite(e)
    <3>1. CASE /\ trip[e].act = "requeue"
               /\ RequeueJobForRetry(trip[e].row.node, trip[e].row.id)
      <4>1. trip[e].row.node \in Node /\ trip[e].row.id = rowId[trip[e].row.node]
        BY <3>1, Zenon DEF RequeueJobForRetry, Requeueable
      <4>. QED
        BY <3>1, <4>1, Zenon DEF NodeQueueNext, WorkerCall
    <3>2. CASE /\ trip[e].act = "fail"
               /\ MarkFailedAndEvent(trip[e].row.node, trip[e].row.id)
      <4>1. /\ trip[e].row.node \in Node /\ trip[e].row.node \notin Input
            /\ trip[e].row.id = rowId[trip[e].row.node] /\ touched[trip[e].row.node]
        BY <3>2, Zenon DEF MarkFailedAndEvent, MarkAndEnqueueEvent, Markable
      <4>. QED
        BY <3>2, <4>1 DEF NodeQueueNext, WorkerCall
    <3>3. CASE UNCHANGED tables
      BY <3>3, Zenon
    <3>. QED
      BY <2>3, <3>1, <3>2, <3>3 DEF WatchdogWrite
  <2>. QED
    BY <1>2, <2>1, <2>2, <2>3, Zenon DEF GuardStep
<1>3. ASSUME NEW h \in Host, ProcessStep(h)
      PROVE  [NodeQueueNext]_tables
  BY <1>3, Zenon DEF ProcessStep, HardStop, Exit, Crash, EndProcess, NodeQueueNext
<1>4. CASE Environment
  BY <1>4, Zenon DEF Environment, NodeQueueNext
<1>5. CASE UNCHANGED vars
  BY <1>5, Zenon DEF vars
<1>. QED
  BY <1>1, <1>2, <1>3, <1>4, <1>5 DEF Next

-----------------------------------------------------------------------------
(* What a lane remembers.                                                  *)

(* A row that was once claimed stays one, whatever happens to the table.   *)
LEMMA ClaimsAreRemembered ==
  ASSUME NodeQueueTypeOK, NodeQueueTypeOK', RowsGrow, NEW r, WasClaimed(r)
  PROVE  WasClaimed(r)'
BY DEF WasClaimed, RowsGrow, NodeQueueTypeOK, Row

(* A lane takes a row up only by claiming it, and a watchdog only the row  *)
(* its lane holds, so both keep remembering claimed rows.                  *)
LEMMA WorkerInvStep == WorkerInv /\ [Next]_vars => WorkerInv'
<1> SUFFICES ASSUME WorkerInv, [Next]_vars
             PROVE  WorkerInv'
  OBVIOUS
<1>1. NodeQueueTypeOK' /\ RowsNumbered' /\ RowsGrow
  BY WorkerStepIsQueueStep, TypeStep, RowHistory, Zenon DEF WorkerInv, TypeOK
<1>2. ASSUME NEW r, WasClaimed(r) PROVE WasClaimed(r)'
  BY <1>1, <1>2, ClaimsAreRemembered, Zenon DEF WorkerInv, TypeOK
<1> DEFINE LaneOK(e) ==
      /\ pc[e] # "idle" => WasClaimed(held[e]) /\ (pc[e] = "park" <=> held[e].node \in Input)
      /\ trip[e].act # "none" => WasClaimed(trip[e].row) /\ trip[e].row.node \notin Input
<1> USE ClaimWorkerAssumption
<1> DEFINE P ==
      /\ pc \in [Lane -> {"idle", "execute", "park", "missed"}]
      /\ held \in [Lane -> Row \cup {NoRow}]
      /\ snap \in [Lane -> Nat]
      /\ trip \in [Lane -> [row : Row \cup {NoRow}, act : TripAct]]
      /\ doomed \subseteq Host
      /\ blind \in Nat
      /\ \A e \in Lane : LaneOK(e)
<1>3. SUFFICES P'
  BY <1>1, Zenon DEF WorkerInv, TypeOK, RememberedRows
<1> USE DEF WorkerInv, TypeOK
<1>4. \A e \in Lane : LaneOK(e)
  BY Zenon DEF RememberedRows
<1>5. ASSUME NEW e \in Lane, NEW n \in Node, Claim(e, n)
      PROVE  P'
  <2>1. [node |-> n, id |-> rowId[n]] \in Row
    BY Zenon DEF NodeQueueTypeOK, Row
  <2>2. rowId[n] >= 1 /\ rowId' = rowId /\ touched'[n] = TRUE
    BY <1>5, Zenon DEF Claim, ClaimNextJob, Claimable, RowsNumbered, NodeQueueTypeOK
  <2>3. /\ pc' = [pc EXCEPT ![e] = IF n \in Input THEN "park" ELSE "execute"]
        /\ held' = [held EXCEPT ![e] = [node |-> n, id |-> rowId[n]]]
        /\ snap' = [snap EXCEPT ![e] = retries[n]]
        /\ UNCHANGED <<trip, doomed, blind>>
    BY <1>5, Zenon DEF Claim
  <2>4. ASSUME NEW f \in Lane PROVE LaneOK(f)'
    <3>1. CASE f = e
      <4>1. held'[f] = [node |-> n, id |-> rowId[n]] /\ WasClaimed(held[f])'
        BY <2>1, <2>2, <2>3, <3>1 DEF WasClaimed, NodeQueueTypeOK
      <4>. QED
        BY <1>2, <1>4, <2>3, <3>1, <4>1
    <3>2. CASE f # e
      BY <1>2, <1>4, <2>3, <3>2
    <3>. QED
      BY <3>1, <3>2, Zenon
  <2>. QED
    BY <2>1, <2>3, <2>4 DEF NodeQueueTypeOK
<1>6. ASSUME NEW e \in Lane, Release(e)
      PROVE  P'
  BY <1>2, <1>4, <1>6, Zenon DEF Release
<1>7. ASSUME NEW e \in Lane, pc[e] = "execute", pc' = [pc EXCEPT ![e] = "missed"],
             UNCHANGED <<held, snap, trip, doomed, blind>>
      PROVE  P'
  BY <1>2, <1>4, <1>7, Zenon
<1>8. ASSUME NEW e \in Lane, WatchdogTrip(e)
      PROVE  P'
  <2>1. \E c \in {"requeue", "fail"} : trip' = [trip EXCEPT ![e] = [row |-> held[e], act |-> c]]
    BY <1>8, Zenon DEF WatchdogTrip, DecideTrip
  <2>2. /\ pc[e] \notin {"idle", "park"}
        /\ UNCHANGED <<pc, held, snap, doomed>> /\ blind' \in Nat
    BY <1>8 DEF WatchdogTrip, Watched, Guarded
  <2>. QED
    BY <1>2, <1>4, <2>1, <2>2 DEF TripAct
<1>9. ASSUME NEW e \in Lane, WatchdogWrite(e)
      PROVE  P'
  <2>1. /\ trip[e].act # "none" /\ trip' = [trip EXCEPT ![e].act = "done"]
        /\ UNCHANGED <<pc, held, snap, blind>> /\ doomed' = doomed \cup {HostOf[e]}
    BY <1>9, Zenon DEF WatchdogWrite
  <2>. QED
    BY <1>2, <1>4, <2>1 DEF TripAct
<1>10. ASSUME NEW h \in Host, EndProcess(h)
       PROVE  P'
  BY <1>2, <1>4, <1>10 DEF EndProcess, NoTrip, TripAct
<1>11. CASE UNCHANGED <<pc, held, snap, trip, blind>> /\ doomed' \subseteq Host
  BY <1>2, <1>4, <1>11
<1>12. ASSUME NEW e \in Lane, LaneStep(e) PROVE P'
  BY <1>5, <1>6, <1>7, <1>12
  DEF LaneStep, Park, Complete, Fail, RequeueForTransientGpu, Abandon
<1>13. ASSUME NEW e \in Lane, GuardStep(e) PROVE P'
  BY <1>8, <1>9, <1>11, <1>13 DEF GuardStep, Renew, JobStatusWatcher, workers
<1>14. ASSUME NEW h \in Host, ProcessStep(h) PROVE P'
  BY <1>10, <1>11, <1>14, Zenon DEF ProcessStep, HardStop, Exit, Crash
<1>15. CASE Environment \/ UNCHANGED vars
  BY <1>11, <1>15, Zenon DEF Environment, vars, workers
<1>. QED
  BY <1>12, <1>13, <1>14, <1>15, Zenon DEF Next

(* The worker processes start with nothing in hand.                        *)
LEMMA WorkerInvInit == Init => WorkerInv
BY ClaimWorkerAssumption, NodeQueueAssumption
DEF Init, NodeQueueInit, WorkerInv, TypeOK, NodeQueueTypeOK, RunStatus, JobStatus, Event,
    RowsNumbered, RememberedRows, NoTrip, TripAct

(* Hence the invariant holds of every state the workers reach.            *)
LEMMA WorkerInvAlways == Spec => []WorkerInv
BY WorkerInvInit, WorkerInvStep, PTL DEF Spec

-----------------------------------------------------------------------------
(* Theorems.                                                               *)

(* The state of every lane, guard thread and process keeps its type.       *)
THEOREM WorkersTypeCorrect == Spec => []TypeOK
<1>1. WorkerInv => TypeOK
  BY Zenon DEF WorkerInv
<1>. QED
  BY <1>1, WorkerInvAlways, PTL

(* No lane ever works on a row it did not claim: a row that reconcile_run  *)
(* inserts anew for the same node is not taken for the deleted one.        *)
THEOREM LanesHoldClaimedRows == Spec => []HeldRowsWereClaimed
<1>1. WorkerInv => HeldRowsWereClaimed
  BY Zenon DEF WorkerInv, RememberedRows, WasClaimed, HeldRowsWereClaimed
<1>. QED
  BY <1>1, WorkerInvAlways, PTL

(* The workers, with their renewers, watchers, watchdogs, hard stops and   *)
(* crashes, implement the job table's general client: what NodeQueueProofs *)
(* proves of the table holds of it under them.                             *)
THEOREM WorkersImplementQueue == Spec => NodeQueueSpec
<1>1. Init => NodeQueueInit
  BY Zenon DEF Init
<1>2. WorkerInv /\ [Next]_vars => [NodeQueueNext]_tables
  BY WorkerStepIsQueueStep, Zenon
<1>. QED
  BY <1>1, <1>2, WorkerInvAlways, PTL DEF Spec, NodeQueueSpec

RevivalStep ==
  \A n \in Node : lease[n] = "lapsed" /\ lease'[n] = "live" => \E e \in Lane : Holds(e, n)

(* Only the renewer of a lane that executes the row for its present owner  *)
(* makes a lapsed lease live again.                                        *)
THEOREM LapsedLeaseRevival == Spec => LapsedLeaseRevivedOnlyByOwner
<1>1. WorkerInv /\ ClaimColumnsConsistent /\ [Next]_vars => [RevivalStep]_vars
  <2> SUFFICES ASSUME WorkerInv, ClaimColumnsConsistent, [Next]_vars
               PROVE  RevivalStep \/ UNCHANGED vars
    OBVIOUS
  <2> USE NodeQueueAssumption, ClaimWorkerAssumption
      DEF WorkerInv, TypeOK, NodeQueueTypeOK, ClaimColumnsConsistent
  <2>1. ASSUME lease' = lease PROVE RevivalStep
    BY <2>1, Zenon DEF RevivalStep
  <2>2. ASSUME NEW rows, NEW s, HandBack(rows, s) PROVE RevivalStep
    BY <2>2, Zenon DEF HandBack, RevivalStep
  <2>3. ASSUME NEW e \in Lane, LaneStep(e) PROVE RevivalStep
    <3>1. ASSUME NEW n \in Node, Claim(e, n) PROVE RevivalStep
      <4>1. lease[n] # "lapsed" /\ lease' = [lease EXCEPT ![n] = "live"] /\ DOMAIN lease = Node
        BY <3>1 DEF Claim, ClaimNextJob, Claimable
      <4>2. \A m \in Node : m # n => lease'[m] = lease[m]
        BY ONLY <4>1, n \in Node, Zenon
      <4>. QED
        BY ONLY <4>1, <4>2 DEF RevivalStep
    <3>2. CASE Park(e) \/ Complete(e) \/ Fail(e) \/ Abandon(e)
      BY ONLY <2>1, <3>2, Zenon
      DEF Park, MarkAwaitingInputAndEvent, Complete, MarkMissed, MarkCompletedAndEvent, Fail, MarkFailedAndEvent,
          MarkAndEnqueueEvent, Abandon, tables
    <3>3. CASE RequeueForTransientGpu(e)
      BY ONLY <2>1, <2>2, <3>3, Zenon DEF RequeueForTransientGpu, RequeueJobForRetry, tables
    <3>. QED
      BY ONLY <2>3, <3>1, <3>2, <3>3, Zenon DEF LaneStep
  <2>4. ASSUME NEW e \in Lane, Renew(e) PROVE RevivalStep
    <3>1. held[e].node \in Node /\ held[e] = [node |-> held[e].node, id |-> rowId[held[e].node]]
      BY <2>4, Zenon DEF Renew, Guarded, RememberedRows, WasClaimed, Row, RenewLease, Renewable
    <3>2. Holds(e, held[e].node)
      BY <2>4, <3>1, Zenon DEF Renew, RenewLease, Renewable, Holds
    <3>. QED
      BY <2>4, <3>1, <3>2 DEF Renew, RenewLease, RevivalStep
  <2>5. ASSUME NEW e \in Lane, JobStatusWatcher(e) \/ WatchdogTrip(e) \/ WatchdogWrite(e)
        PROVE  RevivalStep
    BY <2>1, <2>2, <2>5, Zenon
    DEF JobStatusWatcher, WatchdogTrip, WatchdogWrite, RequeueJobForRetry, MarkFailedAndEvent,
        MarkAndEnqueueEvent, tables
  <2>6. ASSUME NEW h \in Host, ProcessStep(h) PROVE RevivalStep
    BY <2>1, <2>2, <2>6, Zenon
    DEF ProcessStep, HardStop, RequeueRunningForWorker, Exit, Crash, EndProcess, tables
  <2>7. CASE Environment
    <3>1. ASSUME NEW n \in Node, LeaseLapse(n) PROVE RevivalStep
      BY <3>1, Zenon DEF LeaseLapse, RevivalStep
    <3>2. ASSUME NEW n \in Node, NEW s, Insert(n, s) PROVE RevivalStep
      BY <3>2, Zenon DEF Insert, RevivalStep
    <3>. QED
      BY <2>1, <2>2, <2>7, <3>1, <3>2, Zenon
      DEF Environment, OrchestratorCall, EnqueueNodeJob, InsertSkippedJob, MarkCompleted,
          ReclaimExpiredLeases, ReclaimAllRunningForResume, CancelQueuedJobs,
          CancelOrphanedQueuedJobs, DeleteNonTerminalJobs, UpdateRun, ProcessEvents
  <2>. QED
    BY <2>3, <2>4, <2>5, <2>6, <2>7 DEF Next, GuardStep
<1>. QED
  BY <1>1, WorkerInvAlways, WorkersImplementQueue, ClaimColumnsCorrect, PTL
  DEF Spec, LapsedLeaseRevivedOnlyByOwner, RevivalStep
-----------------------------------------------------------------------------
(* The bound on watchdog_retries.  A decision to re-queue is made below    *)
(* the cap but carried out later, when other lanes may have re-queued the  *)
(* row meanwhile.  The invariant counts the decisions still pending for    *)
(* the present row: from the cap on, only a blind trip adds one, and every *)
(* re-queue uses one up.                                                   *)

Present(n) == [node |-> n, id |-> rowId[n]]

(* Lanes that would re-queue the present row on a transient gpu error.     *)
LaneDecisions(n) ==
  {e \in Lane : pc[e] = "execute" /\ snap[e] < Cap /\ held[e] = Present(n)}

(* Lanes whose watchdog has decided to re-queue it.                        *)
TripDecisions(n) ==
  {e \in Lane : trip[e].act = "requeue" /\ trip[e].row = Present(n)}

Pending(n) == Cardinality(LaneDecisions(n)) + Cardinality(TripDecisions(n))

Budget == Cap + blind + 2 * Cardinality(Lane) - 1

RetryOK(n) ==
  /\ retries[n] <= Budget
  /\ status[n] # "absent" /\ retries[n] >= Cap => retries[n] + Pending(n) <= Budget

RetryInv == \A n \in Node : RetryOK(n)

-----------------------------------------------------------------------------
(* Every lane counts at most once on each side.                            *)
LEMMA PendingBounded ==
  ASSUME NEW n
  PROVE  /\ IsFiniteSet(LaneDecisions(n)) /\ IsFiniteSet(TripDecisions(n))
         /\ Cardinality(LaneDecisions(n)) \in Nat /\ Cardinality(TripDecisions(n)) \in Nat
         /\ Cardinality(Lane) \in Nat \ {0}
         /\ Cardinality(LaneDecisions(n)) <= Cardinality(Lane)
         /\ Cardinality(TripDecisions(n)) <= Cardinality(Lane)
<1>1. IsFiniteSet(Lane) /\ Lane # {}
  BY ClaimWorkerAssumption, Zenon
<1>2. LaneDecisions(n) \in SUBSET Lane /\ TripDecisions(n) \in SUBSET Lane
  BY Zenon DEF LaneDecisions, TripDecisions
<1>3. Cardinality(Lane) \in Nat /\ Cardinality(Lane) # 0
  BY <1>1, FS_CardinalityType, FS_EmptySet, Zenon
<1>4. /\ IsFiniteSet(LaneDecisions(n))
      /\ Cardinality(LaneDecisions(n)) <= Cardinality(Lane)
  BY <1>1, <1>2, FS_Subset, Zenon
<1>5. /\ IsFiniteSet(TripDecisions(n))
      /\ Cardinality(TripDecisions(n)) <= Cardinality(Lane)
  BY <1>1, <1>2, FS_Subset, Zenon
<1>. QED
  BY <1>3, <1>4, <1>5, FS_CardinalityType, Zenon

(* A step that makes no decision about the row, and does not re-queue it,  *)
(* keeps the bound.                                                        *)
LEMMA QuietStep ==
  ASSUME NEW n \in Node, TypeOK, TypeOK', RetryOK(n),
         retries'[n] = retries[n], blind' = blind,
         status[n] = "absent" => status'[n] = "absent",
         LaneDecisions(n)' \subseteq LaneDecisions(n),
         TripDecisions(n)' \subseteq TripDecisions(n)
  PROVE  RetryOK(n)'
<1>1. /\ Cardinality(LaneDecisions(n)') <= Cardinality(LaneDecisions(n))
      /\ Cardinality(LaneDecisions(n)') \in Nat
  BY PendingBounded, FS_Subset, FS_CardinalityType, Zenon
<1>2. /\ Cardinality(TripDecisions(n)') <= Cardinality(TripDecisions(n))
      /\ Cardinality(TripDecisions(n)') \in Nat
  BY PendingBounded, FS_Subset, FS_CardinalityType, Zenon
<1>3. retries[n] \in Nat /\ blind \in Nat
  BY Zenon DEF TypeOK, NodeQueueTypeOK
<1>. QED
  BY <1>1, <1>2, <1>3, PendingBounded, ClaimWorkerAssumption DEF RetryOK, Pending, Budget

(* A re-queue that uses up a decision keeps the bound, also when it is the *)
(* one that reaches the cap.                                               *)
LEMMA SpendStep ==
  ASSUME NEW n \in Node, TypeOK, TypeOK', RetryOK(n),
         retries'[n] = retries[n] + 1, blind' = blind, status[n] # "absent",
         LaneDecisions(n)' \subseteq LaneDecisions(n),
         TripDecisions(n)' \subseteq TripDecisions(n),
         NEW e,
         \/ e \in LaneDecisions(n) /\ e \notin LaneDecisions(n)'
         \/ e \in TripDecisions(n) /\ e \notin TripDecisions(n)'
  PROVE  RetryOK(n)'
<1> DEFINE A == LaneDecisions(n)
           B == TripDecisions(n)
<1>1. /\ Cardinality(A') <= Cardinality(A) /\ Cardinality(A') \in Nat
      /\ Cardinality(A') = Cardinality(A) => A' = A
  BY PendingBounded, FS_Subset, FS_CardinalityType, Zenon
<1>2. /\ Cardinality(B') <= Cardinality(B) /\ Cardinality(B') \in Nat
      /\ Cardinality(B') = Cardinality(B) => B' = B
  BY PendingBounded, FS_Subset, FS_CardinalityType, Zenon
<1>3. Cardinality(A') # Cardinality(A) \/ Cardinality(B') # Cardinality(B)
  BY <1>1, <1>2, Zenon
<1>4. /\ Cardinality(A) \in Nat /\ Cardinality(B) \in Nat /\ Cardinality(Lane) \in Nat
      /\ Cardinality(A) <= Cardinality(Lane) /\ Cardinality(B) <= Cardinality(Lane)
  BY PendingBounded, Zenon
<1>5. Cardinality(A') + Cardinality(B') + 1 <= Cardinality(A) + Cardinality(B)
  <2> HIDE DEF A, B
  <2>. QED
    BY <1>1, <1>2, <1>3, <1>4
<1>6. Pending(n)' + 1 <= Pending(n) /\ Pending(n) <= 2 * Cardinality(Lane) /\ Pending(n)' \in Nat /\ Pending(n) \in Nat
  BY <1>1, <1>2, <1>4, <1>5 DEF Pending
<1>7. retries[n] \in Nat /\ blind \in Nat /\ Cap \in Nat
  BY ClaimWorkerAssumption, Zenon DEF TypeOK, NodeQueueTypeOK
<1>. QED
  BY <1>4, <1>6, <1>7 DEF RetryOK, Budget

-----------------------------------------------------------------------------
(* The lanes.  A re-queue on a transient error spends the lane's decision; *)
(* a claim makes one only below the cap.                                   *)
LEMMA LaneRetryStep ==
  ASSUME NEW n \in Node, NEW e \in Lane, WorkerInv, TypeOK', RetryOK(n), LaneStep(e)
  PROVE  RetryOK(n)'
<1> USE ClaimWorkerAssumption, NodeQueueAssumption
<1>1. TypeOK /\ retries[n] \in Nat /\ blind \in Nat /\ rowId[n] \in Nat
  BY Zenon DEF WorkerInv, TypeOK, NodeQueueTypeOK
<1>2. ASSUME Release(e), rowId'[n] = rowId[n]
      PROVE  /\ LaneDecisions(n)' \subseteq LaneDecisions(n) /\ e \notin LaneDecisions(n)'
             /\ TripDecisions(n)' \subseteq TripDecisions(n)
             /\ blind' = blind
  BY <1>2 DEF Release, LaneDecisions, TripDecisions, Present, WorkerInv, TypeOK
<1>3. ASSUME Release(e), rowId'[n] = rowId[n], retries'[n] = retries[n],
             status[n] = "absent" => status'[n] = "absent"
      PROVE  RetryOK(n)'
  BY <1>1, <1>2, <1>3, QuietStep
<1>4. ASSUME NEW m \in Node, Claim(e, m)
      PROVE  RetryOK(n)'
  <2>1. /\ rowId' = rowId /\ retries' = retries /\ blind' = blind
        /\ status[n] = "absent" => status'[n] = "absent"
        /\ trip' = trip
        /\ held' = [held EXCEPT ![e] = Present(m)]
        /\ snap' = [snap EXCEPT ![e] = retries[m]]
        /\ pc' = [pc EXCEPT ![e] = IF m \in Input THEN "park" ELSE "execute"]
    BY <1>4 DEF Claim, ClaimNextJob, Claimable, Present, WorkerInv, TypeOK, NodeQueueTypeOK
  <2>2. CASE retries[n] < Cap
    BY <1>1, <2>1, <2>2, PendingBounded DEF RetryOK, Budget
  <2>3. CASE ~(retries[n] < Cap)
    <3>1. TripDecisions(n)' \subseteq TripDecisions(n)
      BY <2>1, Zenon DEF TripDecisions, Present
    <3>2. LaneDecisions(n)' \subseteq LaneDecisions(n)
      BY <2>1, <2>3 DEF LaneDecisions, Present, WorkerInv, TypeOK
    <3>. QED
      BY <1>1, <2>1, <3>1, <3>2, QuietStep
  <2>. QED
    BY <2>2, <2>3, Zenon
<1>5. CASE Park(e) \/ Complete(e) \/ Fail(e) \/ Abandon(e)
  <2>1. Release(e) /\ rowId' = rowId /\ retries' = retries
    BY <1>5, Zenon DEF Park, MarkAwaitingInputAndEvent, Complete, Fail, MarkMissed,
                MarkCompletedAndEvent, MarkFailedAndEvent, MarkAndEnqueueEvent, Abandon, tables
  <2>2. status[n] = "absent" => status'[n] = "absent"
    BY <1>5 DEF Park, MarkAwaitingInputAndEvent, Complete, Fail, MarkMissed,
                MarkCompletedAndEvent, MarkFailedAndEvent, MarkAndEnqueueEvent, Markable,
                Abandon, tables, WorkerInv, TypeOK, NodeQueueTypeOK
  <2>. QED
    BY <1>3, <2>1, <2>2
<1>6. CASE RequeueForTransientGpu(e)
  <2> DEFINE m == held[e].node
  <2>1. CASE RequeueJobForRetry(m, held[e].id) /\ Release(e)
    <3>1. /\ rowId' = rowId /\ retries' = [retries EXCEPT ![m] = @ + 1]
          /\ status[m] = "running" /\ held[e].id = rowId[m]
          /\ status[n] = "absent" => status'[n] = "absent"
      BY <2>1, Zenon DEF RequeueJobForRetry, Requeueable, HandBack
    <3>2. CASE n = m
      <4>1. pc[e] = "execute" /\ snap[e] < Cap /\ held[e] \in Row
        BY <1>6 DEF RequeueForTransientGpu, WorkerInv, RememberedRows, WasClaimed
      <4>2. e \in LaneDecisions(n)
        BY <3>1, <3>2, <4>1 DEF LaneDecisions, Present, Row
      <4>3. retries'[n] = retries[n] + 1
        BY <3>1, <3>2 DEF WorkerInv, TypeOK, NodeQueueTypeOK
      <4>. QED
        BY <1>1, <1>2, <2>1, <3>1, <3>2, <4>2, <4>3, SpendStep
    <3>3. CASE n # m
      BY <1>3, <2>1, <3>1, <3>3 DEF WorkerInv, TypeOK, NodeQueueTypeOK
    <3>. QED
      BY <3>2, <3>3, Zenon
  <2>2. CASE pc' = [pc EXCEPT ![e] = "missed"] /\ UNCHANGED <<tables, held, snap, trip, doomed, blind>>
    <3>1. LaneDecisions(n)' \subseteq LaneDecisions(n) /\ TripDecisions(n)' \subseteq TripDecisions(n)
      BY <2>2, Zenon DEF LaneDecisions, TripDecisions, Present, tables, WorkerInv, TypeOK
    <3>. QED
      BY <1>1, <2>2, <3>1, QuietStep, Zenon DEF tables
  <2>. QED
    BY <1>6, <2>1, <2>2, Zenon DEF RequeueForTransientGpu
<1>. QED
  BY <1>4, <1>5, <1>6, Zenon DEF LaneStep

(* The guards.  A watchdog decides below the cap, or blindly, and spends   *)
(* its decision when it writes.                                            *)
LEMMA GuardRetryStep ==
  ASSUME NEW n \in Node, NEW e \in Lane, WorkerInv, TypeOK', RetryOK(n), GuardStep(e)
  PROVE  RetryOK(n)'
<1> USE ClaimWorkerAssumption, NodeQueueAssumption
<1>1. TypeOK /\ retries[n] \in Nat /\ blind \in Nat /\ rowId[n] \in Nat
  BY Zenon DEF WorkerInv, TypeOK, NodeQueueTypeOK
<1>2. CASE Renew(e) \/ JobStatusWatcher(e)
  <2>1. /\ UNCHANGED <<status, retries, rowId, pc, held, snap, trip, blind>>
    BY <1>2, Zenon DEF Renew, RenewLease, JobStatusWatcher, tables, workers
  <2>2. LaneDecisions(n)' = LaneDecisions(n) /\ TripDecisions(n)' = TripDecisions(n)
    BY <2>1, Zenon DEF LaneDecisions, TripDecisions, Present
  <2>. QED
    BY <1>1, <2>1, <2>2, QuietStep, Zenon
<1>3. CASE WatchdogTrip(e)
  <2>1. /\ UNCHANGED <<status, retries, rowId, pc, held, snap>>
        /\ held[e] \in Row
    BY <1>3, Zenon DEF WatchdogTrip, Watched, Guarded, tables, WorkerInv, RememberedRows, WasClaimed
  <2>2. LaneDecisions(n)' = LaneDecisions(n)
    BY <2>1, Zenon DEF LaneDecisions, Present
  <2>3. PICK c \in {"requeue", "fail"} : trip' = [trip EXCEPT ![e] = [row |-> held[e], act |-> c]]
    BY <1>3, Zenon DEF WatchdogTrip, DecideTrip
  <2>4. TripDecisions(n)' \subseteq TripDecisions(n) \cup {e}
    BY <2>1, <2>3 DEF TripDecisions, Present, WorkerInv, TypeOK
  <2>5. c = "fail" \/ held[e] # Present(n) => TripDecisions(n)' \subseteq TripDecisions(n)
    BY <2>1, <2>3 DEF TripDecisions, Present, WorkerInv, TypeOK
  <2>6. CASE blind' = blind + 1
    <3> DEFINE B == TripDecisions(n)
    <3>1. IsFiniteSet(B) /\ Cardinality(B) \in Nat
      BY PendingBounded, Zenon
    <3>2. IsFiniteSet(B \cup {e}) /\ Cardinality(B \cup {e}) <= Cardinality(B) + 1
          /\ Cardinality(B \cup {e}) \in Nat
      <4> HIDE DEF B
      <4>1. /\ IsFiniteSet(B \cup {e})
            /\ Cardinality(B \cup {e}) = IF e \in B THEN Cardinality(B) ELSE Cardinality(B) + 1
        BY <3>1, FS_AddElement, Zenon
      <4>. QED
        BY <3>1, <4>1
    <3>3. Cardinality(B') <= Cardinality(B \cup {e}) /\ Cardinality(B') \in Nat
      BY <2>4, <3>2, FS_Subset, FS_CardinalityType
    <3>4. Cardinality(B') <= Cardinality(B) + 1
      <4> HIDE DEF B
      <4>. QED
        BY <3>1, <3>2, <3>3
    <3>. QED
      BY <1>1, <2>1, <2>2, <2>6, <3>1, <3>3, <3>4, PendingBounded DEF RetryOK, Pending, Budget
  <2>7. CASE DecideTrip(e, IF rowId[held[e].node] = held[e].id /\ status[held[e].node] # "absent"
                           THEN retries[held[e].node] ELSE 0) /\ UNCHANGED blind
    <3>1. CASE held[e] # Present(n)
      BY <1>1, <2>1, <2>2, <2>5, <2>7, <3>1, QuietStep
    <3>2. CASE held[e] = Present(n) /\ status[n] = "absent"
      BY <1>1, <2>1, <2>7, <3>2 DEF RetryOK, Budget
    <3>3. CASE held[e] = Present(n) /\ status[n] # "absent" /\ retries[n] < Cap
      BY <1>1, <2>1, <2>7, <3>3, PendingBounded DEF RetryOK, Budget
    <3>4. CASE held[e] = Present(n) /\ status[n] # "absent" /\ ~(retries[n] < Cap)
      <4>1. held[e].node = n /\ held[e].id = rowId[n]
        BY <3>4 DEF Present
      <4>2. trip'[e].act = "fail"
        BY <2>7, <3>4, <4>1 DEF DecideTrip, WorkerInv, TypeOK
      <4>3. c = "fail"
        BY <2>3, <4>2 DEF WorkerInv, TypeOK
      <4>. QED
        BY <1>1, <2>1, <2>2, <2>5, <2>7, <4>3, QuietStep
    <3>. QED
      BY <3>1, <3>2, <3>3, <3>4, Zenon
  <2>. QED
    BY <1>3, <2>6, <2>7 DEF WatchdogTrip
<1>4. CASE WatchdogWrite(e)
  <2> DEFINE m == trip[e].row.node
  <2>1. /\ trip[e].act \in {"requeue", "fail"}
        /\ trip' = [trip EXCEPT ![e].act = "done"]
        /\ UNCHANGED <<pc, held, snap, blind>>
    BY <1>4, Zenon DEF WatchdogWrite
  <2>2. trip[e].row \in Row
    BY <2>1, Zenon DEF WorkerInv, RememberedRows, WasClaimed
  <2>3. trip'[e].act = "done" /\ \A f \in Lane : f # e => trip'[f] = trip[f]
    <3>1. trip' = [trip EXCEPT ![e] = [trip[e] EXCEPT !.act = "done"]]
      BY <2>1, Zenon
    <3>. QED
      BY <3>1 DEF WorkerInv, TypeOK
  <2>4. ASSUME rowId' = rowId
        PROVE  /\ LaneDecisions(n)' = LaneDecisions(n)
               /\ TripDecisions(n)' \subseteq TripDecisions(n) /\ e \notin TripDecisions(n)'
    BY <2>1, <2>3, <2>4, Zenon DEF LaneDecisions, TripDecisions, Present
  <2>5. CASE trip[e].act = "requeue" /\ RequeueJobForRetry(m, trip[e].row.id)
    <3>1. /\ rowId' = rowId /\ retries' = [retries EXCEPT ![m] = @ + 1]
          /\ status[m] = "running" /\ trip[e].row.id = rowId[m]
          /\ status[n] = "absent" => status'[n] = "absent"
      BY <2>5, Zenon DEF RequeueJobForRetry, Requeueable, HandBack
    <3>2. CASE n = m
      <4>1. e \in TripDecisions(n)
        BY <2>2, <2>5, <3>1, <3>2 DEF TripDecisions, Present, Row
      <4>2. retries'[n] = retries[n] + 1
        BY <3>1, <3>2 DEF WorkerInv, TypeOK, NodeQueueTypeOK
      <4>. QED
        BY <1>1, <2>1, <2>4, <3>1, <3>2, <4>1, <4>2, SpendStep
    <3>3. CASE n # m
      <4>1. retries'[n] = retries[n]
        BY <3>1, <3>3 DEF WorkerInv, TypeOK, NodeQueueTypeOK
      <4>. QED
        BY <1>1, <2>1, <2>4, <3>1, <4>1, QuietStep
    <3>. QED
      BY <3>2, <3>3, Zenon
  <2>6. CASE MarkFailedAndEvent(m, trip[e].row.id) \/ UNCHANGED tables
    <3>1. /\ rowId' = rowId /\ retries' = retries
          /\ status[n] = "absent" => status'[n] = "absent"
      BY <2>6 DEF MarkFailedAndEvent, MarkAndEnqueueEvent, Markable, tables, WorkerInv, TypeOK, NodeQueueTypeOK
    <3>. QED
      BY <1>1, <2>1, <2>4, <3>1, QuietStep
  <2>. QED
    BY <1>4, <2>5, <2>6 DEF WatchdogWrite
<1>. QED
  BY <1>2, <1>3, <1>4 DEF GuardStep

(* Processes that end forget their decisions; of the calls that come from  *)
(* elsewhere only an INSERT touches the counter, and no lane can have      *)
(* decided anything about the new row.                                     *)
LEMMA OtherRetryStep ==
  ASSUME NEW n \in Node, WorkerInv, TypeOK', RetryOK(n),
         (\E h \in Host : ProcessStep(h)) \/ Environment \/ UNCHANGED vars
  PROVE  RetryOK(n)'
<1> USE ClaimWorkerAssumption, NodeQueueAssumption
<1>1. TypeOK /\ retries[n] \in Nat /\ blind \in Nat /\ rowId[n] \in Nat
  BY Zenon DEF WorkerInv, TypeOK, NodeQueueTypeOK
<1>2. ASSUME UNCHANGED <<pc, held, snap, trip, blind>>, rowId'[n] = rowId[n],
             retries'[n] = retries[n], status[n] = "absent" => status'[n] = "absent"
      PROVE  RetryOK(n)'
  <2>1. LaneDecisions(n)' = LaneDecisions(n) /\ TripDecisions(n)' = TripDecisions(n)
    BY <1>2, Zenon DEF LaneDecisions, TripDecisions, Present
  <2>. QED
    BY <1>1, <1>2, <2>1, QuietStep, Zenon
<1>3. ASSUME NEW h \in Host, EndProcess(h)
      PROVE  RetryOK(n)'
  <2>1. LaneDecisions(n)' \subseteq LaneDecisions(n) /\ TripDecisions(n)' \subseteq TripDecisions(n)
    BY <1>3 DEF EndProcess, tables, LaneDecisions, TripDecisions, Present, NoTrip
  <2>. QED
    BY <1>1, <1>3, <2>1, QuietStep DEF EndProcess, tables
<1>4. ASSUME NEW h \in Host, HardStop(h)
      PROVE  RetryOK(n)'
  BY <1>2, <1>4 DEF HardStop, RequeueRunningForWorker, HandBack, tables
<1>5. CASE UNCHANGED vars
  BY <1>2, <1>5, Zenon DEF vars, tables, workers
<1>6. CASE Environment
  <2>1. ASSUME NEW m \in Node, NEW s, Insert(m, s), UNCHANGED workers
        PROVE  RetryOK(n)'
    <3>1. CASE m = n
      <4>1. rowId'[n] = rowId[n] + 1 /\ retries'[n] = 0 /\ blind' = blind
        BY <2>1, <3>1 DEF Insert, workers, WorkerInv, TypeOK, NodeQueueTypeOK
      <4>2. LaneDecisions(n)' = {} /\ TripDecisions(n)' = {}
        BY <1>1, <2>1, <4>1
        DEF LaneDecisions, TripDecisions, Present, workers, WorkerInv, RememberedRows, WasClaimed
      <4>3. Cardinality(LaneDecisions(n)') = 0 /\ Cardinality(TripDecisions(n)') = 0
        BY <4>2, FS_EmptySet
      <4>4. Pending(n)' = 0
        BY <4>3 DEF Pending
      <4>5. Cardinality(Lane) \in Nat \ {0}
        BY PendingBounded, Zenon
      <4>. QED
        BY <1>1, <4>1, <4>4, <4>5 DEF RetryOK, Budget
    <3>2. CASE m # n
      BY <1>2, <2>1, <3>2 DEF Insert, workers, WorkerInv, TypeOK, NodeQueueTypeOK
    <3>. QED
      BY <3>1, <3>2
  <2>2. CASE ReclaimExpiredLeases \/ \E stale \in SUBSET Host : ReclaimAllRunningForResume(stale)
    <3>1. CASE ReclaimExpiredLeases
      BY <1>2, <1>6, <3>1 DEF Environment, workers, ReclaimExpiredLeases, LapsedRows, HandBack
    <3>2. ASSUME NEW stale \in SUBSET Host, ReclaimAllRunningForResume(stale)
          PROVE  RetryOK(n)'
      BY <1>2, <1>6, <3>2 DEF Environment, workers, ReclaimAllRunningForResume, HandBack
    <3>. QED
      BY <2>2, <3>1, <3>2
  <2>3. CASE \/ CancelQueuedJobs \/ CancelOrphanedQueuedJobs \/ DeleteNonTerminalJobs
             \/ \E s \in RunStatus : UpdateRun(s)
             \/ \E evs \in SUBSET outbox, s \in {run, "failed"} : ProcessEvents(evs, s)
             \/ \E m \in Node : LeaseLapse(m)
    BY <1>2, <1>6, <2>3, Zenon
    DEF Environment, workers, CancelQueuedJobs, CancelOrphanedQueuedJobs, DeleteNonTerminalJobs,
        UpdateRun, ProcessEvents, LeaseLapse
  <2>4. ASSUME NEW m \in Input, MarkCompleted(m, rowId[m])
        PROVE  RetryOK(n)'
    BY <1>2, <1>6, <2>4 DEF Environment, workers, MarkCompleted, Markable, WorkerInv, TypeOK, NodeQueueTypeOK
  <2>. QED
    BY <1>6, <2>1, <2>2, <2>3, <2>4 DEF Environment, OrchestratorCall, EnqueueNodeJob, InsertSkippedJob
<1>. QED
  BY <1>3, <1>4, <1>5, <1>6, Zenon DEF ProcessStep, Exit, Crash

(* A job is re-queued by watchdogs and transient errors only so often,     *)
(* however many lanes act on stale counts: at most the cap, plus the       *)
(* decisions that can be pending when it is reached, plus the blind trips. *)
THEOREM RetriesStayBounded == Spec => []RetriesBounded
<1>1. Init => RetryInv
  <2> SUFFICES ASSUME Init, NEW n \in Node PROVE RetryOK(n)
    BY Zenon DEF RetryInv
  <2>1. LaneDecisions(n) = {} /\ TripDecisions(n) = {}
    BY Zenon DEF Init, LaneDecisions, TripDecisions, NoTrip
  <2>2. Cardinality(LaneDecisions(n)) = 0 /\ Cardinality(TripDecisions(n)) = 0
    BY <2>1, FS_EmptySet, Zenon
  <2>. QED
    BY <2>2, PendingBounded, ClaimWorkerAssumption DEF Init, NodeQueueInit, RetryOK, Pending, Budget
<1>2. RetryInv /\ WorkerInv /\ WorkerInv' /\ [Next]_vars => RetryInv'
  <2> SUFFICES ASSUME RetryInv, WorkerInv, WorkerInv', [Next]_vars, NEW n \in Node
               PROVE  RetryOK(n)'
    BY Zenon DEF RetryInv
  <2>1. RetryOK(n) /\ TypeOK'
    BY Zenon DEF RetryInv, WorkerInv
  <2>. QED
    BY <2>1, LaneRetryStep, GuardRetryStep, OtherRetryStep, Zenon DEF Next
<1>3. RetryInv => RetriesBounded
  BY Zenon DEF RetryInv, RetryOK, Budget, RetriesBounded
<1>. QED
  BY <1>1, <1>2, <1>3, WorkerInvAlways, PTL DEF Spec
=============================================================================
