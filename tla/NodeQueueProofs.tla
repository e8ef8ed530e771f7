--------------------------- MODULE NodeQueueProofs ---------------------------
(***************************************************************************)
(* Proofs about the job table, for every workflow, every set of hosts and  *)
(* every number of rows, and for the most general client of the table: the *)
(* claim workers and the dispatcher are shown to be such clients in        *)
(* ClaimWorkerProofs and DispatcherProofs, and inherit what is proved      *)
(* here.  The inductive invariant adds to the properties only that an      *)
(* outbox event is never about a row that has not been inserted yet.       *)
(***************************************************************************)
EXTENDS NodeQueue, TLAPS

(* No event names a row newer than the present one of its node.            *)
EventsAreOld == \A ev \in outbox : ev.id <= rowId[ev.node]

-----------------------------------------------------------------------------
(* Types.                                                                  *)

(* Every statement of node_queue.py keeps its columns within their types.  *)
LEMMA TypeStep ==
  NodeQueueTypeOK /\ [NodeQueueNext]_tables => NodeQueueTypeOK'
<1> SUFFICES ASSUME NodeQueueTypeOK, [NodeQueueNext]_tables
             PROVE  NodeQueueTypeOK'
  OBVIOUS
<1> USE NodeQueueAssumption DEF NodeQueueTypeOK, RunStatus, JobStatus, Terminal, Kind, Event
<1>1. ASSUME NEW n \in Node, WorkerCall(n)
      PROVE  NodeQueueTypeOK'
  <2>1. ASSUME NEW h \in Host, ClaimNextJob(n, h)
        PROVE  NodeQueueTypeOK'
    BY <2>1, Zenon DEF ClaimNextJob, Claimable
  <2>2. ASSUME NEW h \in Host, RenewLease(n, rowId[n], h)
        PROVE  NodeQueueTypeOK'
    BY <2>2, Zenon DEF RenewLease
  <2>3. CASE RequeueJobForRetry(n, rowId[n])
    BY <2>3 DEF RequeueJobForRetry, HandBack
  <2>4. ASSUME NEW s \in {"completed", "failed"}, MarkAndEnqueueEvent(n, rowId[n], s)
        PROVE  NodeQueueTypeOK'
    BY <2>4 DEF MarkAndEnqueueEvent
  <2>5. ASSUME NEW i \in 1..rowId[n], MarkAwaitingInputAndEvent(n, i)
        PROVE  NodeQueueTypeOK'
    BY <2>5 DEF MarkAwaitingInputAndEvent
  <2>. QED
    BY <1>1, <2>1, <2>2, <2>3, <2>4, <2>5, Zenon
    DEF WorkerCall, MarkCompletedAndEvent, MarkFailedAndEvent
<1>2. ASSUME NEW h \in Host, RequeueRunningForWorker(h)
      PROVE  NodeQueueTypeOK'
  BY <1>2, Zenon DEF RequeueRunningForWorker, HandBack
<1>3. CASE OrchestratorCall
  <2>1. ASSUME NEW n \in Node, NEW s \in {"queued", "skipped"}, Insert(n, s)
        PROVE  NodeQueueTypeOK'
    <3>1. touched' \in [Node -> BOOLEAN]
      BY <2>1, Zenon DEF Insert
    <3>. QED
      BY <2>1, <3>1 DEF Insert
  <2>2. ASSUME NEW n \in Input, MarkCompleted(n, rowId[n])
        PROVE  NodeQueueTypeOK'
    BY <2>2, Zenon DEF MarkCompleted
  <2>3. CASE ReclaimExpiredLeases
    BY <2>3, Zenon DEF ReclaimExpiredLeases, HandBack
  <2>4. ASSUME NEW stale \in SUBSET Host, ReclaimAllRunningForResume(stale)
        PROVE  NodeQueueTypeOK'
    BY <2>4, Zenon DEF ReclaimAllRunningForResume, HandBack
  <2>5. CASE CancelQueuedJobs \/ CancelOrphanedQueuedJobs
    BY <2>5, Zenon DEF CancelQueuedJobs, CancelOrphanedQueuedJobs
  <2>6. CASE DeleteNonTerminalJobs
    BY <2>6, Zenon DEF DeleteNonTerminalJobs
  <2>7. ASSUME NEW s \in RunStatus, UpdateRun(s)
        PROVE  NodeQueueTypeOK'
    BY <2>7, Zenon DEF UpdateRun
  <2>8. ASSUME NEW evs \in SUBSET outbox, NEW s \in {run, "failed"}, ProcessEvents(evs, s)
        PROVE  NodeQueueTypeOK'
    BY <2>8, Zenon DEF ProcessEvents
  <2>. QED
    BY <1>3, <2>1, <2>2, <2>3, <2>4, <2>5, <2>6, <2>7, <2>8, Zenon
    DEF OrchestratorCall, EnqueueNodeJob, InsertSkippedJob
<1>4. ASSUME NEW n \in Node, LeaseLapse(n)
      PROVE  NodeQueueTypeOK'
  BY <1>4, Zenon DEF LeaseLapse
<1>5. CASE UNCHANGED tables
  BY <1>5, Zenon DEF tables
<1>. QED
  BY <1>1, <1>2, <1>3, <1>4, <1>5, Zenon DEF NodeQueueNext

(* The job table is type correct whatever its clients do.                  *)
THEOREM TypeCorrect == NodeQueueSpec => []NodeQueueTypeOK
<1>1. NodeQueueInit => NodeQueueTypeOK
  BY DEF NodeQueueInit, NodeQueueTypeOK, RunStatus, JobStatus, Terminal
<1>. QED
  BY <1>1, TypeStep, PTL DEF NodeQueueSpec

-----------------------------------------------------------------------------
(* Claim columns.                                                          *)

(* A claim writes owner and lease together, a hand-back clears both.       *)
LEMMA ClaimColumnsStep ==
  NodeQueueTypeOK /\ ClaimColumnsConsistent /\ [NodeQueueNext]_tables
    => ClaimColumnsConsistent'
<1> SUFFICES ASSUME NodeQueueTypeOK, ClaimColumnsConsistent, [NodeQueueNext]_tables
             PROVE  ClaimColumnsConsistent'
  OBVIOUS
<1> USE NodeQueueAssumption DEF NodeQueueTypeOK, ClaimColumnsConsistent
<1>1. ASSUME NEW n \in Node, WorkerCall(n)
      PROVE  ClaimColumnsConsistent'
  <2>1. ASSUME NEW h \in Host, ClaimNextJob(n, h)
        PROVE  ClaimColumnsConsistent'
    BY <2>1, Zenon DEF ClaimNextJob, Claimable
  <2>2. ASSUME NEW h \in Host, RenewLease(n, rowId[n], h)
        PROVE  ClaimColumnsConsistent'
    BY <2>2, Zenon DEF RenewLease, Renewable
  <2>3. CASE RequeueJobForRetry(n, rowId[n])
    BY <2>3, Zenon DEF RequeueJobForRetry, HandBack
  <2>4. ASSUME NEW s \in {"completed", "failed"}, MarkAndEnqueueEvent(n, rowId[n], s)
        PROVE  ClaimColumnsConsistent'
    BY <2>4, Zenon DEF MarkAndEnqueueEvent
  <2>5. ASSUME NEW i \in 1..rowId[n], MarkAwaitingInputAndEvent(n, i)
        PROVE  ClaimColumnsConsistent'
    BY <2>5, Zenon DEF MarkAwaitingInputAndEvent
  <2>. QED
    BY <1>1, <2>1, <2>2, <2>3, <2>4, <2>5, Zenon
    DEF WorkerCall, MarkCompletedAndEvent, MarkFailedAndEvent
<1>2. ASSUME NEW h \in Host, RequeueRunningForWorker(h)
      PROVE  ClaimColumnsConsistent'
  BY <1>2, Zenon DEF RequeueRunningForWorker, HandBack
<1>3. CASE OrchestratorCall
  <2>1. ASSUME NEW n \in Node, NEW s \in {"queued", "skipped"}, Insert(n, s)
        PROVE  ClaimColumnsConsistent'
    BY <2>1, Zenon DEF Insert
  <2>2. ASSUME NEW n \in Input, MarkCompleted(n, rowId[n])
        PROVE  ClaimColumnsConsistent'
    BY <2>2, Zenon DEF MarkCompleted
  <2>3. CASE ReclaimExpiredLeases
    BY <2>3, Zenon DEF ReclaimExpiredLeases, HandBack
  <2>4. ASSUME NEW stale \in SUBSET Host, ReclaimAllRunningForResume(stale)
        PROVE  ClaimColumnsConsistent'
    BY <2>4, Zenon DEF ReclaimAllRunningForResume, HandBack
  <2>5. CASE CancelQueuedJobs \/ CancelOrphanedQueuedJobs
    BY <2>5, Zenon DEF CancelQueuedJobs, CancelOrphanedQueuedJobs
  <2>6. CASE DeleteNonTerminalJobs
    BY <2>6, Zenon DEF DeleteNonTerminalJobs
  <2>7. ASSUME NEW s \in RunStatus, UpdateRun(s)
        PROVE  ClaimColumnsConsistent'
    BY <2>7, Zenon DEF UpdateRun
  <2>8. ASSUME NEW evs \in SUBSET outbox, NEW s \in {run, "failed"}, ProcessEvents(evs, s)
        PROVE  ClaimColumnsConsistent'
    BY <2>8, Zenon DEF ProcessEvents
  <2>. QED
    BY <1>3, <2>1, <2>2, <2>3, <2>4, <2>5, <2>6, <2>7, <2>8, Zenon
    DEF OrchestratorCall, EnqueueNodeJob, InsertSkippedJob
<1>4. ASSUME NEW n \in Node, LeaseLapse(n)
      PROVE  ClaimColumnsConsistent'
  BY <1>4, Zenon DEF LeaseLapse
<1>5. CASE UNCHANGED tables
  BY <1>5, Zenon DEF tables
<1>. QED
  BY <1>1, <1>2, <1>3, <1>4, <1>5, Zenon DEF NodeQueueNext

(* A running row always has an owner and a lease, a queued row neither:    *)
(* no interleaving of claims, reclaims and marks strands a row.            *)
THEOREM ClaimColumnsCorrect == NodeQueueSpec => []ClaimColumnsConsistent
<1>1. NodeQueueInit => ClaimColumnsConsistent
  BY Zenon DEF NodeQueueInit, ClaimColumnsConsistent
<1>. QED
  BY <1>1, TypeCorrect, ClaimColumnsStep, PTL DEF NodeQueueSpec

-----------------------------------------------------------------------------
(* The outbox.                                                             *)

OutboxInv == EventsAreOld /\ PendingEventsAreTrue /\ ExactlyOneTerminalEvent

(* A step that writes no event and deletes or re-labels only unfinished    *)
(* rows, none of them to completed or failed, keeps the outbox truthful.   *)
LEMMA OutboxQuietStep ==
  ASSUME NodeQueueTypeOK, OutboxInv,
         outbox' \subseteq outbox, rowId' = rowId, finals' = finals,
         \A n \in Node : \/ status'[n] = status[n]
                         \/ status'[n] = "absent"
                         \/ /\ status[n] \notin Terminal \cup {"absent"}
                            /\ status'[n] \notin {"completed", "failed"}
  PROVE  OutboxInv'
<1> USE DEF OutboxInv, NodeQueueTypeOK, Event
<1>1. EventsAreOld'
  BY Zenon DEF EventsAreOld
<1>2. PendingEventsAreTrue'
  BY Zenon DEF PendingEventsAreTrue, Terminal
<1>3. ExactlyOneTerminalEvent'
  BY Zenon DEF ExactlyOneTerminalEvent, Terminal
<1>. QED
  BY <1>1, <1>2, <1>3, Zenon

(* Inserting a row makes every earlier event one about an older row.       *)
LEMMA OutboxInsert ==
  ASSUME NodeQueueTypeOK, OutboxInv,
         NEW n \in Node, NEW s \in {"queued", "skipped"}, Insert(n, s)
  PROVE  OutboxInv'
<1> USE DEF OutboxInv, NodeQueueTypeOK, Event, Insert
<1>1. EventsAreOld'
  BY DEF EventsAreOld
<1>2. PendingEventsAreTrue'
  BY DEF PendingEventsAreTrue, EventsAreOld
<1>3. ExactlyOneTerminalEvent'
  BY Zenon DEF ExactlyOneTerminalEvent
<1>. QED
  BY <1>1, <1>2, <1>3, Zenon

(* A terminal mark finds an unfinished row, so it writes the first and     *)
(* only terminal event of that row.                                        *)
LEMMA OutboxMark ==
  ASSUME NodeQueueTypeOK, OutboxInv,
         NEW n \in Node \ Input, NEW s \in {"completed", "failed"},
         MarkAndEnqueueEvent(n, rowId[n], s)
  PROVE  OutboxInv'
<1> USE NodeQueueAssumption
    DEF OutboxInv, NodeQueueTypeOK, Event, MarkAndEnqueueEvent, Markable, Terminal
<1>1. EventsAreOld'
  BY DEF EventsAreOld
<1>2. PendingEventsAreTrue'
  BY DEF PendingEventsAreTrue
<1>3. ExactlyOneTerminalEvent'
  BY DEF ExactlyOneTerminalEvent
<1>. QED
  BY <1>1, <1>2, <1>3, Zenon

(* Parking a row, also one that is gone, writes no terminal event.         *)
LEMMA OutboxPark ==
  ASSUME NodeQueueTypeOK, OutboxInv,
         NEW n \in Node, NEW i \in 1..rowId[n], MarkAwaitingInputAndEvent(n, i)
  PROVE  OutboxInv'
<1> USE DEF OutboxInv, NodeQueueTypeOK, Event, MarkAwaitingInputAndEvent, Markable, Terminal
<1>1. EventsAreOld'
  BY DEF EventsAreOld
<1>2. PendingEventsAreTrue'
  BY DEF PendingEventsAreTrue
<1>3. ExactlyOneTerminalEvent'
  BY Zenon DEF ExactlyOneTerminalEvent
<1>. QED
  BY <1>1, <1>2, <1>3, Zenon

(* The answer completes an input node, which has no event to its name.     *)
LEMMA OutboxAnswer ==
  ASSUME NodeQueueTypeOK, OutboxInv,
         NEW n \in Input, MarkCompleted(n, rowId[n])
  PROVE  OutboxInv'
<1> USE NodeQueueAssumption
    DEF OutboxInv, NodeQueueTypeOK, Event, MarkCompleted, Markable, Terminal
<1>1. EventsAreOld'
  BY Zenon DEF EventsAreOld
<1>2. PendingEventsAreTrue'
  BY Zenon DEF PendingEventsAreTrue
<1>3. ExactlyOneTerminalEvent'
  BY Zenon DEF ExactlyOneTerminalEvent
<1>. QED
  BY <1>1, <1>2, <1>3, Zenon

(* Every statement keeps the outbox truthful.                              *)
LEMMA OutboxStep ==
  NodeQueueTypeOK /\ OutboxInv /\ [NodeQueueNext]_tables => OutboxInv'
<1> SUFFICES ASSUME NodeQueueTypeOK, OutboxInv, [NodeQueueNext]_tables
             PROVE  OutboxInv'
  OBVIOUS
<1>1. ASSUME NEW n \in Node, WorkerCall(n)
      PROVE  OutboxInv'
  <2>1. ASSUME NEW h \in Host, ClaimNextJob(n, h)
        PROVE  OutboxInv'
    BY <2>1, OutboxQuietStep, Zenon DEF ClaimNextJob, Claimable, NodeQueueTypeOK, Terminal
  <2>2. ASSUME NEW h \in Host, RenewLease(n, rowId[n], h)
        PROVE  OutboxInv'
    BY <2>2, OutboxQuietStep, Zenon DEF RenewLease
  <2>3. CASE RequeueJobForRetry(n, rowId[n])
    BY <2>3, OutboxQuietStep, Zenon DEF RequeueJobForRetry, Requeueable, HandBack, Terminal
  <2>4. ASSUME NEW s \in {"completed", "failed"}, n \notin Input,
               MarkAndEnqueueEvent(n, rowId[n], s)
        PROVE  OutboxInv'
    BY <2>4, OutboxMark, Zenon
  <2>5. ASSUME NEW i \in 1..rowId[n], MarkAwaitingInputAndEvent(n, i)
        PROVE  OutboxInv'
    BY <2>5, OutboxPark, Zenon
  <2>. QED
    BY <1>1, <2>1, <2>2, <2>3, <2>4, <2>5, Zenon
    DEF WorkerCall, MarkCompletedAndEvent, MarkFailedAndEvent
<1>2. ASSUME NEW h \in Host, RequeueRunningForWorker(h)
      PROVE  OutboxInv'
  BY <1>2, OutboxQuietStep, Zenon DEF RequeueRunningForWorker, HandBack, Terminal
<1>3. CASE OrchestratorCall
  <2>1. ASSUME NEW n \in Node, NEW s \in {"queued", "skipped"}, Insert(n, s)
        PROVE  OutboxInv'
    BY <2>1, OutboxInsert, Zenon
  <2>2. ASSUME NEW n \in Input, MarkCompleted(n, rowId[n])
        PROVE  OutboxInv'
    BY <2>2, OutboxAnswer, Zenon
  <2>3. CASE ReclaimExpiredLeases
    BY <2>3, OutboxQuietStep, Zenon DEF ReclaimExpiredLeases, LapsedRows, HandBack, Terminal
  <2>4. ASSUME NEW stale \in SUBSET Host, ReclaimAllRunningForResume(stale)
        PROVE  OutboxInv'
    BY <2>4, OutboxQuietStep, Zenon DEF ReclaimAllRunningForResume, HandBack, Terminal
  <2>5. CASE CancelQueuedJobs \/ CancelOrphanedQueuedJobs
    BY <2>5, OutboxQuietStep, Zenon DEF CancelQueuedJobs, CancelOrphanedQueuedJobs, Terminal
  <2>6. CASE DeleteNonTerminalJobs
    BY <2>6, OutboxQuietStep, Zenon DEF DeleteNonTerminalJobs
  <2>7. ASSUME NEW s \in RunStatus, UpdateRun(s)
        PROVE  OutboxInv'
    BY <2>7, OutboxQuietStep, Zenon DEF UpdateRun
  <2>8. ASSUME NEW evs \in SUBSET outbox, NEW s \in {run, "failed"}, ProcessEvents(evs, s)
        PROVE  OutboxInv'
    BY <2>8, OutboxQuietStep, Zenon DEF ProcessEvents
  <2>. QED
    BY <1>3, <2>1, <2>2, <2>3, <2>4, <2>5, <2>6, <2>7, <2>8, Zenon
    DEF OrchestratorCall, EnqueueNodeJob, InsertSkippedJob
<1>4. ASSUME NEW n \in Node, LeaseLapse(n)
      PROVE  OutboxInv'
  BY <1>4, OutboxQuietStep, Zenon DEF LeaseLapse
<1>5. CASE UNCHANGED tables
  BY <1>5, OutboxQuietStep, Zenon DEF tables
<1>. QED
  BY <1>1, <1>2, <1>3, <1>4, <1>5, Zenon DEF NodeQueueNext

(* The outbox is truthful in every reachable state.                        *)
LEMMA OutboxAlways == NodeQueueSpec => []OutboxInv
<1>1. NodeQueueInit => OutboxInv
  BY Zenon DEF NodeQueueInit, OutboxInv, EventsAreOld, PendingEventsAreTrue, ExactlyOneTerminalEvent
<1>. QED
  BY <1>1, TypeCorrect, OutboxStep, PTL DEF NodeQueueSpec

(* However many workers try to finish a row, exactly one terminal event is *)
(* written for it, in the transaction that finishes it.                    *)
THEOREM OneTerminalEventPerRow == NodeQueueSpec => []ExactlyOneTerminalEvent
<1>1. OutboxInv => ExactlyOneTerminalEvent
  BY Zenon DEF OutboxInv
<1>. QED
  BY <1>1, OutboxAlways, PTL

(* An unprocessed terminal event agrees with the row it was written for.   *)
THEOREM PendingEventsTruthful == NodeQueueSpec => []PendingEventsAreTrue
<1>1. OutboxInv => PendingEventsAreTrue
  BY Zenon DEF OutboxInv
<1>. QED
  BY <1>1, OutboxAlways, PTL

-----------------------------------------------------------------------------
(* What a step may never do.                                               *)

FrozenStep ==
  \A n \in Node : status[n] \in Terminal /\ status'[n] # "absent"
    => status'[n] = status[n] /\ rowId'[n] = rowId[n] /\ claimedBy'[n] = claimedBy[n]

LiveClaimStep ==
  \A n \in Node : status[n] # "running" /\ status'[n] = "running"
    => run \notin {"cancelled", "failed"}

(* Each statement asks for a status that is not terminal before it writes, *)
(* and the claim alone makes a row running.                                *)
LEMMA StepsAreGuarded ==
  NodeQueueTypeOK /\ [NodeQueueNext]_tables => FrozenStep /\ LiveClaimStep
<1> SUFFICES ASSUME NodeQueueTypeOK, [NodeQueueNext]_tables
             PROVE  FrozenStep /\ LiveClaimStep
  OBVIOUS
<1> USE NodeQueueAssumption DEF NodeQueueTypeOK, FrozenStep, LiveClaimStep, Terminal
<1>1. ASSUME NEW n \in Node, WorkerCall(n)
      PROVE  FrozenStep /\ LiveClaimStep
  <2>1. ASSUME NEW h \in Host, ClaimNextJob(n, h)
        PROVE  FrozenStep /\ LiveClaimStep
    BY <2>1, Zenon DEF ClaimNextJob, Claimable
  <2>2. ASSUME NEW h \in Host, RenewLease(n, rowId[n], h)
        PROVE  FrozenStep /\ LiveClaimStep
    BY <2>2, Zenon DEF RenewLease
  <2>3. CASE RequeueJobForRetry(n, rowId[n])
    BY <2>3, Zenon DEF RequeueJobForRetry, Requeueable, HandBack
  <2>4. ASSUME NEW s \in {"completed", "failed"}, MarkAndEnqueueEvent(n, rowId[n], s)
        PROVE  FrozenStep /\ LiveClaimStep
    BY <2>4, Zenon DEF MarkAndEnqueueEvent, Markable
  <2>5. ASSUME NEW i \in 1..rowId[n], MarkAwaitingInputAndEvent(n, i)
        PROVE  FrozenStep /\ LiveClaimStep
    BY <2>5, Zenon DEF MarkAwaitingInputAndEvent, Markable
  <2>. QED
    BY <1>1, <2>1, <2>2, <2>3, <2>4, <2>5, Zenon
    DEF WorkerCall, MarkCompletedAndEvent, MarkFailedAndEvent
<1>2. ASSUME NEW h \in Host, RequeueRunningForWorker(h)
      PROVE  FrozenStep /\ LiveClaimStep
  BY <1>2, Zenon DEF RequeueRunningForWorker, HandBack
<1>3. CASE OrchestratorCall
  <2>1. ASSUME NEW n \in Node, NEW s \in {"queued", "skipped"}, Insert(n, s)
        PROVE  FrozenStep /\ LiveClaimStep
    BY <2>1, Zenon DEF Insert
  <2>2. ASSUME NEW n \in Input, MarkCompleted(n, rowId[n])
        PROVE  FrozenStep /\ LiveClaimStep
    BY <2>2, Zenon DEF MarkCompleted, Markable
  <2>3. CASE ReclaimExpiredLeases
    BY <2>3, Zenon DEF ReclaimExpiredLeases, LapsedRows, HandBack
  <2>4. ASSUME NEW stale \in SUBSET Host, ReclaimAllRunningForResume(stale)
        PROVE  FrozenStep /\ LiveClaimStep
    BY <2>4, Zenon DEF ReclaimAllRunningForResume, HandBack
  <2>5. CASE CancelQueuedJobs \/ CancelOrphanedQueuedJobs
    BY <2>5, Zenon DEF CancelQueuedJobs, CancelOrphanedQueuedJobs
  <2>6. CASE DeleteNonTerminalJobs
    BY <2>6, Zenon DEF DeleteNonTerminalJobs
  <2>7. ASSUME NEW s \in RunStatus, UpdateRun(s)
        PROVE  FrozenStep /\ LiveClaimStep
    BY <2>7, Zenon DEF UpdateRun
  <2>8. ASSUME NEW evs \in SUBSET outbox, NEW s \in {run, "failed"}, ProcessEvents(evs, s)
        PROVE  FrozenStep /\ LiveClaimStep
    BY <2>8, Zenon DEF ProcessEvents
  <2>. QED
    BY <1>3, <2>1, <2>2, <2>3, <2>4, <2>5, <2>6, <2>7, <2>8, Zenon
    DEF OrchestratorCall, EnqueueNodeJob, InsertSkippedJob
<1>4. ASSUME NEW n \in Node, LeaseLapse(n)
      PROVE  FrozenStep /\ LiveClaimStep
  BY <1>4, Zenon DEF LeaseLapse
<1>5. CASE UNCHANGED tables
  BY <1>5, Zenon DEF tables
<1>. QED
  BY <1>1, <1>2, <1>3, <1>4, <1>5, Zenon DEF NodeQueueNext

(* A finished row is never changed, only deleted: a displaced worker's     *)
(* late mark, a reclaim or a cancel cannot resurrect or re-label it.       *)
THEOREM FinishedRowsStayFrozen == NodeQueueSpec => FinishedRowsFrozen
<1>1. NodeQueueTypeOK /\ [NodeQueueNext]_tables => [FrozenStep]_tables
  BY StepsAreGuarded, Zenon
<1>. QED
  BY <1>1, TypeCorrect, PTL DEF NodeQueueSpec, FinishedRowsFrozen, FrozenStep

(* No row goes to running while its run is cancelled or failed.            *)
THEOREM DeadRunsAreNotClaimed == NodeQueueSpec => NoClaimForDeadRun
<1>1. NodeQueueTypeOK /\ [NodeQueueNext]_tables => [LiveClaimStep]_tables
  BY StepsAreGuarded, Zenon
<1>. QED
  BY <1>1, TypeCorrect, PTL DEF NodeQueueSpec, NoClaimForDeadRun, LiveClaimStep

-----------------------------------------------------------------------------
(* Row numbers, for the modules that remember rows.                        *)

RowsNumbered == \A n \in Node : status[n] # "absent" => rowId[n] >= 1

RowsGrow ==
  \A n \in Node : /\ rowId'[n] >= rowId[n]
                  /\ rowId'[n] = rowId[n] /\ touched[n] => touched'[n]

(* Row numbers only grow, a present row has one, and a row that has been   *)
(* claimed stays a claimed row.                                            *)
LEMMA RowHistory ==
  NodeQueueTypeOK /\ RowsNumbered /\ [NodeQueueNext]_tables => RowsNumbered' /\ RowsGrow
<1> SUFFICES ASSUME NodeQueueTypeOK, RowsNumbered, [NodeQueueNext]_tables
             PROVE  RowsNumbered' /\ RowsGrow
  OBVIOUS
<1> USE NodeQueueAssumption DEF NodeQueueTypeOK, RowsNumbered, RowsGrow
<1>1. ASSUME NEW n \in Node, WorkerCall(n)
      PROVE  RowsNumbered' /\ RowsGrow
  <2>1. ASSUME NEW h \in Host, ClaimNextJob(n, h)
        PROVE  RowsNumbered' /\ RowsGrow
    BY <2>1 DEF ClaimNextJob, Claimable
  <2>2. ASSUME NEW h \in Host, RenewLease(n, rowId[n], h)
        PROVE  RowsNumbered' /\ RowsGrow
    BY <2>2 DEF RenewLease
  <2>3. CASE RequeueJobForRetry(n, rowId[n])
    BY <2>3 DEF RequeueJobForRetry, Requeueable, HandBack
  <2>4. ASSUME NEW s \in {"completed", "failed"}, MarkAndEnqueueEvent(n, rowId[n], s)
        PROVE  RowsNumbered' /\ RowsGrow
    BY <2>4 DEF MarkAndEnqueueEvent, Markable
  <2>5. ASSUME NEW i \in 1..rowId[n], MarkAwaitingInputAndEvent(n, i)
        PROVE  RowsNumbered' /\ RowsGrow
    BY <2>5 DEF MarkAwaitingInputAndEvent, Markable
  <2>. QED
    BY <1>1, <2>1, <2>2, <2>3, <2>4, <2>5, Zenon
    DEF WorkerCall, MarkCompletedAndEvent, MarkFailedAndEvent
<1>2. ASSUME NEW h \in Host, RequeueRunningForWorker(h)
      PROVE  RowsNumbered' /\ RowsGrow
  BY <1>2 DEF RequeueRunningForWorker, HandBack
<1>3. CASE OrchestratorCall
  <2>1. ASSUME NEW n \in Node, NEW s \in {"queued", "skipped"}, Insert(n, s)
        PROVE  RowsNumbered' /\ RowsGrow
    BY <2>1 DEF Insert
  <2>2. ASSUME NEW n \in Input, MarkCompleted(n, rowId[n])
        PROVE  RowsNumbered' /\ RowsGrow
    BY <2>2 DEF MarkCompleted, Markable
  <2>3. CASE ReclaimExpiredLeases
    BY <2>3 DEF ReclaimExpiredLeases, LapsedRows, HandBack
  <2>4. ASSUME NEW stale \in SUBSET Host, ReclaimAllRunningForResume(stale)
        PROVE  RowsNumbered' /\ RowsGrow
    BY <2>4 DEF ReclaimAllRunningForResume, HandBack
  <2>5. CASE CancelQueuedJobs \/ CancelOrphanedQueuedJobs
    BY <2>5 DEF CancelQueuedJobs, CancelOrphanedQueuedJobs
  <2>6. CASE DeleteNonTerminalJobs
    BY <2>6 DEF DeleteNonTerminalJobs
  <2>7. ASSUME NEW s \in RunStatus, UpdateRun(s)
        PROVE  RowsNumbered' /\ RowsGrow
    BY <2>7 DEF UpdateRun
  <2>8. ASSUME NEW evs \in SUBSET outbox, NEW s \in {run, "failed"}, ProcessEvents(evs, s)
        PROVE  RowsNumbered' /\ RowsGrow
    BY <2>8 DEF ProcessEvents
  <2>. QED
    BY <1>3, <2>1, <2>2, <2>3, <2>4, <2>5, <2>6, <2>7, <2>8, Zenon
    DEF OrchestratorCall, EnqueueNodeJob, InsertSkippedJob
<1>4. ASSUME NEW n \in Node, LeaseLapse(n)
      PROVE  RowsNumbered' /\ RowsGrow
  BY <1>4 DEF LeaseLapse
<1>5. CASE UNCHANGED tables
  BY <1>5 DEF tables
<1>. QED
  BY <1>1, <1>2, <1>3, <1>4, <1>5, Zenon DEF NodeQueueNext
-----------------------------------------------------------------------------
(* The life of a row, for the modules that decide by it.                   *)

SkippedRowsUnclaimed == \A n \in Node : status[n] = "skipped" => ~ touched[n]

RowLife ==
  \A n \in Node :
    /\ rowId'[n] # rowId[n] => status[n] = "absent"
    /\ status[n] = "absent" /\ status'[n] # "absent" => rowId'[n] > rowId[n]
    /\ status[n] = "completed" => status'[n] = "completed"
    /\ status[n] = "skipped" => \/ status'[n] = "skipped"
                                \/ n \in Input /\ status'[n] = "completed"
    /\ status'[n] = "skipped" => status[n] = "skipped" \/ status[n] = "absent"
    /\ n \in Input /\ status[n] = "awaiting_input"
         => status'[n] \in {"awaiting_input", "completed", "absent"}
    /\ status'[n] = "awaiting_input" => status[n] = "awaiting_input" \/ n \in Input

(* No statement takes a completed or skipped row back or deletes it, only  *)
(* an INSERT gives a node a new row, and a parked row is completed,        *)
(* deleted, or stays parked.  A skipped row was never claimed, so no       *)
(* worker's mark can match it.                                             *)
LEMMA RowLifeStep ==
  NodeQueueTypeOK /\ SkippedRowsUnclaimed /\ [NodeQueueNext]_tables
    => SkippedRowsUnclaimed' /\ RowLife
<1> SUFFICES ASSUME NodeQueueTypeOK, SkippedRowsUnclaimed, [NodeQueueNext]_tables
             PROVE  SkippedRowsUnclaimed' /\ RowLife
  OBVIOUS
<1> USE NodeQueueAssumption DEF NodeQueueTypeOK, SkippedRowsUnclaimed, RowLife, Terminal
<1>1. ASSUME NEW n \in Node, WorkerCall(n)
      PROVE  SkippedRowsUnclaimed' /\ RowLife
  <2>1. ASSUME NEW h \in Host, ClaimNextJob(n, h)
        PROVE  SkippedRowsUnclaimed' /\ RowLife
    BY <2>1, Zenon DEF ClaimNextJob, Claimable
  <2>2. ASSUME NEW h \in Host, RenewLease(n, rowId[n], h)
        PROVE  SkippedRowsUnclaimed' /\ RowLife
    BY <2>2, Zenon DEF RenewLease
  <2>3. CASE RequeueJobForRetry(n, rowId[n])
    BY <2>3, Zenon DEF RequeueJobForRetry, Requeueable, HandBack
  <2>4. ASSUME NEW s \in {"completed", "failed"}, n \notin Input, touched[n],
               MarkAndEnqueueEvent(n, rowId[n], s)
        PROVE  SkippedRowsUnclaimed' /\ RowLife
    BY <2>4, Zenon DEF MarkAndEnqueueEvent, Markable
  <2>5. ASSUME n \in Input, NEW i \in 1..rowId[n], i = rowId[n] => touched[n],
               MarkAwaitingInputAndEvent(n, i)
        PROVE  SkippedRowsUnclaimed' /\ RowLife
    BY <2>5, Zenon DEF MarkAwaitingInputAndEvent, Markable
  <2>. QED
    BY <1>1, <2>1, <2>2, <2>3, <2>4, <2>5, Zenon
    DEF WorkerCall, MarkCompletedAndEvent, MarkFailedAndEvent
<1>2. ASSUME NEW h \in Host, RequeueRunningForWorker(h)
      PROVE  SkippedRowsUnclaimed' /\ RowLife
  BY <1>2, Zenon DEF RequeueRunningForWorker, HandBack
<1>3. CASE OrchestratorCall
  <2>1. ASSUME NEW n \in Node, NEW s \in {"queued", "skipped"}, Insert(n, s)
        PROVE  SkippedRowsUnclaimed' /\ RowLife
    BY <2>1 DEF Insert
  <2>2. ASSUME NEW n \in Input, MarkCompleted(n, rowId[n])
        PROVE  SkippedRowsUnclaimed' /\ RowLife
    BY <2>2, Zenon DEF MarkCompleted, Markable
  <2>3. CASE ReclaimExpiredLeases
    BY <2>3, Zenon DEF ReclaimExpiredLeases, LapsedRows, HandBack
  <2>4. ASSUME NEW stale \in SUBSET Host, ReclaimAllRunningForResume(stale)
        PROVE  SkippedRowsUnclaimed' /\ RowLife
    BY <2>4, Zenon DEF ReclaimAllRunningForResume, HandBack
  <2>5. CASE CancelQueuedJobs \/ CancelOrphanedQueuedJobs
    BY <2>5, Zenon DEF CancelQueuedJobs, CancelOrphanedQueuedJobs
  <2>6. CASE DeleteNonTerminalJobs
    BY <2>6, Zenon DEF DeleteNonTerminalJobs
  <2>7. ASSUME NEW s \in RunStatus, UpdateRun(s)
        PROVE  SkippedRowsUnclaimed' /\ RowLife
    BY <2>7, Zenon DEF UpdateRun
  <2>8. ASSUME NEW evs \in SUBSET outbox, NEW s \in {run, "failed"}, ProcessEvents(evs, s)
        PROVE  SkippedRowsUnclaimed' /\ RowLife
    BY <2>8, Zenon DEF ProcessEvents
  <2>. QED
    BY <1>3, <2>1, <2>2, <2>3, <2>4, <2>5, <2>6, <2>7, <2>8, Zenon
    DEF OrchestratorCall, EnqueueNodeJob, InsertSkippedJob
<1>4. ASSUME NEW n \in Node, LeaseLapse(n)
      PROVE  SkippedRowsUnclaimed' /\ RowLife
  BY <1>4, Zenon DEF LeaseLapse
<1>5. CASE UNCHANGED tables
  BY <1>5, Zenon DEF tables
<1>. QED
  BY <1>1, <1>2, <1>3, <1>4, <1>5, Zenon DEF NodeQueueNext
=============================================================================
