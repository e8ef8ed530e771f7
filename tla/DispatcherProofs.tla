-------------------------- MODULE DispatcherProofs --------------------------
(***************************************************************************)
(* Proofs about the dispatcher, for every workflow graph, any number of    *)
(* hosts, crashes, failing statements and attempts.  The dispatcher is a   *)
(* client of the job table as NodeQueue allows it, so the theorems of      *)
(* NodeQueueProofs hold for it.  The invariant says what each thread may   *)
(* still believe of the rows it read some statements ago: nodes it found   *)
(* ready are still ready, a run it found complete still is, and the row an *)
(* answer was matched with has not been skipped.                           *)
(***************************************************************************)
EXTENDS Dispatcher, NodeQueueProofs

AnswerPc == SharedPc \cup {"lookup", "mark", "cascade"}

(* Each thread is where its task can be, and has the operands it needs.    *)
ThreadsInOrder ==
  /\ pc[D] \in DispatchPc \cup SharedPc
  /\ pc[I] \in InputPc \cup SharedPc
  /\ pc[D] \in {"down", "boot_jobs", "boot_leases"} <=> pc[I] = "down"
  /\ task[D] # "answer"
  /\ task[I] \in {"none", "answer"}
  /\ pc[D] \in SharedPc \cup {"siblings", "delete"} <=> task[D] # "none"
  /\ pc[I] \in AnswerPc <=> task[I] = "answer"
  /\ pc[D] = "siblings" => task[D] = "event"
  /\ task[D] = "event" => current \in Event
  /\ pc[I] \in AnswerPc \cup {"settle"} => answer.node \in Input /\ sub[answer.node] # "none"
  /\ pc[I] = "settle" => goal[I] \in {"processed", "failed"}
  /\ \A t \in Thread : pc[t] = "update" => goal[t] \in RunStatus

(* What a thread read before and acts on now is still so.                  *)
TodoIsReady == \A t \in Thread : \A n \in todo[t] : \A d \in Deps[n] : status[d] \in Satisfied

GoalIsEarned == \A t \in Thread : pc[t] = "update" /\ goal[t] = "completed" => AllSatisfied

MarkedRowIsKnown ==
  pc[I] = "mark" =>
    /\ answer.id \in 1..rowId[answer.node]
    /\ answer.id = rowId[answer.node] => status[answer.node] # "skipped"

(* A node with a submission has a row, and if that is still its first row, *)
(* it is parked or the answer has been applied.                            *)
AnsweredRowsArePast ==
  \A n \in Input : sub[n] # "none" =>
    /\ rowId[n] >= 1
    /\ FirstRow(n) => status[n] \in {"awaiting_input", "completed"}

AnswerIsApplied ==
  pc[I] \in SharedPc \cup {"cascade"} \/ (pc[I] = "settle" /\ goal[I] = "processed")
    => (FirstRow(answer.node) => status[answer.node] = "completed")

(* Only input nodes are parked.                                            *)
ParkedRowsAreInputs == \A n \in Node : status[n] = "awaiting_input" => n \in Input

RowsInv == NodeQueueTypeOK /\ RowsNumbered /\ SkippedRowsUnclaimed /\ ParkedRowsAreInputs

DispatcherInv ==
  /\ DispatcherTypeOK
  /\ RowsInv
  /\ ThreadsInOrder
  /\ TodoIsReady /\ RowsFollowTheirDependencies
  /\ GoalIsEarned /\ CompletedRunIsComplete
  /\ MarkedRowIsKnown /\ AnsweredRowsArePast /\ AnswerIsApplied /\ ProcessedAnswersAreApplied

-----------------------------------------------------------------------------
(* The dispatcher as a client of the job table.                            *)

(* Every step of the dispatcher's threads, of a crash, of the users and of *)
(* the host is one statement of the job table, or leaves the table alone.  *)
LEMMA DispatcherStepIsQueueStep ==
  DispatcherTypeOK /\ ThreadsInOrder /\ [DispatcherNext]_dispatcherVars => [NodeQueueNext]_tables
<1> SUFFICES ASSUME DispatcherTypeOK, ThreadsInOrder, [DispatcherNext]_dispatcherVars
             PROVE  [NodeQueueNext]_tables
  OBVIOUS
<1> USE DEF Thread, D, I
<1>1. ASSUME NEW t \in Thread, ProcessReadyStep(t)
      PROVE  [NodeQueueNext]_tables
  <2>1. CASE ReadReady(t) \/ AfterProcessReady(t)
    BY <2>1, Zenon DEF ReadReady, AfterProcessReady
  <2>2. CASE InsertReady(t)
    <3>1. PICK n \in todo[t] :
            \/ ~ EnqueueRaises(n) /\ IF ShouldSkipNode(n) THEN InsertSkippedJob(n) ELSE EnqueueNodeJob(n)
            \/ UNCHANGED tables
      BY <2>2, Zenon DEF InsertReady
    <3>2. n \in Node
      BY Zenon DEF DispatcherTypeOK
    <3>. QED
      BY <3>1, <3>2, Zenon DEF NodeQueueNext, OrchestratorCall
  <2>3. CASE UpdateRunRow(t)
    <3>1. goal[t] \in RunStatus /\ UpdateRun(goal[t])
      BY <2>3, Zenon DEF UpdateRunRow, At, ThreadsInOrder
    <3>. QED
      BY <3>1, Zenon DEF NodeQueueNext, OrchestratorCall
  <2>. QED
    BY <1>1, <2>1, <2>2, <2>3, Zenon DEF ProcessReadyStep
<1>2. CASE DispatchStep /\ ~ ProcessReadyStep(D)
  <2>1. CASE Expand \/ SelectEvents \/ CallBack \/ SweepStuckRuns \/ NoStuckSweep
    BY <2>1, Zenon DEF Expand, SelectEvents, CallBack, SweepStuckRuns, NoStuckSweep
  <2>2. CASE CancelSiblingsAfterFailure
    BY <2>2, Zenon DEF CancelSiblingsAfterFailure, NodeQueueNext, OrchestratorCall
  <2>3. CASE CommitDrain
    <3>1. PICK s \in {run, "failed"} : ProcessEvents(done \cap outbox, s)
      BY <2>3, Zenon DEF CommitDrain, ProcessEvents
    <3>2. done \cap outbox \in SUBSET outbox
      OBVIOUS
    <3>. QED
      BY <3>1, <3>2, Zenon DEF NodeQueueNext, OrchestratorCall
  <2>4. CASE SweepExpiredLeases \/ SweepOrphanQueuedJobs
    BY <2>4, Zenon DEF SweepExpiredLeases, SweepOrphanQueuedJobs, NodeQueueNext, OrchestratorCall
  <2>5. CASE DropDeadRows
    BY <2>5, Zenon DEF DropDeadRows, NodeQueueNext, OrchestratorCall
  <2>6. CASE ReenqueueRunningForResume
    <3>1. PICK s \in RunStatus : UpdateRun(s)
      BY <2>6, Zenon DEF ReenqueueRunningForResume, DispatcherTypeOK, NodeQueueTypeOK, RunStatus
    <3>. QED
      BY <3>1, Zenon DEF NodeQueueNext, OrchestratorCall
  <2>7. CASE ReclaimJobsAtBoot \/ AwaitRecovery
    BY <2>7, Zenon DEF ReclaimJobsAtBoot, AwaitRecovery, NodeQueueNext, OrchestratorCall
  <2>. QED
    BY <1>2, <2>1, <2>2, <2>3, <2>4, <2>5, <2>6, <2>7, Zenon DEF DispatchStep
<1>3. CASE InputStep /\ ~ ProcessReadyStep(I)
  <2>1. CASE ClaimPending \/ LookupInputJob \/ CascadeInput \/ SettleSubmission
    BY <2>1, Zenon DEF ClaimPending, LookupInputJob, CascadeInput, SettleSubmission
  <2>2. CASE MarkInputCompleted
    <3>1. answer.node \in Input
      BY <2>2, Zenon DEF MarkInputCompleted, At, ThreadsInOrder, AnswerPc
    <3>2. \/ UNCHANGED tables
          \/ MarkCompleted(answer.node, answer.id) /\ answer.id = rowId[answer.node]
      BY <2>2, Zenon DEF MarkInputCompleted, Markable
    <3>. QED
      BY <3>1, <3>2, Zenon DEF NodeQueueNext, OrchestratorCall
  <2>. QED
    BY <1>3, <2>1, <2>2, Zenon DEF InputStep
<1>4. CASE Mishap
  BY <1>4, Zenon DEF Mishap, StatementFails, BootStatementFails, DrainFails, CrashOrchestrator
<1>5. CASE WorkersAndClock
  BY <1>5, Zenon DEF WorkersAndClock, NodeQueueNext
<1>6. CASE HostCancels
  <2>1. "cancelled" \in RunStatus /\ UpdateRun("cancelled")
    BY <1>6, Zenon DEF HostCancels, RunStatus
  <2>. QED
    BY <2>1, Zenon DEF NodeQueueNext, OrchestratorCall
<1>7. ASSUME NEW n \in Input, UserAnswers(n)
      PROVE  [NodeQueueNext]_tables
  BY <1>7, Zenon DEF UserAnswers
<1>8. CASE UNCHANGED dispatcherVars
  BY <1>8, Zenon DEF dispatcherVars
<1>. QED
  BY <1>1, <1>2, <1>3, <1>4, <1>5, <1>6, <1>7, <1>8, Zenon DEF DispatcherNext, DispatchStep, InputStep

-----------------------------------------------------------------------------
(* Rows and threads.                                                       *)

(* What the job table guarantees of a step, for the dispatcher's steps.    *)
LEMMA RowsStep ==
  RowsInv /\ [NodeQueueNext]_tables => RowsInv' /\ RowLife /\ RowsGrow
<1>. QED
  BY TypeStep, RowHistory, RowLifeStep, Zenon DEF RowsInv, RowLife, ParkedRowsAreInputs

ThreadTypes ==
  /\ pc \in [Thread -> DispatchPc \cup InputPc \cup SharedPc]
  /\ task \in [Thread -> Task]
  /\ todo \in [Thread -> SUBSET Node]
  /\ wrote \in [Thread -> BOOLEAN]
  /\ goal \in [Thread -> RunStatus \cup {"processed"}]

(* The four ways a thread moves on keep its variables within their types.  *)
LEMMA MovesTyped ==
  ASSUME ThreadTypes, NEW t \in Thread, NEW p \in DispatchPc \cup InputPc \cup SharedPc,
         NEW k \in Task, NEW s \in RunStatus \cup {"processed"},
         Goto(t, p) \/ CallProcessReady(t, k) \/ CallUpdateRun(t, k, s) \/ EndTask(t, p, s)
  PROVE  ThreadTypes'
<1> USE DEF ThreadTypes
<1>1. wrote' \in [Thread -> BOOLEAN]
  BY Zenon DEF Goto, CallProcessReady, CallUpdateRun, EndTask
<1>2. pc' \in [Thread -> DispatchPc \cup InputPc \cup SharedPc]
  BY Zenon DEF Goto, CallProcessReady, CallUpdateRun, EndTask, SharedPc
<1>3. task' \in [Thread -> Task]
  BY Zenon DEF Goto, CallProcessReady, CallUpdateRun, EndTask, Task
<1>4. todo' \in [Thread -> SUBSET Node]
  BY Zenon DEF Goto, CallProcessReady, CallUpdateRun, EndTask
<1>5. goal' \in [Thread -> RunStatus \cup {"processed"}]
  BY Zenon DEF Goto, CallProcessReady, CallUpdateRun, EndTask
<1>. QED
  BY <1>1, <1>2, <1>3, <1>4, <1>5, Zenon

DrainTypes ==
  /\ batch \subseteq Event /\ done \subseteq Event /\ bumped \subseteq Event
  /\ current \in Event \cup {NoEvent}
  /\ runLock \in BOOLEAN
  /\ DOMAIN attempts \subseteq Event /\ \A ev \in DOMAIN attempts : attempts[ev] \in Nat

(* A task that returns or raises leaves its thread, and the drain's open   *)
(* transaction, well formed.                                               *)
LEMMA TaskEnds ==
  ASSUME ThreadTypes, DrainTypes, ThreadsInOrder, NEW t \in Thread,
         Return(t) \/ Raise(t)
  PROVE  /\ ThreadTypes' /\ DrainTypes'
         /\ task' = [task EXCEPT ![t] = "none"]
         /\ todo' = [todo EXCEPT ![t] = {}]
         /\ \/ t = D /\ pc' \in {[pc EXCEPT ![D] = p] : p \in {"drain", "event", "tick"}}
            \/ /\ t = I /\ pc' = [pc EXCEPT ![I] = "settle"] /\ current' = current
               /\ \/ Return(I) /\ goal' = [goal EXCEPT ![I] = "processed"]
                  \/ Raise(I) /\ goal' = [goal EXCEPT ![I] = "failed"]
<1>1. PICK p \in {"drain", "event", "tick", "settle"}, s \in {"queued", "processed", "failed"} :
        EndTask(t, p, s)
  BY Zenon DEF Return, Raise
<1>2. ThreadTypes'
  BY <1>1, MovesTyped DEF DispatchPc, InputPc, RunStatus, Task
<1>3. DrainTypes'
  <2>1. task[t] = "event" => current \in Event
    BY DEF ThreadsInOrder, Thread, D, I
  <2>2. runLock' \in BOOLEAN
    BY Zenon DEF Return, Raise, EventDone, EventRaised, drain, DrainTypes
  <2>. QED
    BY <2>1, <2>2 DEF Return, Raise, EventDone, EventRaised, drain, DrainTypes
<1>4. \/ t = D /\ pc' \in {[pc EXCEPT ![D] = q] : q \in {"drain", "event", "tick"}}
      \/ /\ t = I /\ pc' = [pc EXCEPT ![I] = "settle"] /\ current' = current
         /\ \/ Return(I) /\ goal' = [goal EXCEPT ![I] = "processed"]
            \/ Raise(I) /\ goal' = [goal EXCEPT ![I] = "failed"]
  BY DEF Return, Raise, EndTask, ThreadsInOrder, Thread, D, I, drain
<1>. QED
  BY <1>1, <1>2, <1>3, <1>4, Zenon DEF EndTask

InputTypes ==
  /\ sub \in [Input -> {"none", "pending", "processing", "processed", "failed"}]
  /\ answer \in [node : Input, id : Nat] \cup {NoAnswer}
  /\ specs \subseteq [node : Input, id : Nat]

HistoryTypes == rejected \in BOOLEAN /\ cancelled \in BOOLEAN /\ mishaps \in Nat

Control == ThreadTypes /\ DrainTypes /\ InputTypes /\ HistoryTypes /\ ThreadsInOrder

(* When a task ends, by returning or by raising, its thread is in order at *)
(* its caller's next statement.                                            *)
LEMMA EndKeepsOrder ==
  ASSUME Control, NEW t \in Thread, Return(t) \/ Raise(t), UNCHANGED inputs, HistoryTypes',
         pc[t] \in AnswerPc \cup {"siblings", "delete"}
  PROVE  Control'
<1> USE DEF Control, D, I, Thread
<1>1. /\ ThreadTypes' /\ DrainTypes'
      /\ task' = [task EXCEPT ![t] = "none"]
      /\ \/ t = D /\ pc' \in {[pc EXCEPT ![D] = p] : p \in {"drain", "event", "tick"}}
         \/ /\ t = I /\ pc' = [pc EXCEPT ![I] = "settle"] /\ current' = current
            /\ goal' \in {[goal EXCEPT ![I] = s] : s \in {"processed", "failed"}}
  BY TaskEnds, Zenon
<1>2. \A u \in Thread : u # t => goal'[u] = goal[u] /\ pc'[u] = pc[u]
  BY Zenon DEF Return, Raise, EndTask, ThreadTypes
<1>. QED
  BY <1>1, <1>2 DEF ThreadTypes, InputTypes, inputs, ThreadsInOrder, AnswerPc, SharedPc, DispatchPc, InputPc

(* Steps of _process_ready and its callers keep the threads in order.      *)
LEMMA ProcessReadyKeepsOrder ==
  ASSUME Control, NEW t \in Thread, ProcessReadyStep(t)
  PROVE  Control'
<1> USE DEF Control, D, I, Thread
<1>1. CASE ReadReady(t)
  <2>1. ThreadTypes'
    BY <1>1, Zenon DEF ReadReady, ThreadTypes, ReadyNodes, SharedPc
  <2>. QED
    BY <1>1, <2>1 DEF ReadReady, At, ThreadTypes, DrainTypes, InputTypes, HistoryTypes, drain, inputs,
      history, ThreadsInOrder, AnswerPc, SharedPc, DispatchPc, InputPc
<1>2. CASE InsertReady(t)
  <2>1. CASE Raise(t) /\ UNCHANGED tables
    BY <1>2, <2>1, EndKeepsOrder, Zenon DEF InsertReady, At, AnswerPc, SharedPc, HistoryTypes, history
  <2>2. ASSUME NEW n \in todo[t],
               todo' = [todo EXCEPT ![t] = @ \ {n}], wrote' = [wrote EXCEPT ![t] = TRUE],
               pc' = [pc EXCEPT ![t] = IF todo[t] = {n} THEN "ready" ELSE "insert"],
               UNCHANGED <<task, goal, drain, inputs, history>>
        PROVE  Control'
    <3>1. wrote' \in [Thread -> BOOLEAN]
      BY <2>2, Zenon DEF ThreadTypes
    <3>2. ThreadTypes'
      BY <2>2, <3>1, Zenon DEF ThreadTypes, SharedPc
    <3>. QED
      BY <1>2, <2>2, <3>2 DEF InsertReady, At, ThreadTypes, DrainTypes, InputTypes, HistoryTypes, drain,
        inputs, history, ThreadsInOrder, AnswerPc, SharedPc, DispatchPc, InputPc
  <2>. QED
    BY <1>2, <2>1, <2>2, Zenon DEF InsertReady
<1>3. CASE AfterProcessReady(t)
  <2>1. CASE Return(t)
    BY <1>3, <2>1, EndKeepsOrder, Zenon DEF AfterProcessReady, At, AnswerPc, SharedPc, HistoryTypes, history
  <2>2. ASSUME NEW s \in {"running", "completed", "failed"}, CallUpdateRun(t, task[t], s),
               UNCHANGED drain
        PROVE  Control'
    <3>1. ThreadTypes'
      BY <2>2, MovesTyped, Zenon DEF ThreadTypes, RunStatus, SharedPc
    <3>. QED
      BY <1>3, <2>2, <3>1 DEF AfterProcessReady, At, CallUpdateRun, ThreadTypes, DrainTypes, InputTypes,
        HistoryTypes, drain, inputs, history, ThreadsInOrder, AnswerPc, SharedPc, DispatchPc, InputPc,
        RunStatus
  <2>3. CASE task[t] = "reconcile" /\ Goto(t, "delete") /\ UNCHANGED drain
    <3>1. ThreadTypes'
      BY <2>3, MovesTyped DEF DispatchPc, Task, RunStatus
    <3>. QED
      BY <1>3, <2>3, <3>1 DEF AfterProcessReady, At, Goto, ThreadTypes, DrainTypes, InputTypes,
        HistoryTypes, drain, inputs, history, ThreadsInOrder, AnswerPc, SharedPc, DispatchPc, InputPc
  <2>. QED
    BY <1>3, <2>1, <2>2, <2>3, Zenon DEF AfterProcessReady
<1>4. CASE UpdateRunRow(t)
  BY <1>4, EndKeepsOrder, Zenon DEF UpdateRunRow, At, AnswerPc, SharedPc, HistoryTypes, history
<1>. QED
  BY <1>1, <1>2, <1>3, <1>4, Zenon DEF ProcessReadyStep

Starting == {"down", "boot_jobs", "boot_leases"}

(* The dispatch thread is in order at p, in the task k, if p is a place    *)
(* where that task can be.                                                 *)
LEMMA DispatchOrder ==
  ASSUME ThreadTypes, ThreadsInOrder, NEW p \in DispatchPc \cup SharedPc, NEW k \in Task \ {"answer"},
         pc' = [pc EXCEPT ![D] = p], task' = [task EXCEPT ![D] = k], goal'[I] = goal[I],
         UNCHANGED <<sub, answer>>,
         p \in Starting <=> pc[D] \in Starting,
         p \in SharedPc \cup {"siblings", "delete"} <=> k # "none",
         p = "siblings" => k = "event", k = "event" => current' \in Event,
         p = "update" => goal'[D] \in RunStatus
  PROVE  ThreadsInOrder'
<1>1. pc'[D] = p /\ pc'[I] = pc[I] /\ task'[D] = k /\ task'[I] = task[I]
  BY Zenon DEF ThreadTypes, Thread, D, I
<1>2. \A t \in Thread : t = D \/ t = I
  BY Zenon DEF Thread, D, I
<1>. QED
  BY <1>1, <1>2 DEF ThreadsInOrder, Starting

(* So it is at its own next statement, in _process_ready and at update_run.*)
LEMMA DispatchMove ==
  ASSUME Control, UNCHANGED <<drain, inputs, history>>,
         \/ \E p \in DispatchPc \ {"siblings", "delete"} :
              Goto(D, p) /\ task[D] = "none" /\ (p \in Starting <=> pc[D] \in Starting)
         \/ \E k \in {"start", "reconcile", "redrive"} :
              CallProcessReady(D, k) /\ pc[D] \notin Starting
         \/ \E k \in {"start", "event", "reconcile", "redrive"}, s \in RunStatus :
              /\ CallUpdateRun(D, k, s) /\ pc[D] \notin Starting
              /\ k = "event" => current \in Event
  PROVE  Control'
<1>1. DrainTypes' /\ InputTypes' /\ HistoryTypes' /\ UNCHANGED <<sub, answer, current>>
  <2>1. DrainTypes /\ InputTypes /\ HistoryTypes
    BY Zenon DEF Control
  <2>. QED
    BY ONLY <2>1, UNCHANGED <<drain, inputs, history>>
    DEF drain, inputs, history, DrainTypes, InputTypes, HistoryTypes
<1>2. ThreadTypes /\ ThreadsInOrder
  BY Zenon DEF Control
<1>3. D \in Thread /\ I \in Thread /\ D # I
  BY Zenon DEF D, I, Thread
<1>4. ASSUME NEW p \in DispatchPc \ {"siblings", "delete"},
             Goto(D, p), task[D] = "none", p \in Starting <=> pc[D] \in Starting
      PROVE  Control'
  <2>1. ThreadTypes'
    BY ONLY <1>2, <1>3, <1>4, MovesTyped, Zenon DEF Task, RunStatus
  <2>2. /\ pc' = [pc EXCEPT ![D] = p] /\ task' = [task EXCEPT ![D] = "none"] /\ goal'[I] = goal[I]
        /\ p \in DispatchPc /\ p \notin SharedPc \cup {"siblings", "delete"} /\ "none" \in Task \ {"answer"}
    BY ONLY <1>2, <1>3, <1>4 DEF Goto, ThreadTypes, DispatchPc, SharedPc, Task
  <2>3. ThreadsInOrder'
    BY ONLY <1>1, <1>2, <1>4, <2>2, DispatchOrder, Zenon DEF SharedPc
  <2>. QED
    BY ONLY <1>1, <2>1, <2>3, Zenon DEF Control
<1>5. ASSUME NEW k \in {"start", "reconcile", "redrive"}, CallProcessReady(D, k), pc[D] \notin Starting
      PROVE  Control'
  <2>1. ThreadTypes'
    BY ONLY <1>2, <1>3, <1>5, MovesTyped DEF Task, RunStatus, SharedPc
  <2>2. /\ pc' = [pc EXCEPT ![D] = "ready"] /\ task' = [task EXCEPT ![D] = k] /\ goal'[I] = goal[I]
        /\ "ready" \in SharedPc /\ "ready" \notin Starting /\ k \in Task \ {"answer"}
    BY ONLY <1>5, Zenon DEF CallProcessReady, SharedPc, Starting, Task
  <2>3. ThreadsInOrder'
    BY ONLY <1>1, <1>2, <1>5, <2>2, DispatchOrder, Zenon
  <2>. QED
    BY ONLY <1>1, <2>1, <2>3, Zenon DEF Control
<1>6. ASSUME NEW k \in {"start", "event", "reconcile", "redrive"}, NEW s \in RunStatus,
             CallUpdateRun(D, k, s), pc[D] \notin Starting, k = "event" => current \in Event
      PROVE  Control'
  <2>1. ThreadTypes'
    BY ONLY <1>2, <1>3, <1>6, MovesTyped, Zenon DEF Task, SharedPc
  <2>2. /\ pc' = [pc EXCEPT ![D] = "update"] /\ task' = [task EXCEPT ![D] = k]
        /\ goal'[I] = goal[I] /\ goal'[D] = s
        /\ "update" \in SharedPc /\ "update" \notin Starting /\ k \in Task \ {"answer"}
    BY ONLY <1>2, <1>3, <1>6, Zenon DEF CallUpdateRun, ThreadTypes, SharedPc, Starting, Task
  <2>3. ThreadsInOrder'
    BY ONLY <1>1, <1>2, <1>6, <2>2, DispatchOrder, Zenon
  <2>. QED
    BY ONLY <1>1, <2>1, <2>3, Zenon DEF Control
<1>. QED
  BY <1>4, <1>5, <1>6, Zenon

(* The dispatch thread's own steps keep the threads in order.              *)
LEMMA DispatchKeepsOrder ==
  ASSUME Control, RowsInv, DispatchStep, ~ ProcessReadyStep(D)
  PROVE  Control'
<1>1. ThreadTypes /\ DrainTypes /\ InputTypes /\ ThreadsInOrder /\ HistoryTypes
  BY Zenon DEF Control
<1>2. /\ D \in Thread /\ I \in Thread /\ D # I
      /\ pc[D] \in DispatchPc \ (Starting \cup {"siblings", "delete"}) => task[D] = "none"
      /\ pc[D] \in Starting => task[D] = "none"
      /\ pc[D] = "siblings" => current \in Event
  BY ONLY <1>1, Zenon DEF ThreadsInOrder, DispatchPc, SharedPc, Starting, D, I, Thread
<1>3. CASE Expand \/ SweepStuckRuns \/ DropDeadRows
  <2>1. UNCHANGED <<drain, inputs, history>> /\ pc[D] \in {"tick", "stuck", "delete"}
    BY ONLY <1>3, Zenon DEF Expand, SweepStuckRuns, DropDeadRows, At
  <2>2. \/ Goto(D, "drain") /\ pc[D] = "tick"
        \/ \E k \in {"start", "reconcile", "redrive"} : CallProcessReady(D, k)
        \/ \E k \in {"start", "reconcile", "redrive"}, s \in RunStatus : CallUpdateRun(D, k, s)
    BY ONLY <1>3, Zenon DEF Expand, SweepStuckRuns, DropDeadRows, At, RunStatus
  <2>. QED
    BY <1>2, <2>1, <2>2, DispatchMove DEF DispatchPc, Starting
<1>4. CASE SelectEvents
  <2>1. /\ pc[D] = "drain" /\ Goto(D, "event") /\ batch' = outbox
        /\ UNCHANGED <<current, done, bumped, runLock, attempts, inputs, history>>
    BY ONLY <1>4, Zenon DEF SelectEvents, At
  <2>2. ThreadTypes'
    BY ONLY <1>1, <1>2, <2>1, MovesTyped, Zenon DEF DispatchPc, Task, RunStatus
  <2>3. DrainTypes' /\ InputTypes' /\ HistoryTypes'
    BY <1>1, <2>1, Zenon DEF DrainTypes, InputTypes, HistoryTypes, inputs, history, RowsInv, NodeQueueTypeOK
  <2>4. ThreadsInOrder'
    <3>1. /\ pc' = [pc EXCEPT ![D] = "event"] /\ task' = [task EXCEPT ![D] = "none"]
          /\ goal'[I] = goal[I] /\ UNCHANGED <<sub, answer>> /\ "none" \in Task \ {"answer"}
      BY ONLY <1>1, <1>2, <2>1, Zenon DEF Goto, ThreadTypes, DispatchPc, Starting, Task, inputs
    <3>2. "event" \in DispatchPc /\ "event" \notin SharedPc \cup Starting /\ pc[D] \notin Starting
      BY ONLY <2>1, Zenon DEF DispatchPc, SharedPc, Starting
    <3>. QED
      BY ONLY <1>1, <3>1, <3>2, DispatchOrder, Zenon DEF SharedPc
  <2>. QED
    BY ONLY <2>2, <2>3, <2>4, Zenon DEF Control
<1>5. CASE CallBack
  <2>1. PICK ev \in batch :
          /\ batch' = batch \ {ev}
          /\ \/ done' = done \cup {ev} /\ UNCHANGED current /\ Goto(D, "event")
             \/ current' = ev /\ UNCHANGED done /\ CallProcessReady(D, "event")
             \/ /\ current' = ev /\ UNCHANGED <<done, todo, wrote, goal>>
                /\ pc' = [pc EXCEPT ![D] = "siblings"] /\ task' = [task EXCEPT ![D] = "event"]
          /\ \/ specs' = specs
             \/ /\ status[ev.node] = "awaiting_input"
                /\ specs' = specs \cup {[node |-> ev.node, id |-> rowId[ev.node]]}
    BY ONLY <1>5, Zenon DEF CallBack
  <2>2. pc[D] = "event" /\ UNCHANGED <<bumped, runLock, attempts, sub, answer, history>>
    BY ONLY <1>5, Zenon DEF CallBack, At
  <2>3. ev \in Event /\ DrainTypes' /\ HistoryTypes'
    BY ONLY <1>1, <2>1, <2>2, Zenon DEF DrainTypes, HistoryTypes, history
  <2>4. InputTypes'
    BY <1>1, <2>1, <2>2, <2>3 DEF InputTypes, RowsInv, NodeQueueTypeOK, ParkedRowsAreInputs, Event
  <2>5. CASE Goto(D, "event") \/ CallProcessReady(D, "event")
    <3>1. ThreadTypes'
      BY ONLY <1>1, <1>2, <2>5, MovesTyped, Zenon DEF DispatchPc, Task, RunStatus
    <3>2. /\ \/ pc' = [pc EXCEPT ![D] = "event"] /\ task' = [task EXCEPT ![D] = "none"]
             \/ /\ pc' = [pc EXCEPT ![D] = "ready"] /\ task' = [task EXCEPT ![D] = "event"]
                /\ current' \in Event
          /\ UNCHANGED goal
      BY ONLY <1>1, <1>2, <2>1, <2>2, <2>3, <2>5 DEF Goto, CallProcessReady, ThreadTypes, DispatchPc, Starting
    <3>. QED
      BY ONLY <1>1, <2>2, <2>3, <2>4, <3>1, <3>2, DispatchOrder, Zenon
      DEF Control, DispatchPc, SharedPc, Starting, Task
  <2>6. CASE /\ current' = ev /\ UNCHANGED <<todo, wrote, goal>>
             /\ pc' = [pc EXCEPT ![D] = "siblings"] /\ task' = [task EXCEPT ![D] = "event"]
    <3>1. ThreadTypes'
      BY ONLY <1>1, <1>2, <2>6, Zenon DEF ThreadTypes, Task, DispatchPc
    <3>. QED
      BY ONLY <1>1, <2>2, <2>3, <2>4, <2>6, <3>1, DispatchOrder, Zenon
      DEF Control, DispatchPc, SharedPc, Starting, Task
  <2>. QED
    BY ONLY <2>1, <2>5, <2>6, Zenon
<1>6. CASE CancelSiblingsAfterFailure
  <2>1. /\ UNCHANGED <<drain, inputs, history>> /\ pc[D] = "siblings"
        /\ CallUpdateRun(D, "event", "failed")
    BY ONLY <1>6, Zenon DEF CancelSiblingsAfterFailure, At
  <2>. QED
    BY <1>2, <2>1, DispatchMove, Zenon DEF Starting, RunStatus
<1>7. CASE CommitDrain
  <2>1. /\ pc[D] = "event" /\ Goto(D, "leases")
        /\ done' = {} /\ bumped' = {} /\ runLock' = FALSE
        /\ UNCHANGED <<batch, current, inputs, history>>
    BY ONLY <1>7, Zenon DEF CommitDrain, At
  <2>2. DOMAIN attempts' \subseteq Event
    BY ONLY <1>1, <1>7, Zenon DEF CommitDrain, DrainTypes
  <2>3. ASSUME NEW ev \in DOMAIN attempts'
        PROVE  attempts'[ev] \in Nat
    <3>1. attempts'[ev] = Attempts(ev) + (IF ev \in bumped THEN 1 ELSE 0)
      BY ONLY <1>7, <2>3, Zenon DEF CommitDrain
    <3>. QED
      BY ONLY <1>1, <3>1 DEF Attempts, DrainTypes
  <2>4. ThreadTypes'
    BY ONLY <1>1, <1>2, <2>1, MovesTyped, Zenon DEF DispatchPc, Task, RunStatus
  <2>5. DrainTypes'
    BY ONLY <1>1, <2>1, <2>2, <2>3, Zenon DEF DrainTypes
  <2>6. InputTypes' /\ HistoryTypes'
    BY ONLY <1>1, <2>1, Zenon DEF InputTypes, HistoryTypes, inputs, history
  <2>7. ThreadsInOrder'
    <3>1. /\ pc' = [pc EXCEPT ![D] = "leases"] /\ task' = [task EXCEPT ![D] = "none"]
          /\ goal'[I] = goal[I] /\ UNCHANGED <<sub, answer>> /\ "none" \in Task \ {"answer"}
      BY ONLY <1>1, <1>2, <2>1, Zenon DEF Goto, ThreadTypes, DispatchPc, Starting, Task, inputs
    <3>2. "leases" \in DispatchPc /\ "leases" \notin SharedPc \cup Starting /\ pc[D] \notin Starting
      BY ONLY <2>1, Zenon DEF DispatchPc, SharedPc, Starting
    <3>. QED
      BY ONLY <1>1, <3>1, <3>2, DispatchOrder, Zenon DEF SharedPc
  <2>. QED
    BY ONLY <2>4, <2>5, <2>6, <2>7 DEF Control
<1>8. CASE SweepExpiredLeases \/ SweepOrphanQueuedJobs \/ NoStuckSweep
  <2>1. /\ UNCHANGED <<drain, inputs, history>> /\ pc[D] \in {"leases", "orphans", "stuck"}
        /\ \E p \in {"orphans", "stuck", "tick"} : Goto(D, p)
    BY ONLY <1>8, Zenon DEF SweepExpiredLeases, SweepOrphanQueuedJobs, NoStuckSweep, At
  <2>. QED
    BY <1>2, <2>1, DispatchMove, Zenon DEF DispatchPc, Starting
<1>9. CASE ReenqueueRunningForResume \/ ReclaimJobsAtBoot
  <2>1. /\ UNCHANGED <<drain, inputs, history>> /\ pc[D] \in {"down", "boot_jobs"}
        /\ \E p \in {"boot_jobs", "boot_leases"} : Goto(D, p)
    BY ONLY <1>9, Zenon DEF ReenqueueRunningForResume, ReclaimJobsAtBoot, At
  <2>. QED
    BY <1>2, <2>1, DispatchMove DEF DispatchPc, Starting
<1>10. CASE AwaitRecovery
  <2>1. /\ pc[D] = "boot_leases" /\ pc' = [t \in Thread |-> IF t = D THEN "tick" ELSE "poll"]
        /\ UNCHANGED <<task, todo, wrote, goal, drain, inputs, history>>
    BY ONLY <1>10, Zenon DEF AwaitRecovery, At
  <2>2. ThreadTypes' /\ pc'[D] = "tick" /\ pc'[I] = "poll" /\ pc[I] = "down"
    BY ONLY <1>1, <1>2, <2>1, Zenon DEF ThreadTypes, ThreadsInOrder, DispatchPc, InputPc
  <2>3. DrainTypes' /\ InputTypes' /\ HistoryTypes'
    BY ONLY <1>1, <2>1, Zenon DEF DrainTypes, InputTypes, HistoryTypes, drain, inputs, history
  <2>4. ThreadsInOrder'
    BY ONLY <1>1, <1>2, <2>1, <2>2 DEF ThreadsInOrder, drain, inputs, D, I, Thread, DispatchPc, InputPc,
      SharedPc, AnswerPc
  <2>. QED
    BY ONLY <2>2, <2>3, <2>4, Zenon DEF Control
<1>. QED
  BY <1>3, <1>4, <1>5, <1>6, <1>7, <1>8, <1>9, <1>10, Zenon DEF DispatchStep

(* The input thread is in order at p likewise.                             *)
LEMMA InputOrder ==
  ASSUME ThreadTypes, ThreadsInOrder, NEW p \in InputPc \cup SharedPc, NEW k \in {"none", "answer"},
         pc' = [pc EXCEPT ![I] = p], task' = [task EXCEPT ![I] = k], goal'[D] = goal[D],
         UNCHANGED current, p # "down", pc[I] # "down",
         p \in AnswerPc <=> k = "answer",
         p \in AnswerPc \cup {"settle"} => answer'.node \in Input /\ sub'[answer'.node] # "none",
         p = "settle" => goal'[I] \in {"processed", "failed"},
         p = "update" => goal'[I] \in RunStatus
  PROVE  ThreadsInOrder'
<1>1. pc'[I] = p /\ pc'[D] = pc[D] /\ task'[I] = k /\ task'[D] = task[D]
  BY Zenon DEF ThreadTypes, Thread, D, I
<1>2. \A t \in Thread : t = D \/ t = I
  BY Zenon DEF Thread, D, I
<1>. QED
  BY <1>1, <1>2 DEF ThreadsInOrder

(* The input thread's own steps keep the threads in order.                 *)
LEMMA InputKeepsOrder ==
  ASSUME Control, RowsInv, InputStep, ~ ProcessReadyStep(I)
  PROVE  Control'
<1>1. ThreadTypes /\ DrainTypes /\ InputTypes /\ ThreadsInOrder /\ HistoryTypes
  BY Zenon DEF Control
<1>2. /\ D \in Thread /\ I \in Thread /\ D # I
      /\ pc[I] \in AnswerPc => task[I] = "answer"
      /\ pc[I] \in AnswerPc \cup {"settle"} => answer.node \in Input /\ sub[answer.node] # "none"
      /\ pc[I] = "settle" => goal[I] \in {"processed", "failed"}
  BY ONLY <1>1, Zenon DEF ThreadsInOrder, D, I, Thread
<1>3. CASE ClaimPending
  <2>1. PICK n \in Input :
          /\ sub[n] \in {"pending", "processing"} /\ sub' = [sub EXCEPT ![n] = "processing"]
          /\ answer' = [node |-> n, id |-> 0]
    BY ONLY <1>3, Zenon DEF ClaimPending
  <2>2. /\ pc[I] = "poll" /\ pc' = [pc EXCEPT ![I] = "lookup"] /\ task' = [task EXCEPT ![I] = "answer"]
        /\ UNCHANGED <<todo, wrote, goal, drain, specs, history>>
    BY ONLY <1>3, Zenon DEF ClaimPending, At
  <2>3. InputTypes' /\ answer'.node \in Input /\ sub'[answer'.node] # "none"
    BY ONLY <1>1, <2>1, <2>2, Zenon DEF InputTypes
  <2>4. DrainTypes' /\ HistoryTypes' /\ UNCHANGED current
    BY ONLY <1>1, <2>2, Zenon DEF DrainTypes, HistoryTypes, drain, history
  <2>5. ThreadTypes'
    BY ONLY <1>1, <2>2, Zenon DEF ThreadTypes, InputPc, Task
  <2>6. ThreadsInOrder'
    BY ONLY <1>1, <2>2, <2>3, <2>4, InputOrder, Zenon DEF InputPc, AnswerPc
  <2>. QED
    BY ONLY <2>3, <2>4, <2>5, <2>6, Zenon DEF Control
<1>4. CASE LookupInputJob
  <2>1. pc[I] = "lookup" /\ UNCHANGED <<sub, specs, history>>
    BY ONLY <1>4, Zenon DEF LookupInputJob, At
  <2>2. CASE (Return(I) \/ Raise(I)) /\ UNCHANGED answer
    <3>1. HistoryTypes' /\ UNCHANGED inputs /\ pc[I] \in AnswerPc
      BY ONLY <1>1, <2>1, <2>2, Zenon DEF HistoryTypes, history, inputs, AnswerPc
    <3>. QED
      BY <1>2, <2>2, <3>1, EndKeepsOrder, Zenon
  <2>3. CASE /\ answer' = [answer EXCEPT !.id = rowId[answer.node]]
             /\ Goto(I, "mark") /\ UNCHANGED drain
    <3>1. answer.node \in Input /\ sub[answer.node] # "none" /\ task[I] = "answer"
      BY ONLY <1>2, <2>1, Zenon DEF AnswerPc
    <3>2. rowId[answer.node] \in Nat /\ answer \in [node : Input, id : Nat]
      BY <1>1, <3>1, NodeQueueAssumption DEF InputTypes, RowsInv, NodeQueueTypeOK, NoAnswer
    <3>3. InputTypes' /\ answer'.node = answer.node
      BY ONLY <1>1, <2>1, <2>3, <3>2, Zenon DEF InputTypes
    <3>4. DrainTypes' /\ HistoryTypes' /\ UNCHANGED current
      BY ONLY <1>1, <2>1, <2>3, Zenon DEF DrainTypes, HistoryTypes, drain, history
    <3>5. ThreadTypes'
      BY ONLY <1>1, <1>2, <2>3, MovesTyped, Zenon DEF InputPc, Task, RunStatus
    <3>6. pc' = [pc EXCEPT ![I] = "mark"] /\ task' = [task EXCEPT ![I] = "answer"] /\ UNCHANGED goal
      BY ONLY <1>1, <1>2, <2>3, <3>1, Zenon DEF Goto, ThreadTypes
    <3>7. ThreadsInOrder'
      BY ONLY <1>1, <2>1, <3>1, <3>3, <3>4, <3>6, InputOrder, Zenon DEF InputPc, AnswerPc
    <3>. QED
      BY ONLY <3>3, <3>4, <3>5, <3>7, Zenon DEF Control
  <2>. QED
    BY ONLY <1>4, <2>2, <2>3, Zenon DEF LookupInputJob
<1>5. CASE MarkInputCompleted \/ (CascadeInput /\ CallProcessReady(I, "answer") /\ UNCHANGED drain)
  <2>1. /\ pc[I] \in {"mark", "cascade"} /\ UNCHANGED <<drain, inputs, history>>
        /\ Goto(I, "cascade") \/ CallProcessReady(I, "answer")
    BY ONLY <1>5, Zenon DEF MarkInputCompleted, CascadeInput, At
  <2>2. /\ answer.node \in Input /\ sub[answer.node] # "none" /\ task[I] = "answer"
        /\ UNCHANGED <<sub, answer, current>>
    BY ONLY <1>2, <2>1, Zenon DEF AnswerPc, drain, inputs
  <2>3. DrainTypes' /\ InputTypes' /\ HistoryTypes'
    BY ONLY <1>1, <2>1, Zenon DEF DrainTypes, InputTypes, HistoryTypes, drain, inputs, history
  <2>4. ThreadTypes'
    BY ONLY <1>1, <1>2, <2>1, MovesTyped, Zenon DEF InputPc, Task, RunStatus
  <2>5. /\ \/ pc' = [pc EXCEPT ![I] = "cascade"]
           \/ pc' = [pc EXCEPT ![I] = "ready"]
        /\ task' = [task EXCEPT ![I] = "answer"] /\ UNCHANGED goal
    BY ONLY <1>1, <1>2, <2>1, <2>2, Zenon DEF Goto, CallProcessReady, ThreadTypes
  <2>6. ThreadsInOrder'
    BY ONLY <1>1, <2>1, <2>2, <2>5, InputOrder, Zenon DEF InputPc, SharedPc, AnswerPc
  <2>. QED
    BY ONLY <2>3, <2>4, <2>6, Zenon DEF Control
<1>6. CASE CascadeInput /\ Return(I)
  <2>1. HistoryTypes' /\ UNCHANGED inputs /\ pc[I] \in AnswerPc
    BY ONLY <1>1, <1>6, Zenon DEF CascadeInput, HistoryTypes, history, At, AnswerPc
  <2>. QED
    BY <1>2, <1>6, <2>1, EndKeepsOrder, Zenon
<1>7. CASE SettleSubmission
  <2>1. /\ pc[I] = "settle" /\ sub' = [sub EXCEPT ![answer.node] = goal[I]] /\ answer' = NoAnswer
        /\ EndTask(I, "poll", "queued") /\ UNCHANGED <<drain, specs, history>>
    BY ONLY <1>7, Zenon DEF SettleSubmission, At
  <2>2. InputTypes'
    BY ONLY <1>1, <1>2, <2>1, Zenon DEF InputTypes
  <2>3. DrainTypes' /\ HistoryTypes' /\ UNCHANGED current
    BY ONLY <1>1, <2>1, Zenon DEF DrainTypes, HistoryTypes, drain, history
  <2>4. ThreadTypes'
    BY ONLY <1>1, <1>2, <2>1, MovesTyped, Zenon DEF InputPc, Task, RunStatus
  <2>5. pc' = [pc EXCEPT ![I] = "poll"] /\ task' = [task EXCEPT ![I] = "none"] /\ goal'[D] = goal[D]
    BY ONLY <1>1, <1>2, <2>1, Zenon DEF EndTask, ThreadTypes
  <2>6. ThreadsInOrder'
    BY ONLY <1>1, <2>1, <2>3, <2>5, InputOrder, Zenon DEF InputPc, SharedPc, AnswerPc
  <2>. QED
    BY ONLY <2>2, <2>3, <2>4, <2>6, Zenon DEF Control
<1>. QED
  BY <1>3, <1>4, <1>5, <1>6, <1>7, Zenon DEF InputStep, CascadeInput

(* And failing statements, a failing drain and a crash of the process.     *)
LEMMA MishapKeepsOrder ==
  ASSUME Control, Mishap
  PROVE  Control'
<1>1. ThreadTypes /\ DrainTypes /\ InputTypes /\ ThreadsInOrder /\ HistoryTypes
  BY Zenon DEF Control
<1>2. /\ D \in Thread /\ I \in Thread /\ D # I
      /\ pc[D] \in Starting \cup {"event"} => task[D] = "none"
  BY ONLY <1>1, Zenon DEF ThreadsInOrder, SharedPc, Starting, D, I, Thread
<1>3. ASSUME NEW t \in Thread, StatementFails(t)
      PROVE  Control'
  <2>1. /\ pc[t] \in AnswerPc \cup {"siblings", "delete"} /\ Raise(t) /\ UNCHANGED inputs
        /\ HistoryTypes'
    BY ONLY <1>1, <1>3 DEF StatementFails, AnswerPc, HistoryTypes
  <2>. QED
    BY <2>1, EndKeepsOrder, Zenon
<1>4. CASE BootStatementFails
  <2>1. /\ UNCHANGED <<drain, inputs, history>> /\ pc[D] \in {"down", "boot_jobs"}
        /\ \E p \in {"boot_jobs", "boot_leases"} : Goto(D, p)
    BY ONLY <1>4, Zenon DEF BootStatementFails, At
  <2>. QED
    BY <1>2, <2>1, DispatchMove DEF DispatchPc, Starting
<1>5. CASE DrainFails
  <2>1. /\ pc[D] = "event" /\ Goto(D, "leases") /\ RollBackDrain
        /\ mishaps' = mishaps + 1 /\ UNCHANGED <<inputs, rejected, cancelled>>
    BY ONLY <1>5, Zenon DEF DrainFails, At
  <2>2. ThreadTypes'
    BY ONLY <1>1, <1>2, <2>1, MovesTyped, Zenon DEF DispatchPc, Task, RunStatus
  <2>3. DrainTypes'
    BY ONLY <1>1, <2>1, Zenon DEF RollBackDrain, DrainTypes
  <2>4. InputTypes' /\ HistoryTypes'
    BY ONLY <1>1, <2>1 DEF InputTypes, HistoryTypes, inputs
  <2>5. ThreadsInOrder'
    <3>1. /\ pc' = [pc EXCEPT ![D] = "leases"] /\ task' = [task EXCEPT ![D] = "none"]
          /\ goal'[I] = goal[I] /\ UNCHANGED <<sub, answer>> /\ "none" \in Task \ {"answer"}
      BY ONLY <1>1, <1>2, <2>1, Zenon DEF Goto, ThreadTypes, Task, inputs
    <3>2. "leases" \in DispatchPc /\ "leases" \notin SharedPc \cup Starting /\ pc[D] \notin Starting
      BY ONLY <2>1, Zenon DEF DispatchPc, SharedPc, Starting
    <3>. QED
      BY ONLY <1>1, <3>1, <3>2, DispatchOrder, Zenon DEF SharedPc
  <2>. QED
    BY ONLY <2>2, <2>3, <2>4, <2>5, Zenon DEF Control
<1>6. CASE CrashOrchestrator
  <2>1. /\ pc' = [t \in Thread |-> "down"] /\ task' = [t \in Thread |-> "none"]
        /\ todo' = [t \in Thread |-> {}] /\ wrote' = [t \in Thread |-> FALSE]
        /\ goal' = [t \in Thread |-> "queued"] /\ RollBackDrain /\ answer' = NoAnswer
        /\ mishaps' = mishaps + 1 /\ UNCHANGED <<sub, specs, rejected, cancelled>>
    BY ONLY <1>6, Zenon DEF CrashOrchestrator
  <2>2. ThreadTypes'
    BY ONLY <2>1, Zenon DEF ThreadTypes, DispatchPc, Task, RunStatus
  <2>3. DrainTypes'
    BY ONLY <1>1, <2>1, Zenon DEF RollBackDrain, DrainTypes
  <2>4. InputTypes' /\ HistoryTypes'
    BY ONLY <1>1, <2>1 DEF InputTypes, HistoryTypes
  <2>5. ThreadsInOrder'
    <3>1. \A t \in Thread : pc'[t] = "down" /\ task'[t] = "none"
      BY ONLY <2>1, Zenon
    <3>. QED
      BY ONLY <1>2, <3>1, Zenon DEF ThreadsInOrder, DispatchPc, InputPc, SharedPc, AnswerPc
  <2>. QED
    BY ONLY <2>2, <2>3, <2>4, <2>5, Zenon DEF Control
<1>. QED
  BY <1>3, <1>4, <1>5, <1>6, Zenon DEF Mishap

(* Types and order are kept by every step.                                 *)
LEMMA ControlStep ==
  Control /\ RowsInv /\ [DispatcherNext]_dispatcherVars => Control'
<1> SUFFICES ASSUME Control, RowsInv, [DispatcherNext]_dispatcherVars
             PROVE  Control'
  OBVIOUS
<1>1. CASE DispatchStep \/ InputStep \/ Mishap
  BY <1>1, ProcessReadyKeepsOrder, DispatchKeepsOrder, InputKeepsOrder, MishapKeepsOrder, Zenon
  DEF Thread, D, I
<1>2. CASE WorkersAndClock \/ HostCancels \/ UNCHANGED dispatcherVars
  <2>1. UNCHANGED <<threads, drain, inputs>> /\ HistoryTypes'
    BY <1>2, Zenon DEF WorkersAndClock, HostCancels, dispatcherVars, history, Control, HistoryTypes
  <2>. QED
    BY <2>1 DEF threads, drain, inputs, Control, ThreadTypes, DrainTypes, InputTypes, ThreadsInOrder
<1>3. ASSUME NEW n \in Input, UserAnswers(n)
      PROVE  Control'
  BY <1>3 DEF UserAnswers, threads, drain, history, Control, ThreadTypes, DrainTypes, InputTypes,
    HistoryTypes, ThreadsInOrder
<1>. QED
  BY <1>1, <1>2, <1>3, Zenon DEF DispatcherNext

-----------------------------------------------------------------------------
(* What a thread writes rests on what it has read.                         *)

StatusKept == status' = status

(* A thread's list of ready nodes shrinks or is read afresh; only a node   *)
(* on such a list gets a row; only a complete run is a thread's reason to  *)
(* write completed, and only such a thread writes it.                      *)
TodoMove(t) == todo'[t] \subseteq todo[t] \/ (StatusKept /\ todo'[t] = ReadyNodes)

GoalMove(t) ==
  pc'[t] = "update" /\ goal'[t] = "completed" =>
    \/ pc[t] = "update" /\ goal[t] = "completed"
    \/ StatusKept /\ AllSatisfied

RowMove ==
  \A n \in Node : status[n] = "absent" /\ status'[n] # "absent" => \E t \in Thread : n \in todo[t]

RunMove ==
  run' = "completed" =>
    run = "completed" \/ \E t \in Thread : pc[t] = "update" /\ goal[t] = "completed"

Moves == (\A t \in Thread : TodoMove(t) /\ GoalMove(t)) /\ RowMove /\ RunMove

(* A step that leaves the lists alone, or empties one, and plans no write  *)
(* of completed is such a move of the threads.                             *)
LEMMA QuietMove ==
  ASSUME ThreadTypes,
         \A t \in Thread : /\ todo'[t] \subseteq todo[t]
                           /\ \/ pc'[t] # "update" \/ goal'[t] # "completed"
                              \/ pc'[t] = pc[t] /\ goal'[t] = goal[t]
  PROVE  \A t \in Thread : TodoMove(t) /\ GoalMove(t)
BY Zenon DEF TodoMove, GoalMove

(* Moves hold of _process_ready's steps.                                   *)
LEMMA ProcessReadyMoves ==
  ASSUME Control, RowsInv, NEW t \in Thread, ProcessReadyStep(t)
  PROVE  Moves
<1> USE DEF Control, Moves, At
<1>1. CASE ReadReady(t)
  BY <1>1, Zenon DEF ReadReady, TodoMove, GoalMove, RowMove, RunMove, StatusKept, tables, ThreadTypes
<1>2. ASSUME Return(t) \/ Raise(t)
      PROVE  \A u \in Thread : TodoMove(u) /\ GoalMove(u)
  BY <1>2, QuietMove DEF Return, Raise, EndTask, ThreadTypes
<1>3. CASE InsertReady(t)
  <2>1. CASE Raise(t) /\ UNCHANGED tables
    BY <1>2, <2>1, Zenon DEF tables, RowMove, RunMove
  <2>2. ASSUME NEW n \in todo[t], Insert(n, "skipped") \/ Insert(n, "queued"),
               todo' = [todo EXCEPT ![t] = @ \ {n}],
               pc' = [pc EXCEPT ![t] = IF todo[t] = {n} THEN "ready" ELSE "insert"],
               UNCHANGED <<task, goal, drain>>
        PROVE  Moves
    <3>1. \A u \in Thread : TodoMove(u) /\ GoalMove(u)
      BY <2>2, QuietMove, Zenon DEF ThreadTypes
    <3>2. RowMove /\ RunMove
      BY <2>2 DEF Insert, RowMove, RunMove, RowsInv, NodeQueueTypeOK
    <3>. QED
      BY <3>1, <3>2, Zenon
  <2>. QED
    BY <1>3, <2>1, <2>2, Zenon DEF InsertReady, InsertSkippedJob, EnqueueNodeJob
<1>4. CASE AfterProcessReady(t)
  <2>1. RowMove /\ RunMove /\ StatusKept
    BY <1>4, Zenon DEF AfterProcessReady, RowMove, RunMove, StatusKept, tables
  <2>2. CASE Return(t)
    BY <1>2, <2>1, <2>2, Zenon
  <2>3. CASE CallUpdateRun(t, task[t], "completed") /\ AllSatisfied
    BY <2>1, <2>3, Zenon DEF CallUpdateRun, TodoMove, GoalMove, ThreadTypes
  <2>4. CASE \/ CallUpdateRun(t, task[t], "running") \/ CallUpdateRun(t, task[t], "failed")
             \/ Goto(t, "delete")
    BY <2>1, <2>4 DEF CallUpdateRun, Goto, TodoMove, GoalMove, ThreadTypes
  <2>. QED
    BY <1>4, <2>2, <2>3, <2>4, Zenon DEF AfterProcessReady
<1>5. CASE UpdateRunRow(t)
  BY <1>2, <1>5, Zenon DEF UpdateRunRow, UpdateRun, RowMove, RunMove
<1>. QED
  BY <1>1, <1>3, <1>4, <1>5, Zenon DEF ProcessReadyStep

(* And of the other steps of the dispatch thread.                          *)
LEMMA DispatchMoves ==
  ASSUME Control, RowsInv, DispatchStep, ~ ProcessReadyStep(D)
  PROVE  Moves
<1> USE DEF Control, Moves, At, D, I, Thread, ThreadTypes
<1>1. CASE SweepStuckRuns
  BY <1>1, Zenon DEF SweepStuckRuns, CallUpdateRun, CallProcessReady, TodoMove, GoalMove, RowMove, RunMove,
    StatusKept, tables
<1>2. CASE Expand \/ SelectEvents \/ CallBack \/ NoStuckSweep
  <2>1. RowMove /\ RunMove
    BY <1>2, Zenon DEF Expand, SelectEvents, CallBack, NoStuckSweep, RowMove, RunMove, tables
  <2>2. \A t \in Thread : TodoMove(t) /\ GoalMove(t)
    BY <1>2, QuietMove DEF Expand, SelectEvents, CallBack, NoStuckSweep, Goto, CallUpdateRun,
      CallProcessReady
  <2>. QED
    BY <2>1, <2>2, Zenon
<1>3. CASE CancelSiblingsAfterFailure \/ DropDeadRows
  <2>1. RowMove /\ RunMove
    BY <1>3, Zenon DEF CancelSiblingsAfterFailure, CancelQueuedJobs, DropDeadRows, DeleteNonTerminalJobs,
      RowMove, RunMove
  <2>2. \A t \in Thread : TodoMove(t) /\ GoalMove(t)
    BY <1>3, QuietMove DEF CancelSiblingsAfterFailure, DropDeadRows, CallUpdateRun, CallProcessReady
  <2>. QED
    BY <2>1, <2>2, Zenon
<1>4. CASE CommitDrain \/ ReenqueueRunningForResume
  <2>1. RowMove /\ RunMove
    BY <1>4, Zenon DEF CommitDrain, ProcessEvents, ReenqueueRunningForResume, UpdateRun, RowMove, RunMove
  <2>2. \A t \in Thread : TodoMove(t) /\ GoalMove(t)
    BY <1>4, QuietMove, Zenon DEF CommitDrain, ReenqueueRunningForResume, Goto
  <2>. QED
    BY <2>1, <2>2, Zenon
<1>5. CASE SweepExpiredLeases \/ SweepOrphanQueuedJobs \/ ReclaimJobsAtBoot \/ AwaitRecovery
  <2>1. RowMove /\ RunMove
    BY <1>5 DEF SweepExpiredLeases, SweepOrphanQueuedJobs, ReclaimJobsAtBoot, AwaitRecovery,
      ReclaimExpiredLeases, LapsedRows, ReclaimAllRunningForResume, HandBack, CancelOrphanedQueuedJobs,
      CancelQueuedJobs, tables, RowMove, RunMove
  <2>2. \A t \in Thread : TodoMove(t) /\ GoalMove(t)
    BY <1>5, QuietMove, Zenon DEF SweepExpiredLeases, SweepOrphanQueuedJobs, ReclaimJobsAtBoot, AwaitRecovery, Goto
  <2>. QED
    BY <2>1, <2>2, Zenon
<1>. QED
  BY <1>1, <1>2, <1>3, <1>4, <1>5, Zenon DEF DispatchStep

(* And of all steps.                                                       *)
LEMMA MovesStep ==
  Control /\ RowsInv /\ [DispatcherNext]_dispatcherVars => Moves
<1> SUFFICES ASSUME Control, RowsInv, [DispatcherNext]_dispatcherVars
             PROVE  Moves
  OBVIOUS
<1>1. CASE DispatchStep \/ \E t \in Thread : ProcessReadyStep(t)
  BY <1>1, ProcessReadyMoves, DispatchMoves, Zenon DEF Thread, D
<1> USE DEF Control, Moves, At, D, I, Thread, ThreadTypes
<1>2. CASE InputStep /\ ~ ProcessReadyStep(I)
  <2>1. RowMove /\ RunMove
    <3>1. UNCHANGED tables \/ MarkCompleted(answer.node, answer.id)
      BY <1>2, Zenon DEF InputStep, ClaimPending, LookupInputJob, MarkInputCompleted, CascadeInput,
        SettleSubmission
    <3>. QED
      BY <3>1, Zenon DEF MarkCompleted, Markable, tables, RowMove, RunMove, RowsInv, NodeQueueTypeOK
  <2>2. \A t \in Thread : TodoMove(t) /\ GoalMove(t)
    <3>1. CASE Return(I) \/ Raise(I) \/ SettleSubmission
      BY <3>1, QuietMove DEF Return, Raise, SettleSubmission, EndTask
    <3>2. CASE ClaimPending \/ Goto(I, "mark") \/ Goto(I, "cascade") \/ CallProcessReady(I, "answer")
      BY <3>2, QuietMove, Zenon DEF ClaimPending, Goto, CallProcessReady
    <3>. QED
      BY <1>2, <3>1, <3>2, Zenon DEF InputStep, LookupInputJob, MarkInputCompleted, CascadeInput
  <2>. QED
    BY <2>1, <2>2, Zenon
<1>3. CASE Mishap
  <2>1. UNCHANGED tables
    BY <1>3, Zenon DEF Mishap, StatementFails, BootStatementFails, DrainFails, CrashOrchestrator
  <2>2. \A t \in Thread : TodoMove(t) /\ GoalMove(t)
    BY <1>3, QuietMove DEF Mishap, StatementFails, BootStatementFails, DrainFails, CrashOrchestrator,
      Raise, EndTask, Goto
  <2>. QED
    BY <2>1, <2>2, Zenon DEF tables, RowMove, RunMove
<1>4. CASE WorkersAndClock
  <2>1. run' = run
    BY ONLY <1>4, Zenon DEF WorkersAndClock, WorkerCall, ClaimNextJob, RenewLease, RequeueJobForRetry,
      HandBack, MarkCompletedAndEvent, MarkFailedAndEvent, MarkAndEnqueueEvent, MarkAwaitingInputAndEvent,
      LeaseLapse
  <2>2. \A n \in Node : status[n] = "absent" => status'[n] = "absent"
    <3>1. status \in [Node -> JobStatus]
      BY Zenon DEF RowsInv, NodeQueueTypeOK
    <3>2. ASSUME NEW m \in Node, LeaseLapse(m) \/ \E h \in Host : ClaimNextJob(m, h)
          PROVE  \A n \in Node : status[n] = "absent" => status'[n] = "absent"
      BY ONLY <3>1, <3>2, Zenon DEF LeaseLapse, ClaimNextJob, Claimable
    <3>3. ASSUME NEW m \in Node, RequeueJobForRetry(m, rowId[m]) \/ \E h \in Host : RenewLease(m, rowId[m], h)
          PROVE  \A n \in Node : status[n] = "absent" => status'[n] = "absent"
      BY ONLY <3>1, <3>3, Zenon DEF RenewLease, RequeueJobForRetry, Requeueable, HandBack
    <3>4. ASSUME NEW m \in Node,
                 \/ MarkCompletedAndEvent(m, rowId[m]) \/ MarkFailedAndEvent(m, rowId[m])
                 \/ \E i \in 1..rowId[m] : MarkAwaitingInputAndEvent(m, i)
          PROVE  \A n \in Node : status[n] = "absent" => status'[n] = "absent"
      BY ONLY <3>1, <3>4, Zenon DEF MarkCompletedAndEvent, MarkFailedAndEvent, MarkAndEnqueueEvent,
        MarkAwaitingInputAndEvent, Markable
    <3>. QED
      BY ONLY <1>4, <3>2, <3>3, <3>4, Zenon DEF WorkersAndClock, WorkerCall
  <2>3. UNCHANGED threads
    BY ONLY <1>4, Zenon DEF WorkersAndClock
  <2>. QED
    BY ONLY ThreadTypes, <2>1, <2>2, <2>3, QuietMove, Zenon DEF threads, RowMove, RunMove, Moves
<1>5. CASE HostCancels \/ (\E n \in Input : UserAnswers(n)) \/ UNCHANGED dispatcherVars
  BY <1>5, QuietMove, Zenon DEF HostCancels, UpdateRun, UserAnswers, dispatcherVars, tables, threads, RowMove, RunMove
<1>. QED
  BY <1>1, <1>2, <1>3, <1>4, <1>5, Zenon DEF DispatcherNext, InputStep

(* Satisfied rows stay satisfied, so what was ready or complete still is.  *)
LEMMA GraphStep ==
  ASSUME Control, RowsInv, RowLife, Moves,
         TodoIsReady, RowsFollowTheirDependencies, GoalIsEarned, CompletedRunIsComplete
  PROVE  (TodoIsReady /\ RowsFollowTheirDependencies /\ GoalIsEarned /\ CompletedRunIsComplete)'
<1> USE DispatcherAssumption DEF Satisfied
<1>1. \A n \in Node : status[n] \in Satisfied => status'[n] \in Satisfied
  BY Zenon DEF RowLife
<1>2. TodoIsReady'
  BY <1>1 DEF Moves, TodoMove, StatusKept, TodoIsReady, ReadyNodes, Control, ThreadTypes
<1>3. RowsFollowTheirDependencies'
  BY <1>1, Zenon DEF Moves, RowMove, RowsFollowTheirDependencies, TodoIsReady, Control, ThreadTypes
<1>4. GoalIsEarned'
  BY <1>1, Zenon DEF Moves, GoalMove, StatusKept, GoalIsEarned, AllSatisfied
<1>5. CompletedRunIsComplete'
  BY <1>1, Zenon DEF Moves, RunMove, CompletedRunIsComplete, GoalIsEarned, AllSatisfied
<1>. QED
  BY <1>2, <1>3, <1>4, <1>5, Zenon

-----------------------------------------------------------------------------
(* Answers.                                                                *)

Applying == pc[I] \in SharedPc \cup {"cascade"} \/ (pc[I] = "settle" /\ goal[I] = "processed")

AnswersInv ==
  MarkedRowIsKnown /\ AnsweredRowsArePast /\ AnswerIsApplied /\ ProcessedAnswersAreApplied

(* The first row of an answered node stays what it is: parked until it is  *)
(* completed, and completed from then on; a deleted one is never the first *)
(* row again.                                                              *)
LEMMA FirstRowStays ==
  ASSUME RowsInv, RowLife, RowsGrow, NEW n \in Input, rowId[n] >= 1, FirstRow(n)'
  PROVE  /\ FirstRow(n)
         /\ status[n] = "completed" => status'[n] = "completed"
         /\ status[n] = "awaiting_input" => status'[n] \in {"awaiting_input", "completed"}
BY NodeQueueAssumption DEF RowsInv, NodeQueueTypeOK, RowLife, RowsGrow, FirstRow

(* A step that leaves submissions and the answer in hand alone, and does   *)
(* not take the input thread to where an answer is newly matched or newly  *)
(* applied, keeps what is known of answers, whatever it does to the rows.  *)
LEMMA AnswersKept ==
  ASSUME Control, RowsInv, AnswersInv, RowLife, RowsGrow, RowsInv',
         sub' = sub,
         pc'[I] = "mark" => pc[I] = "mark" /\ answer' = answer,
         Applying' => Applying /\ answer' = answer
  PROVE  AnswersInv'
<1> USE NodeQueueAssumption DEF AnswersInv
<1>1. AnsweredRowsArePast'
  BY FirstRowStays DEF AnsweredRowsArePast, RowsGrow, RowsInv, NodeQueueTypeOK
<1>2. ProcessedAnswersAreApplied'
  BY FirstRowStays, Zenon DEF ProcessedAnswersAreApplied, AnsweredRowsArePast
<1>3. MarkedRowIsKnown'
  <2> SUFFICES ASSUME pc'[I] = "mark"
               PROVE  MarkedRowIsKnown'
    BY Zenon DEF MarkedRowIsKnown
  <2>1. answer' = answer /\ answer.node \in Node /\ pc[I] = "mark"
    BY Zenon DEF Control, ThreadsInOrder, AnswerPc
  <2>. QED
    BY <2>1 DEF MarkedRowIsKnown, RowLife, RowsGrow, RowsInv, NodeQueueTypeOK
<1>4. AnswerIsApplied'
  <2> SUFFICES ASSUME Applying'
               PROVE  (FirstRow(answer.node) => status[answer.node] = "completed")'
    BY Zenon DEF AnswerIsApplied, Applying
  <2>1. answer' = answer /\ answer.node \in Input /\ sub[answer.node] # "none"
    BY Zenon DEF Control, ThreadsInOrder, Applying, AnswerPc
  <2>2. rowId[answer.node] >= 1
    BY <2>1, Zenon DEF AnsweredRowsArePast
  <2>3. FirstRow(answer.node) => status[answer.node] = "completed"
    BY Zenon DEF AnswerIsApplied, Applying
  <2>. QED
    BY <2>1, <2>2, <2>3, FirstRowStays, Zenon DEF FirstRow
<1>. QED
  BY <1>1, <1>2, <1>3, <1>4, Zenon

(* What is known of answers is kept by every step.                         *)
LEMMA AnswersStep ==
  ASSUME Control, RowsInv, AnswersInv, RowLife, RowsGrow, RowsInv', [DispatcherNext]_dispatcherVars
  PROVE  AnswersInv'
<1> USE NodeQueueAssumption DEF Control, I, D, Thread, At
<1>1. CASE DispatchStep
  <2>1. sub' = sub /\ answer' = answer
    BY <1>1, Zenon DEF DispatchStep, ProcessReadyStep, ReadReady, InsertReady, AfterProcessReady, UpdateRunRow,
      Expand, SelectEvents, CallBack, CancelSiblingsAfterFailure, CommitDrain, SweepExpiredLeases,
      SweepOrphanQueuedJobs, SweepStuckRuns, NoStuckSweep, DropDeadRows, ReenqueueRunningForResume,
      ReclaimJobsAtBoot, AwaitRecovery, inputs
  <2>2. CASE ProcessReadyStep(D)
    <3>1. pc'[I] = pc[I] /\ goal'[I] = goal[I]
      BY <2>2, Zenon DEF ProcessReadyStep, ReadReady, InsertReady, AfterProcessReady, UpdateRunRow, Return, Raise,
        EndTask, CallUpdateRun, Goto, ThreadTypes
    <3>. QED
      BY <2>1, <3>1, AnswersKept, Zenon DEF Applying
  <2>3. CASE AwaitRecovery
    BY <2>1, <2>3, AnswersKept, Zenon DEF AwaitRecovery, Applying, SharedPc
  <2>4. CASE ~ ProcessReadyStep(D) /\ ~ AwaitRecovery
    <3>1. pc'[I] = pc[I] /\ goal'[I] = goal[I]
      BY <1>1, <2>4, Zenon DEF DispatchStep, Expand, SelectEvents, CallBack, CancelSiblingsAfterFailure,
        CommitDrain, SweepExpiredLeases, SweepOrphanQueuedJobs, SweepStuckRuns, NoStuckSweep, DropDeadRows,
        ReenqueueRunningForResume, ReclaimJobsAtBoot, Goto, CallUpdateRun, CallProcessReady, ThreadTypes
    <3>. QED
      BY <2>1, <3>1, AnswersKept, Zenon DEF Applying
  <2>. QED
    BY <2>2, <2>3, <2>4, Zenon
<1>2. CASE ProcessReadyStep(I)
  <2>1. UNCHANGED inputs /\ pc[I] \in SharedPc
    BY <1>2, Zenon DEF ProcessReadyStep, ReadReady, InsertReady, AfterProcessReady, UpdateRunRow, SharedPc
  <2>2. pc'[I] # "mark"
    <3>1. pc \in [Thread -> DispatchPc \cup InputPc \cup SharedPc]
      BY Zenon DEF ThreadTypes
    <3>2. CASE \E p \in {"after", "insert", "ready", "update", "delete", "drain", "event", "tick", "settle"} :
                 pc' = [pc EXCEPT ![I] = p]
      BY ONLY <3>1, <3>2, Zenon
    <3>3. CASE ReadReady(I) \/ InsertReady(I)
      BY ONLY <3>2, <3>3, Zenon DEF ReadReady, InsertReady, Raise, EndTask
    <3>4. CASE AfterProcessReady(I) \/ UpdateRunRow(I)
      BY ONLY <3>2, <3>4, Zenon DEF AfterProcessReady, UpdateRunRow, Return, EndTask, CallUpdateRun, Goto
    <3>. QED
      BY ONLY <1>2, <3>3, <3>4, Zenon DEF ProcessReadyStep
  <2>. QED
    BY <2>1, <2>2, AnswersKept, Zenon DEF inputs, Applying
<1>3. CASE ClaimPending
  <2>1. PICK n \in Input : sub[n] # "none" /\ sub' = [sub EXCEPT ![n] = "processing"]
    BY <1>3, Zenon DEF ClaimPending
  <2>2. pc'[I] = "lookup" /\ UNCHANGED tables
    BY <1>3, Zenon DEF ClaimPending, ThreadTypes
  <2>. QED
    BY <2>1, <2>2 DEF AnswersInv, MarkedRowIsKnown, AnsweredRowsArePast, AnswerIsApplied,
      ProcessedAnswersAreApplied, FirstRow, tables, SharedPc, InputTypes
<1>4. CASE LookupInputJob
  <2>1. /\ answer.node \in Input /\ sub[answer.node] # "none"
        /\ UNCHANGED tables /\ sub' = sub /\ pc[I] = "lookup"
    BY <1>4, Zenon DEF LookupInputJob, ThreadsInOrder, AnswerPc
  <2>2. AnsweredRowsArePast' /\ ProcessedAnswersAreApplied'
    BY <2>1, Zenon DEF AnswersInv, AnsweredRowsArePast, ProcessedAnswersAreApplied, FirstRow, tables
  <2>3. CASE Raise(I)
    <3>1. pc'[I] = "settle" /\ goal'[I] = "failed"
      BY <2>1, <2>3, Zenon DEF Raise, EndTask, ThreadTypes, ThreadsInOrder, AnswerPc
    <3>. QED
      BY <2>2, <3>1, Zenon DEF AnswersInv, MarkedRowIsKnown, AnswerIsApplied, SharedPc
  <2>4. CASE /\ status[answer.node] \notin {"absent", "awaiting_input", "queued"}
             /\ Return(I) /\ UNCHANGED answer
    <3>1. pc'[I] = "settle"
      BY <2>1, <2>4, Zenon DEF Return, EndTask, ThreadTypes, ThreadsInOrder, AnswerPc
    <3>. QED
      BY <2>1, <2>2, <2>4, <3>1, Zenon DEF AnswersInv, MarkedRowIsKnown, AnswerIsApplied, AnsweredRowsArePast,
        FirstRow, tables
  <2>5. CASE /\ status[answer.node] \in {"awaiting_input", "queued"}
             /\ answer' = [answer EXCEPT !.id = rowId[answer.node]]
             /\ Goto(I, "mark")
    <3>1. answer'.node = answer.node /\ answer'.id = rowId[answer.node]
      BY <2>1, <2>5, Zenon DEF InputTypes, NoAnswer
    <3>2. rowId[answer.node] \in Nat \ {0}
      BY <2>1, <2>5 DEF RowsInv, RowsNumbered, NodeQueueTypeOK
    <3>3. pc'[I] = "mark"
      BY <2>5, Zenon DEF Goto, ThreadTypes
    <3>. QED
      BY <2>1, <2>2, <2>5, <3>1, <3>2, <3>3 DEF AnswersInv, MarkedRowIsKnown, AnswerIsApplied, SharedPc, tables
  <2>. QED
    BY <1>4, <2>3, <2>4, <2>5, Zenon DEF LookupInputJob
<1>5. CASE MarkInputCompleted
  <2>1. /\ answer.node \in Input /\ sub[answer.node] # "none" /\ pc[I] = "mark"
        /\ sub' = sub /\ answer' = answer /\ pc'[I] = "cascade"
    BY <1>5, Zenon DEF MarkInputCompleted, Goto, inputs, ThreadsInOrder, ThreadTypes, AnswerPc
  <2>2. AnsweredRowsArePast'
    BY <2>1, FirstRowStays DEF AnswersInv, AnsweredRowsArePast, RowsGrow, RowsInv, NodeQueueTypeOK
  <2>3. ProcessedAnswersAreApplied'
    BY <2>1, FirstRowStays, Zenon DEF AnswersInv, ProcessedAnswersAreApplied, AnsweredRowsArePast
  <2>4. AnswerIsApplied'
    <3> SUFFICES ASSUME FirstRow(answer.node)'
                 PROVE  status'[answer.node] = "completed"
      BY <2>1, Zenon DEF AnswerIsApplied
    <3>1. CASE Markable(answer.node, answer.id)
      BY <1>5, <2>1, <3>1, Zenon DEF MarkInputCompleted, MarkCompleted, RowsInv, NodeQueueTypeOK
    <3>2. CASE ~ Markable(answer.node, answer.id)
      <4>1. UNCHANGED tables
        BY <1>5, <3>2, Zenon DEF MarkInputCompleted
      <4>2. FirstRow(answer.node) /\ answer.id = rowId[answer.node]
        BY <2>1, <4>1 DEF AnswersInv, MarkedRowIsKnown, FirstRow, tables
      <4>. QED
        BY <2>1, <3>2, <4>1, <4>2, Zenon DEF AnswersInv, AnsweredRowsArePast, Markable, Terminal, FirstRow, tables
    <3>. QED
      BY <3>1, <3>2, Zenon
  <2>. QED
    BY <2>1, <2>2, <2>3, <2>4, Zenon DEF AnswersInv, MarkedRowIsKnown
<1>6. CASE CascadeInput
  <2>1. UNCHANGED inputs /\ pc[I] = "cascade" /\ pc'[I] # "mark"
    BY <1>6, Zenon DEF CascadeInput, Return, EndTask, CallProcessReady, ThreadTypes
  <2>. QED
    BY <2>1, AnswersKept, Zenon DEF inputs, Applying
<1>7. CASE SettleSubmission
  <2>1. /\ answer.node \in Input /\ sub[answer.node] # "none" /\ pc[I] = "settle"
        /\ sub' = [sub EXCEPT ![answer.node] = goal[I]] /\ pc'[I] = "poll" /\ UNCHANGED tables
    BY <1>7, Zenon DEF SettleSubmission, EndTask, ThreadsInOrder, ThreadTypes
  <2>. QED
    BY <2>1, Zenon DEF AnswersInv, MarkedRowIsKnown, AnsweredRowsArePast, AnswerIsApplied,
      ProcessedAnswersAreApplied, FirstRow, tables, SharedPc, InputTypes
<1>8. CASE Mishap
  <2>1. CASE CrashOrchestrator
    BY <2>1, AnswersKept, Zenon DEF CrashOrchestrator, Applying, SharedPc
  <2>2. CASE BootStatementFails \/ DrainFails
    BY <2>2, AnswersKept, Zenon DEF BootStatementFails, DrainFails, Goto, Applying, ThreadTypes, inputs
  <2>3. ASSUME NEW t \in Thread, StatementFails(t)
        PROVE  AnswersInv'
    <3>1. UNCHANGED inputs /\ \/ pc'[I] = pc[I] /\ goal'[I] = goal[I]
                              \/ pc'[I] = "settle" /\ goal'[I] = "failed"
      BY <2>3 DEF StatementFails, Raise, EndTask, ThreadTypes, ThreadsInOrder, AnswerPc
    <3>. QED
      BY <3>1, AnswersKept, Zenon DEF inputs, Applying, SharedPc
  <2>. QED
    BY <1>8, <2>1, <2>2, <2>3, Zenon DEF Mishap
<1>9. CASE WorkersAndClock \/ HostCancels \/ UNCHANGED dispatcherVars
  BY <1>9, AnswersKept, Zenon DEF WorkersAndClock, HostCancels, dispatcherVars, threads, inputs, Applying
<1>10. ASSUME NEW n \in Input, UserAnswers(n)
       PROVE  AnswersInv'
  <2>1. /\ status[n] = "awaiting_input" /\ sub' = [sub EXCEPT ![n] = "pending"]
        /\ UNCHANGED <<tables, answer, pc, goal>>
    BY <1>10, Zenon DEF UserAnswers, threads
  <2>2. rowId[n] >= 1
    BY <2>1, Zenon DEF RowsInv, RowsNumbered
  <2>. QED
    BY <2>1, <2>2, Zenon DEF AnswersInv, MarkedRowIsKnown, AnsweredRowsArePast, AnswerIsApplied,
      ProcessedAnswersAreApplied, FirstRow, tables, InputTypes
<1>. QED
  BY <1>1, <1>2, <1>3, <1>4, <1>5, <1>6, <1>7, <1>8, <1>9, <1>10 DEF DispatcherNext, InputStep

-----------------------------------------------------------------------------
(* The invariant.                                                          *)

(* DispatcherTypeOK, by the variables it is about.                         *)
LEMMA TypesByPart ==
  DispatcherTypeOK <=> NodeQueueTypeOK /\ ThreadTypes /\ DrainTypes /\ InputTypes /\ HistoryTypes
BY Zenon DEF DispatcherTypeOK, ThreadTypes, DrainTypes, InputTypes, HistoryTypes

(* It holds before the process has started.                                *)
LEMMA DispatcherInitInv == DispatcherInit => DispatcherInv
<1> SUFFICES ASSUME DispatcherInit
             PROVE  DispatcherInv
  OBVIOUS
<1> USE DEF DispatcherInit, NodeQueueInit
<1>1. NodeQueueTypeOK
  BY Zenon DEF NodeQueueTypeOK, RunStatus, JobStatus, Terminal
<1>2. ThreadTypes
  BY Zenon DEF ThreadTypes, DispatchPc, Task, RunStatus
<1>3. DrainTypes /\ InputTypes /\ HistoryTypes
  BY Zenon DEF DrainTypes, InputTypes, HistoryTypes
<1>4. RowsInv
  BY <1>1, Zenon DEF RowsInv, RowsNumbered, SkippedRowsUnclaimed, ParkedRowsAreInputs
<1>5. ThreadsInOrder
  BY Zenon DEF ThreadsInOrder, Thread, D, I, DispatchPc, InputPc, SharedPc, AnswerPc
<1>6. TodoIsReady /\ RowsFollowTheirDependencies /\ GoalIsEarned /\ CompletedRunIsComplete
  BY Zenon DEF TodoIsReady, RowsFollowTheirDependencies, GoalIsEarned, CompletedRunIsComplete
<1>7. MarkedRowIsKnown /\ AnsweredRowsArePast /\ AnswerIsApplied /\ ProcessedAnswersAreApplied
  BY Zenon DEF MarkedRowIsKnown, AnsweredRowsArePast, AnswerIsApplied, ProcessedAnswersAreApplied, Thread, I, SharedPc
<1>. QED
  BY <1>1, <1>2, <1>3, <1>4, <1>5, <1>6, <1>7, TypesByPart, Zenon DEF DispatcherInv

(* And every step keeps it.                                                *)
LEMMA DispatcherInvStep ==
  DispatcherInv /\ [DispatcherNext]_dispatcherVars => DispatcherInv'
<1> SUFFICES ASSUME DispatcherInv, [DispatcherNext]_dispatcherVars
             PROVE  DispatcherInv'
  OBVIOUS
<1>1. Control /\ RowsInv /\ AnswersInv
  BY TypesByPart, Zenon DEF DispatcherInv, Control, AnswersInv
<1>2. RowsInv' /\ RowLife /\ RowsGrow
  BY <1>1, DispatcherStepIsQueueStep, RowsStep, Zenon DEF DispatcherInv
<1>3. Control' /\ Moves
  BY <1>1, ControlStep, MovesStep, Zenon
<1>4. (TodoIsReady /\ RowsFollowTheirDependencies /\ GoalIsEarned /\ CompletedRunIsComplete)'
  BY <1>1, <1>2, <1>3, GraphStep, Zenon DEF DispatcherInv
<1>5. AnswersInv'
  BY <1>1, <1>2, AnswersStep, Zenon
<1>6. DispatcherTypeOK'
  BY <1>2, <1>3, Zenon
  DEF Control, RowsInv, DispatcherTypeOK, ThreadTypes, DrainTypes, InputTypes, HistoryTypes
<1>. QED
  BY <1>2, <1>3, <1>4, <1>5, <1>6, Zenon DEF DispatcherInv, Control, AnswersInv

(* The threads' beliefs are true in every reachable state.                 *)
THEOREM DispatcherInvariant == DispatcherSpec => []DispatcherInv
<1>. QED
  BY DispatcherInitInv, DispatcherInvStep, PTL DEF DispatcherSpec

(* No node has a row unless all it depends on is completed or skipped,     *)
(* whichever of start_run, a replayed callback, the input thread or a      *)
(* reconcile that races them inserted it, for every workflow graph.        *)
THEOREM DependenciesAreRespected == DispatcherSpec => []RowsFollowTheirDependencies
<1>1. DispatcherInv => RowsFollowTheirDependencies
  BY Zenon DEF DispatcherInv
<1>. QED
  BY <1>1, DispatcherInvariant, PTL

(* A run marked completed has every node completed or skipped, although    *)
(* on_node_completed checks and writes in two transactions.                *)
THEOREM CompletedRunsAreComplete == DispatcherSpec => []CompletedRunIsComplete
<1>1. DispatcherInv => CompletedRunIsComplete
  BY Zenon DEF DispatcherInv
<1>. QED
  BY <1>1, DispatcherInvariant, PTL

(* A submission marked processed was applied to the first row of its node, *)
(* whatever crashed between the mark, the cascade and the settling.        *)
THEOREM AnswersAreApplied == DispatcherSpec => []ProcessedAnswersAreApplied
<1>1. DispatcherInv => ProcessedAnswersAreApplied
  BY Zenon DEF DispatcherInv
<1>. QED
  BY <1>1, DispatcherInvariant, PTL

-----------------------------------------------------------------------------
(* Refinement, and what a step may never do.                               *)

(* The dispatcher implements the job table's most general client: whatever *)
(* NodeQueueProofs shows of the table holds of the orchestrator's process. *)
THEOREM DispatcherImplementsNodeQueue == DispatcherSpec => NodeQueueSpec
<1>1. DispatcherInit => NodeQueueInit
  BY Zenon DEF DispatcherInit
<1>2. DispatcherInv /\ [DispatcherNext]_dispatcherVars => [NodeQueueNext]_tables
  BY DispatcherStepIsQueueStep, Zenon DEF DispatcherInv
<1>. QED
  BY <1>1, <1>2, DispatcherInvariant, PTL DEF DispatcherSpec, NodeQueueSpec

(* No row goes to running while its run is cancelled or failed, with the   *)
(* dispatcher, its crashes and its sweeps running beside the workers.      *)
THEOREM DispatcherClaimsNoDeadRun == DispatcherSpec => NoClaimForDeadRun
<1>. QED
  BY DispatcherImplementsNodeQueue, DeadRunsAreNotClaimed, PTL

(* The event an orchestrator finds in the outbox is the only one of its    *)
(* row and true of it.                                                     *)
THEOREM DispatcherReadsTrueEvents ==
  DispatcherSpec => [](PendingEventsAreTrue /\ ExactlyOneTerminalEvent)
<1>. QED
  BY DispatcherImplementsNodeQueue, PendingEventsTruthful, OneTerminalEventPerRow, PTL

KeptStep ==
  \A n \in Node : status[n] \in Satisfied => status'[n] = status[n] /\ rowId'[n] = rowId[n]

(* resume_after_input marks a row it found parked or queued, and that row  *)
(* cannot have become a skipped one.                                       *)
LEMMA SkippedInputsAreKept ==
  ASSUME DispatcherInv, [DispatcherNext]_dispatcherVars,
         NEW n \in Input, status[n] = "skipped"
  PROVE  status'[n] # "completed"
<1> USE NodeQueueAssumption DEF Thread, D, I, At
<1>1. n \in Node /\ status \in [Node -> JobStatus] /\ ~ touched[n]
  BY Zenon DEF DispatcherInv, RowsInv, NodeQueueTypeOK, SkippedRowsUnclaimed
<1>2. CASE UNCHANGED tables
  BY <1>2, Zenon DEF tables
<1>3. CASE DispatchStep \/ ProcessReadyStep(I)
  <2>1. \/ UNCHANGED tables \/ CancelQueuedJobs \/ DeleteNonTerminalJobs
        \/ \E s \in {"queued", "cancelled"} :
             HandBack(LapsedRows, s) \/ \E st \in SUBSET Host :
               HandBack({m \in Node : status[m] = "running" /\ claimedBy[m] \in st}, s)
        \/ \E m \in Node, s \in {"queued", "skipped"} : Insert(m, s)
        \/ status' = status
    <3>1. ASSUME NEW t \in Thread, ProcessReadyStep(t)
          PROVE  status' = status \/ \E m \in Node, s \in {"queued", "skipped"} : Insert(m, s)
      BY <3>1, Zenon DEF ProcessReadyStep, ReadReady, InsertReady, AfterProcessReady, UpdateRunRow, UpdateRun,
        InsertSkippedJob, EnqueueNodeJob, tables, DispatcherInv, DispatcherTypeOK
    <3>2. CASE ~ ProcessReadyStep(D) /\ DispatchStep
      BY <3>2, Zenon DEF DispatchStep, Expand, SelectEvents, CallBack, CancelSiblingsAfterFailure, CommitDrain,
        ProcessEvents, SweepExpiredLeases, SweepOrphanQueuedJobs, CancelOrphanedQueuedJobs, SweepStuckRuns,
        NoStuckSweep, DropDeadRows, ReenqueueRunningForResume, UpdateRun, ReclaimJobsAtBoot,
        ReclaimAllRunningForResume, ReclaimExpiredLeases, AwaitRecovery
    <3>. QED
      BY <1>3, <3>1, <3>2, Zenon
  <2>. QED
    BY <1>1, <1>2, <2>1, Zenon DEF CancelQueuedJobs, DeleteNonTerminalJobs, HandBack, LapsedRows, Insert
<1>4. CASE MarkInputCompleted
  <2>1. \/ UNCHANGED tables
        \/ MarkCompleted(answer.node, answer.id) /\ answer.id = rowId[answer.node]
    BY <1>4, Zenon DEF MarkInputCompleted, Markable
  <2>2. answer.id = rowId[answer.node] => status[answer.node] # "skipped"
    BY <1>4, Zenon DEF MarkInputCompleted, DispatcherInv, MarkedRowIsKnown
  <2>. QED
    BY <1>1, <1>2, <2>1, <2>2, Zenon DEF MarkCompleted
<1>5. CASE WorkersAndClock
  <2>1. ASSUME NEW m \in Node, LeaseLapse(m) \/ \E h \in Host : ClaimNextJob(m, h)
        PROVE  status'[n] # "completed"
    BY ONLY <1>1, <2>1, status[n] = "skipped", Zenon DEF LeaseLapse, ClaimNextJob
  <2>2. ASSUME NEW m \in Node, RequeueJobForRetry(m, rowId[m]) \/ \E h \in Host : RenewLease(m, rowId[m], h)
        PROVE  status'[n] # "completed"
    BY ONLY <1>1, <2>2, status[n] = "skipped", Zenon DEF RenewLease, RequeueJobForRetry, HandBack
  <2>3. ASSUME NEW m \in Node,
               \/ touched[m] /\ MarkCompletedAndEvent(m, rowId[m])
               \/ touched[m] /\ MarkFailedAndEvent(m, rowId[m])
               \/ \E i \in 1..rowId[m] : MarkAwaitingInputAndEvent(m, i)
        PROVE  status'[n] # "completed"
    BY ONLY <1>1, <2>3, status[n] = "skipped", Zenon DEF MarkCompletedAndEvent, MarkFailedAndEvent,
      MarkAndEnqueueEvent, MarkAwaitingInputAndEvent
  <2>. QED
    BY ONLY <1>5, <2>1, <2>2, <2>3, Zenon DEF WorkersAndClock, WorkerCall
<1>6. CASE HostCancels
  BY <1>1, <1>6, Zenon DEF HostCancels, UpdateRun
<1>. QED
  BY <1>2, <1>3, <1>4, <1>5, <1>6, Zenon DEF DispatcherNext, InputStep, ClaimPending, LookupInputJob, CascadeInput,
    SettleSubmission, Mishap, StatementFails, BootStatementFails, DrainFails, CrashOrchestrator, UserAnswers,
    dispatcherVars

(* reconcile_run, resume and the sweeps never delete, re-queue or insert   *)
(* again a row that is completed or skipped.                               *)
THEOREM CompletedWorkStays == DispatcherSpec => CompletedWorkIsKept
<1>1. DispatcherInv /\ [DispatcherNext]_dispatcherVars => [KeptStep]_dispatcherVars
  <2> SUFFICES ASSUME DispatcherInv, [DispatcherNext]_dispatcherVars,
                      NEW n \in Node, status[n] \in Satisfied
               PROVE  status'[n] = status[n] /\ rowId'[n] = rowId[n]
    BY Zenon DEF KeptStep
  <2>1. RowLife
    BY DispatcherStepIsQueueStep, RowsStep, Zenon DEF DispatcherInv
  <2>. QED
    BY <2>1, SkippedInputsAreKept, Zenon DEF RowLife, Satisfied
<1>. QED
  BY <1>1, DispatcherInvariant, PTL DEF DispatcherSpec, CompletedWorkIsKept, KeptStep
=============================================================================
