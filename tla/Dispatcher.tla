------------------------------ MODULE Dispatcher ------------------------------
(***************************************************************************)
(* The orchestrator of one run (queue_workflows/dispatcher.py,             *)
(* node_pool.py, input_listener.py, run_store.py, orchestrator.py) over    *)
(* the job table of NodeQueue.  Its process has two threads: "dispatch"    *)
(* runs NodePool._tick for ever (expand queued runs, drain the outbox,     *)
(* sweep), "input" turns the users' answers into completed input nodes.    *)
(* Both call _process_ready, which reads the rows and then inserts what is *)
(* ready, row by row, each INSERT a transaction of its own.                *)
(*                                                                         *)
(* A step is one statement; workers, users, the host's cancel and a crash  *)
(* of the process may come between any two.  The drain is the exception:   *)
(* its marks on events, and its UPDATE of the run when an event is         *)
(* poisonous, belong to one transaction that commits when the batch is     *)
(* done, while the callbacks in between commit on their own connections.   *)
(***************************************************************************)
EXTENDS NodeQueue

CONSTANTS
  Deps,         \* depends_on of every node
  SkipIf,       \* the nodes whose skip_if holds when they become ready
  Broken,       \* the nodes with a $from ref that does not resolve
  MaxAttempts   \* NodePool._DISPATCH_MAX_ATTEMPTS

ASSUME DispatcherAssumption ==
  /\ Deps \in [Node -> SUBSET Node]
  /\ SkipIf \subseteq Node /\ Broken \subseteq Node \ Input
  /\ MaxAttempts \in Nat \ {0}

Thread == {"dispatch", "input"}

VARIABLES
  pc,         \* where each thread is
  task,       \* what it is doing there
  todo,       \* the ready nodes it read and has still to insert
  wrote,      \* whether _process_ready has inserted a row
  goal,       \* the status it is about to write to the run, or to the submission
  batch,      \* the events the drain selected and has not called back yet
  current,    \* the event whose callback runs
  done,       \* events marked processed by the open drain transaction
  bumped,     \* events whose attempts it has incremented
  runLock,    \* it has updated the run (to failed) and so locks the row
  attempts,   \* committed attempts of the unprocessed events
  sub,        \* status of the newest submission for each input node
  answer,     \* the input node, and its row, the input thread works on
  specs,      \* the rows of input nodes with an input_spec
  rejected,   \* the workflow has a gpu node without a model (never changes)
  cancelled,  \* history: the host has cancelled the run
  mishaps     \* history: statements that raised and crashes of the process

threads == <<pc, task, todo, wrote, goal>>
drain == <<batch, current, done, bumped, runLock, attempts>>
inputs == <<sub, answer, specs>>
history == <<rejected, cancelled, mishaps>>
dispatcherVars == <<tables, threads, drain, inputs, history>>

NoEvent == [node |-> NoHost, id |-> 0, kind |-> "none"]
NoAnswer == [node |-> NoHost, id |-> 0]
Live == {"queued", "running", "awaiting_input"}
Satisfied == {"completed", "skipped"}

DispatchPc == {"down", "boot_jobs", "boot_leases", "tick", "drain", "event", "siblings",
               "leases", "orphans", "stuck", "delete"}
InputPc == {"down", "poll", "lookup", "mark", "cascade", "settle"}
SharedPc == {"ready", "insert", "after", "update"}
Task == {"none", "start", "event", "reconcile", "redrive", "answer"}

DispatcherTypeOK ==
  /\ NodeQueueTypeOK
  /\ pc \in [Thread -> DispatchPc \cup InputPc \cup SharedPc]
  /\ task \in [Thread -> Task]
  /\ todo \in [Thread -> SUBSET Node]
  /\ wrote \in [Thread -> BOOLEAN]
  /\ goal \in [Thread -> RunStatus \cup {"processed"}]
  /\ batch \subseteq Event /\ done \subseteq Event /\ bumped \subseteq Event
  /\ current \in Event \cup {NoEvent}
  /\ runLock \in BOOLEAN
  /\ DOMAIN attempts \subseteq Event /\ \A ev \in DOMAIN attempts : attempts[ev] \in Nat
  /\ sub \in [Input -> {"none", "pending", "processing", "processed", "failed"}]
  /\ answer \in [node : Input, id : Nat] \cup {NoAnswer}
  /\ specs \subseteq [node : Input, id : Nat]
  /\ rejected \in BOOLEAN /\ cancelled \in BOOLEAN
  /\ mishaps \in Nat

DispatcherInit ==
  /\ NodeQueueInit
  /\ pc = [t \in Thread |-> "down"]
  /\ task = [t \in Thread |-> "none"]
  /\ todo = [t \in Thread |-> {}]
  /\ wrote = [t \in Thread |-> FALSE]
  /\ goal = [t \in Thread |-> "queued"]
  /\ batch = {} /\ done = {} /\ bumped = {}
  /\ current = NoEvent
  /\ runLock = FALSE
  /\ attempts = [ev \in {} |-> 0]
  /\ sub = [n \in Input |-> "none"]
  /\ answer = NoAnswer
  /\ specs = {}
  /\ rejected \in BOOLEAN
  /\ cancelled = FALSE
  /\ mishaps = 0

-----------------------------------------------------------------------------
(* Control.                                                                *)

At(t, p) == pc[t] = p

Goto(t, p) ==
  /\ pc' = [pc EXCEPT ![t] = p]
  /\ UNCHANGED <<task, todo, wrote, goal>>

\* Call _process_ready for the task k.
CallProcessReady(t, k) ==
  /\ pc' = [pc EXCEPT ![t] = "ready"]
  /\ task' = [task EXCEPT ![t] = k]
  /\ wrote' = [wrote EXCEPT ![t] = FALSE]
  /\ UNCHANGED <<todo, goal>>

\* In the task k, about to write status s to the run.
CallUpdateRun(t, k, s) ==
  /\ pc' = [pc EXCEPT ![t] = "update"]
  /\ task' = [task EXCEPT ![t] = k]
  /\ goal' = [goal EXCEPT ![t] = s]
  /\ UNCHANGED <<todo, wrote>>

\* The thread's task ends, and it goes on at p; s is the submission's outcome.
EndTask(t, p, s) ==
  /\ pc' = [pc EXCEPT ![t] = p]
  /\ task' = [task EXCEPT ![t] = "none"]
  /\ todo' = [todo EXCEPT ![t] = {}]
  /\ wrote' = [wrote EXCEPT ![t] = FALSE]
  /\ goal' = [goal EXCEPT ![t] = s]

Attempts(ev) == IF ev \in DOMAIN attempts THEN attempts[ev] ELSE 0

\* The callback of the current event returned: its mark joins the drain's
\* transaction.
EventDone ==
  /\ done' = done \cup {current}
  /\ current' = NoEvent
  /\ UNCHANGED <<batch, bumped, runLock, attempts>>

\* It raised: attempts + 1, and at the limit the run fails (unless it is
\* already terminal) and the event counts as processed.
EventRaised ==
  LET poisonous == Attempts(current) + 1 >= MaxAttempts IN
  /\ bumped' = bumped \cup {current}
  /\ done' = IF poisonous THEN done \cup {current} ELSE done
  /\ runLock' = (runLock \/ (poisonous /\ run \notin Terminal))
  /\ current' = NoEvent
  /\ UNCHANGED <<batch, attempts>>

\* The task's function returns to its caller.
Return(t) ==
  \/ task[t] = "start" /\ EndTask(t, "drain", "queued") /\ UNCHANGED drain
  \/ task[t] = "event" /\ EndTask(t, "event", "queued") /\ EventDone
  \/ task[t] \in {"reconcile", "redrive"} /\ EndTask(t, "tick", "queued") /\ UNCHANGED drain
  \/ task[t] = "answer" /\ EndTask(t, "settle", "processed") /\ UNCHANGED drain

\* It raises: every caller catches the exception and goes on.
Raise(t) ==
  \/ task[t] = "start" /\ EndTask(t, "drain", "queued") /\ UNCHANGED drain
  \/ task[t] = "event" /\ EndTask(t, "event", "queued") /\ EventRaised
  \/ task[t] \in {"reconcile", "redrive"} /\ EndTask(t, "tick", "queued") /\ UNCHANGED drain
  \/ task[t] = "answer" /\ EndTask(t, "settle", "failed") /\ UNCHANGED drain

-----------------------------------------------------------------------------
(* _process_ready and what follows it in each of its callers.              *)

ReadyOnceDepsParked ==
  {n \in Node : status[n] = "absent" /\ \A d \in Deps[n] : status[d] \in Satisfied \cup {"awaiting_input"}}

ReadyNodes ==
  {n \in Node : status[n] = "absent" /\ \A d \in Deps[n] : status[d] \in Satisfied}

AllRowsSatisfied == \A n \in Node : status[n] \in Satisfied \cup {"absent"}

AllSatisfied == \A n \in Node : status[n] \in Satisfied

ReadReady(t) ==
  /\ At(t, "ready")
  /\ pc' = [pc EXCEPT ![t] = IF ReadyNodes = {} THEN "after" ELSE "insert"]
  /\ todo' = [todo EXCEPT ![t] = ReadyNodes]
  /\ UNCHANGED <<tables, task, wrote, goal, drain, inputs, history>>

ShouldSkipNode(n) == n \in SkipIf

\* _enqueue raises when a ref does not resolve, or when another thread has
\* inserted the row meanwhile.
EnqueueRaises(n) == (n \in Broken /\ ~ ShouldSkipNode(n)) \/ status[n] # "absent"

\* One row of the batch that was read.
InsertReady(t) ==
  /\ At(t, "insert")
  /\ \E n \in todo[t] :
       \/ /\ ~ EnqueueRaises(n)
          /\ IF ShouldSkipNode(n) THEN InsertSkippedJob(n) ELSE EnqueueNodeJob(n)
          /\ todo' = [todo EXCEPT ![t] = @ \ {n}]
          /\ wrote' = [wrote EXCEPT ![t] = TRUE]
          /\ pc' = [pc EXCEPT ![t] = IF todo[t] = {n} THEN "ready" ELSE "insert"]
          /\ UNCHANGED <<task, goal, drain>>
       \/ /\ EnqueueRaises(n)
          /\ Raise(t)
          /\ UNCHANGED tables
  /\ UNCHANGED <<inputs, history>>

\* _tick, on_node_completed and reconcile_run after _process_ready returned.
AfterProcessReady(t) ==
  /\ At(t, "after")
  /\ \/ /\ task[t] \in {"start", "reconcile", "redrive"} /\ wrote[t]
        /\ CallUpdateRun(t, task[t], "running") /\ UNCHANGED drain
     \/ task[t] = "start" /\ ~ wrote[t] /\ Return(t)
     \/ /\ task[t] \in {"event", "answer"} /\ AllSatisfied
        /\ CallUpdateRun(t, task[t], "completed") /\ UNCHANGED drain
     \/ task[t] \in {"event", "answer"} /\ ~ AllSatisfied /\ Return(t)
     \/ task[t] = "reconcile" /\ ~ wrote[t] /\ Goto(t, "delete") /\ UNCHANGED drain
     \/ /\ task[t] = "redrive" /\ ~ wrote[t]
        /\ CallUpdateRun(t, task[t], "failed") /\ UNCHANGED drain
  /\ UNCHANGED <<tables, inputs, history>>

\* update_run asks nothing of the status it overwrites; it waits for the lock
\* on the row.
UpdateRunRow(t) ==
  /\ At(t, "update")
  /\ ~ runLock
  /\ UpdateRun(goal[t])
  /\ Return(t)
  /\ UNCHANGED <<inputs, history>>

-----------------------------------------------------------------------------
(* NodePool._tick, the dispatch thread.                                    *)

D == "dispatch"

\* _assert_gpu_nodes_declare_model
GpuNodesDeclareModel == ~ rejected

\* start_run: a workflow with a gpu node that declares no model is failed.
Expand ==
  /\ At(D, "tick")
  /\ \/ run = "queued" /\ ~ GpuNodesDeclareModel /\ CallUpdateRun(D, "start", "failed")
     \/ run = "queued" /\ GpuNodesDeclareModel /\ CallProcessReady(D, "start")
     \/ run # "queued" /\ Goto(D, "drain")
  /\ UNCHANGED <<tables, drain, inputs, history>>

SelectEvents ==
  /\ At(D, "drain")
  /\ batch' = outbox
  /\ Goto(D, "event")
  /\ UNCHANGED <<tables, current, done, bumped, runLock, attempts, inputs, history>>

\* ORDER BY created_at: of two events the one retried more often is older, and
\* so is the one about the older row of the same node.
Oldest(ev) ==
  \A other \in batch : /\ Attempts(other) <= Attempts(ev)
                       /\ other.node = ev.node => ev.id <= other.id

\* The callback of the next event reads the run first: nothing more is done
\* for a cancelled or failed one.
CallBack ==
  /\ At(D, "event")
  /\ \E ev \in batch :
       /\ Oldest(ev)
       /\ batch' = batch \ {ev}
       /\ \/ /\ run \in {"cancelled", "failed"} \/ ev.kind = "awaiting_input"
             /\ done' = done \cup {ev} /\ UNCHANGED current
             /\ Goto(D, "event")
          \/ /\ run \notin {"cancelled", "failed"} /\ ev.kind = "completed"
             /\ current' = ev /\ UNCHANGED done
             /\ CallProcessReady(D, "event")
          \/ /\ run \notin {"cancelled", "failed"} /\ ev.kind = "failed"
             /\ current' = ev /\ UNCHANGED done
             /\ pc' = [pc EXCEPT ![D] = "siblings"]
             /\ task' = [task EXCEPT ![D] = "event"]
             /\ UNCHANGED <<todo, wrote, goal>>
       /\ specs' = IF /\ ev.kind = "awaiting_input" /\ run \notin {"cancelled", "failed"}
                      /\ status[ev.node] = "awaiting_input"
                   THEN specs \cup {[node |-> ev.node, id |-> rowId[ev.node]]}
                   ELSE specs
  /\ UNCHANGED <<tables, bumped, runLock, attempts, sub, answer, history>>

\* on_node_failed: first the siblings, then the run.
CancelSiblingsAfterFailure ==
  /\ At(D, "siblings")
  /\ CancelQueuedJobs
  /\ CallUpdateRun(D, "event", "failed")
  /\ UNCHANGED <<drain, inputs, history>>

\* The drain's transaction commits.
CommitDrain ==
  /\ At(D, "event")
  /\ batch = {}
  /\ ProcessEvents(done, IF runLock THEN "failed" ELSE run)
  /\ attempts' = [ev \in (DOMAIN attempts \cup bumped) \ done |->
                    Attempts(ev) + (IF ev \in bumped THEN 1 ELSE 0)]
  /\ done' = {} /\ bumped' = {} /\ runLock' = FALSE
  /\ Goto(D, "leases")
  /\ UNCHANGED <<batch, current, inputs, history>>

\* The sweeps are gated by timers: a tick runs them or not.
SweepExpiredLeases ==
  /\ At(D, "leases")
  /\ ReclaimExpiredLeases \/ UNCHANGED tables
  /\ Goto(D, "orphans")
  /\ UNCHANGED <<drain, inputs, history>>

SweepOrphanQueuedJobs ==
  /\ At(D, "orphans")
  /\ CancelOrphanedQueuedJobs \/ UNCHANGED tables
  /\ Goto(D, "stuck")
  /\ UNCHANGED <<drain, inputs, history>>

StuckWhileQueued == run = "queued" /\ \A n \in Node : status[n] \notin Live

\* list_stuck_node_run_ids, and the same test again in reconcile_run.
Stuck == run \in {"queued", "running"} /\ \A n \in Node : status[n] \notin Live

SweepStuckRuns ==
  /\ At(D, "stuck")
  /\ \/ Stuck /\ AllSatisfied /\ CallUpdateRun(D, "reconcile", "completed")
     \/ Stuck /\ ~ AllSatisfied /\ CallProcessReady(D, "reconcile")
  /\ UNCHANGED <<tables, drain, inputs, history>>

NoStuckSweep ==
  /\ At(D, "stuck")
  /\ Goto(D, "tick")
  /\ UNCHANGED <<tables, drain, inputs, history>>

\* reconcile_run found nothing ready: drop the dead rows, expand again.
DropDeadRows ==
  /\ At(D, "delete")
  /\ DeleteNonTerminalJobs
  /\ IF \E n \in Node : status[n] \notin Satisfied \cup {"absent"}
       THEN CallProcessReady(D, "redrive")
       ELSE CallUpdateRun(D, "redrive", "failed")
  /\ UNCHANGED <<drain, inputs, history>>

-----------------------------------------------------------------------------
(* InputListener, the input thread.                                        *)

I == "input"

\* Claim a pending submission, or one whose claimant died ('processing' with
\* an old claimed_at).
ClaimPending ==
  /\ At(I, "poll")
  /\ \E n \in Input :
       /\ sub[n] \in {"pending", "processing"}
       /\ sub' = [sub EXCEPT ![n] = "processing"]
       /\ answer' = [node |-> n, id |-> 0]
  /\ pc' = [pc EXCEPT ![I] = "lookup"]
  /\ task' = [task EXCEPT ![I] = "answer"]
  /\ UNCHANGED <<tables, todo, wrote, goal, drain, specs, history>>

LookupOnlyWithSpec ==
  LET n == answer.node IN
  /\ At(I, "lookup")
  /\ IF [node |-> n, id |-> rowId[n]] \in specs
       THEN answer' = [answer EXCEPT !.id = rowId[n]] /\ Goto(I, "mark") /\ UNCHANGED drain
       ELSE UNCHANGED answer /\ Return(I)
  /\ UNCHANGED <<tables, sub, specs, history>>

\* resume_after_input: no row raises KeyError, a row that is neither parked
\* nor queued makes it return at once.
LookupInputJob ==
  LET n == answer.node IN
  /\ At(I, "lookup")
  /\ \/ status[n] = "absent" /\ Raise(I) /\ UNCHANGED answer
     \/ status[n] \notin {"absent", "awaiting_input", "queued"} /\ Return(I) /\ UNCHANGED answer
     \/ /\ status[n] \in {"awaiting_input", "queued"}
        /\ answer' = [answer EXCEPT !.id = rowId[n]]
        /\ Goto(I, "mark") /\ UNCHANGED drain
  /\ UNCHANGED <<tables, sub, specs, history>>

MarkInputWithEvent ==
  /\ At(I, "mark")
  /\ MarkCompletedAndEvent(answer.node, answer.id) \/ UNCHANGED tables
  /\ Goto(I, "cascade")
  /\ UNCHANGED <<drain, inputs, history>>

MarkInputCompleted ==
  /\ At(I, "mark")
  /\ IF Markable(answer.node, answer.id) THEN MarkCompleted(answer.node, answer.id)
                                         ELSE UNCHANGED tables
  /\ Goto(I, "cascade")
  /\ UNCHANGED <<drain, inputs, history>>

\* on_node_completed, called directly: there is no event to retry it.
CascadeInput ==
  /\ At(I, "cascade")
  /\ \/ run \in {"cancelled", "failed"} /\ Return(I)
     \/ run \notin {"cancelled", "failed"} /\ CallProcessReady(I, "answer") /\ UNCHANGED drain
  /\ UNCHANGED <<tables, inputs, history>>

\* _mark_processed or _mark_failed.
SettleSubmission ==
  /\ At(I, "settle")
  /\ sub' = [sub EXCEPT ![answer.node] = goal[I]]
  /\ answer' = NoAnswer
  /\ EndTask(I, "poll", "queued")
  /\ UNCHANGED <<tables, drain, specs, history>>

-----------------------------------------------------------------------------
(* The process: start, failing statements, crash.                          *)

\* main: the runs, the jobs and the leases are recovered, in this order,
\* before the threads start.
ReenqueueRunningForResume ==
  /\ At(D, "down")
  /\ UpdateRun(IF run = "running" THEN "queued" ELSE run)
  /\ Goto(D, "boot_jobs")
  /\ UNCHANGED <<drain, inputs, history>>

ReclaimJobsAtBoot ==
  /\ At(D, "boot_jobs")
  /\ \E stale \in SUBSET Host : ReclaimAllRunningForResume(stale)
  /\ Goto(D, "boot_leases")
  /\ UNCHANGED <<drain, inputs, history>>

AwaitRecovery ==
  /\ At(D, "boot_leases")
  /\ ReclaimExpiredLeases
  /\ pc' = [t \in Thread |-> IF t = D THEN "tick" ELSE "poll"]
  /\ UNCHANGED <<task, todo, wrote, goal, drain, inputs, history>>

\* A statement of a task raises (database unreachable, connection lost).
StatementFails(t) ==
  /\ pc[t] \in SharedPc \cup {"siblings", "delete", "lookup", "mark", "cascade"}
  /\ Raise(t)
  /\ mishaps' = mishaps + 1
  /\ UNCHANGED <<tables, inputs, rejected, cancelled>>

\* main logs a recovery statement that fails, and goes on.
BootStatementFails ==
  /\ \/ At(D, "down") /\ Goto(D, "boot_jobs")
     \/ At(D, "boot_jobs") /\ Goto(D, "boot_leases")
  /\ UNCHANGED <<tables, drain, inputs, history>>

RollBackDrain ==
  /\ batch' = {} /\ done' = {} /\ bumped' = {} /\ runLock' = FALSE
  /\ current' = NoEvent
  /\ UNCHANGED attempts

DrainFails ==
  /\ At(D, "event")
  /\ RollBackDrain
  /\ Goto(D, "leases")
  /\ mishaps' = mishaps + 1
  /\ UNCHANGED <<tables, inputs, rejected, cancelled>>

CrashOrchestrator ==
  /\ ~ At(D, "down")
  /\ pc' = [t \in Thread |-> "down"]
  /\ task' = [t \in Thread |-> "none"]
  /\ todo' = [t \in Thread |-> {}]
  /\ wrote' = [t \in Thread |-> FALSE]
  /\ goal' = [t \in Thread |-> "queued"]
  /\ RollBackDrain
  /\ answer' = NoAnswer
  /\ mishaps' = mishaps + 1
  /\ UNCHANGED <<tables, sub, specs, rejected, cancelled>>

-----------------------------------------------------------------------------
(* The others: workers, users, the host application.                       *)

WorkersAndClock ==
  /\ \E n \in Node : WorkerCall(n) \/ LeaseLapse(n)
  /\ UNCHANGED <<threads, drain, inputs, history>>

\* The host's cancel is an UPDATE of the run's status, nothing more.
HostCancels ==
  /\ run \in {"queued", "running"}
  /\ ~ runLock
  /\ UpdateRun("cancelled")
  /\ cancelled' = TRUE
  /\ UNCHANGED <<threads, drain, inputs, rejected, mishaps>>

UserAnswers(n) ==
  /\ status[n] = "awaiting_input"
  /\ sub[n] \notin {"pending", "processing"}
  /\ sub' = [sub EXCEPT ![n] = "pending"]
  /\ UNCHANGED <<tables, threads, drain, answer, specs, history>>

ProcessReadyStep(t) ==
  ReadReady(t) \/ InsertReady(t) \/ AfterProcessReady(t) \/ UpdateRunRow(t)

DispatchStep ==
  \/ ProcessReadyStep(D)
  \/ Expand \/ SelectEvents \/ CallBack \/ CancelSiblingsAfterFailure \/ CommitDrain
  \/ SweepExpiredLeases \/ SweepOrphanQueuedJobs \/ SweepStuckRuns \/ NoStuckSweep
  \/ DropDeadRows
  \/ ReenqueueRunningForResume \/ ReclaimJobsAtBoot \/ AwaitRecovery

InputStep ==
  \/ ProcessReadyStep(I)
  \/ ClaimPending \/ LookupInputJob \/ MarkInputCompleted \/ CascadeInput \/ SettleSubmission

Mishap ==
  (\E t \in Thread : StatementFails(t)) \/ BootStatementFails \/ DrainFails \/ CrashOrchestrator

DispatcherNext ==
  \/ DispatchStep
  \/ InputStep
  \/ Mishap
  \/ WorkersAndClock
  \/ HostCancels
  \/ \E n \in Input : UserAnswers(n)

DispatcherSpec == DispatcherInit /\ [][DispatcherNext]_dispatcherVars

\* The two threads never stop; the gated sweeps run again and again; a row
\* that can be claimed is claimed, and a row that is claimed again and again
\* is finished or parked in the end; users answer.
ClaimStep(n) == \E h \in Host : ClaimNextJob(n, h)
FinishStep(n) ==
  \/ n \notin Input /\ touched[n] /\ (MarkCompletedAndEvent(n, rowId[n]) \/ MarkFailedAndEvent(n, rowId[n]))
  \/ n \in Input /\ touched[n] /\ MarkAwaitingInputAndEvent(n, rowId[n])

DispatcherFairness ==
  /\ WF_dispatcherVars(DispatchStep)
  /\ WF_dispatcherVars(InputStep)
  /\ SF_dispatcherVars(SweepStuckRuns)
  /\ \A n \in Node \ Broken :
       /\ SF_dispatcherVars(ClaimStep(n) /\ UNCHANGED <<threads, drain, inputs, history>>)
       /\ SF_dispatcherVars(status[n] = "running" /\ FinishStep(n)
                              /\ UNCHANGED <<threads, drain, inputs, history>>)
  /\ \A n \in Input : WF_dispatcherVars(UserAnswers(n))

DispatcherFairSpec == DispatcherSpec /\ DispatcherFairness

-----------------------------------------------------------------------------
(* Properties.                                                             *)

(* No node has a row unless every node it depends on is completed or       *)
(* skipped, whichever of start_run, a replayed callback, the input thread  *)
(* or a reconcile that races them inserted it.                             *)
RowsFollowTheirDependencies ==
  \A n \in Node : status[n] # "absent" => \A d \in Deps[n] : status[d] \in Satisfied

(* A run that says completed has every node completed or skipped, although *)
(* the check and the write of on_node_completed are two transactions.      *)
CompletedRunIsComplete ==
  run = "completed" => \A n \in Node : status[n] \in Satisfied

(* reconcile_run and resume preserve completed work: a completed or        *)
(* skipped row is never deleted, re-queued or inserted again.              *)
CompletedWorkIsKept ==
  [][\A n \in Node : status[n] \in Satisfied
       => status'[n] = status[n] /\ rowId'[n] = rowId[n]]_dispatcherVars

(* A submission that is marked processed was applied: its input node is    *)
(* completed, in spite of crashes between the mark, the cascade and the    *)
(* settling, and of answers claimed twice.  It is stated of the first row  *)
(* of the node: reconcile_run may delete a row between the answer and its  *)
(* application, and resume_after_input then returns without a word for the *)
(* fresh row a worker has claimed, so that its answer counts as processed. *)
FirstRow(n) == rowId[n] = 1 /\ status[n] # "absent"
ProcessedAnswersAreApplied ==
  \A n \in Input : sub[n] = "processed" /\ FirstRow(n) => status[n] = "completed"

(* Every run ends, in spite of crashes between any two statements, lost    *)
(* cascades, events replayed after a rolled-back drain, and callbacks that *)
(* raise until their event is poisonous.                                   *)
RunEventuallyEnds ==
  run \in {"queued", "running"} ~> run \in Terminal

(* tests/test_invariant_cancel.py: no node-job goes to running once the    *)
(* run has been cancelled.                                                 *)
NoJobStartsAfterCancel ==
  [][\A n \in Node : status[n] # "running" /\ status'[n] = "running" => ~ cancelled]_dispatcherVars

(* reconcile_run drops cancelled and failed rows, and backs off when the   *)
(* run has a live job after all: it deletes no live row.                   *)
ReconcileSparesLiveRows ==
  [][\A n \in Node : status'[n] = "absent" => status[n] \notin Live]_dispatcherVars

(* _drain_dispatch_events: the callbacks do not deadlock against the locks *)
(* its transaction holds.                                                  *)
CallbacksNeverWaitForTheDrain ==
  ~ (runLock /\ At(D, "update"))
=============================================================================
