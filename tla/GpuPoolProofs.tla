--------------------------- MODULE GpuPoolProofs ----------------------------
(***************************************************************************)
(* Proofs about GpuPool on the Redis scripts: for any number of tasks,     *)
(* queues, workers, crashes, lapsed leases and operator re-queues, no task *)
(* is lost between the hash and the sorted sets; and until a task is put   *)
(* back under a live worker, the counters match, a task runs on one worker *)
(* and ends once, and every script is a step of the storage port.          *)
(*                                                                         *)
(* The invariant says of each task that was not displaced (Undisplaced)    *)
(* that whoever holds it finds it running, and that it has a waiting       *)
(* member, a single one, only while it is queued.  CLAIM needs this most:  *)
(* the script does not read the status of the job it pops.                 *)
(***************************************************************************)
EXTENDS GpuPool, FiniteSetTheorems, TLAPS

\* The rows of a queue in one status, and the rows there are.
Rows(q, s) == {j \in Job : QueueOf[j] = q /\ status[j] = s}
Known == {j \in Job : status[j] # "absent"}

\* NoTaskIsLost, of one task: whoever looks for it in its sorted set finds it.
Found(j) ==
  /\ status[j] = "queued" => \E m \in waiting[QueueOf[j]] : m[2] = j
  /\ (status[j] = "running") = (j \in running)

\* What holds of a task until it is displaced.
Undisplaced(j) ==
  /\ \A w \in Worker : task[w] = j => status[j] = "running"
  /\ \A v, w \in Worker : task[v] = j /\ task[w] = j => v = w
  /\ \A q \in Queue : \A m \in waiting[q] : m[2] = j => q = QueueOf[j] /\ status[j] = "queued"
  /\ \A m, n \in waiting[QueueOf[j]] : m[2] = j /\ n[2] = j => m = n
  /\ events[j] = IF status[j] \in Terminal THEN <<status[j]>> ELSE <<>>
  /\ answer[j] \in Terminal => status[j] = answer[j]

\* The counters of counts(), while they can be relied on.
CountersInv ==
  displaced = {} => \A q \in Queue : \A s \in Counted : cnt[q][s] = Cardinality(Rows(q, s))

PoolInv ==
  /\ PoolTypeOK
  /\ \A j \in Job : Found(j)
  /\ IsFiniteSet(Known)
  /\ \A j \in Job \ displaced : Undisplaced(j)
  /\ CountersInv
-----------------------------------------------------------------------------
\* What the proofs use of the constants, apart from the order of a worker's queues.
LEMMA PoolConstants ==
  /\ QueueOf \in [Job -> Queue] /\ PriorityOf \in [Job -> Int]
  /\ MaxFaults \in Nat /\ NoTask \notin Job /\ NoWorker \notin Worker
BY GpuPoolAssumption, Zenon

\* A script that leaves a task's row, its members and its place in the running
\* set alone leaves it found.
LEMMA FoundFrame ==
  ASSUME NEW k \in Job, Found(k), status'[k] = status[k], (k \in running') = (k \in running),
         \A m \in waiting[QueueOf[k]] : m[2] = k => m \in waiting'[QueueOf[k]]
  PROVE  Found(k)'
  BY Zenon DEF Found

\* A step that leaves a task's row and events alone, gives it to nobody and adds
\* no member of it keeps what holds of it.
LEMMA UndisplacedFrame ==
  ASSUME NEW k \in Job, Undisplaced(k), status'[k] = status[k], events'[k] = events[k],
         answer'[k] \in Terminal => answer'[k] \in {answer[k], status[k]},
         \A w \in Worker : task'[w] = k => task[w] = k,
         \A q \in Queue : \A m \in waiting'[q] : m[2] = k => m \in waiting[q]
  PROVE  Undisplaced(k)'
<1> USE PoolConstants
<1>1. QueueOf[k] \in Queue
  OBVIOUS
<1> QED
  BY <1>1, Zenon DEF Undisplaced

\* The jobs S of the queue q move from one status to another.
Moves(q, S, old, new) ==
  /\ old # new /\ new # "absent"
  /\ S \subseteq Rows(q, old) /\ IsFiniteSet(S)
  /\ \A j \in Job : status'[j] = IF j \in S THEN new ELSE status[j]

\* When jobs move, as many of the rows that counts() counts do.
LEMMA CountMove ==
  ASSUME IsFiniteSet(Known), NEW q, NEW S, NEW old, NEW new, Moves(q, S, old, new), NEW r, NEW s, s # "absent"
  PROVE  /\ Cardinality(Rows(r, s)) \in Nat /\ Cardinality(S) \in Nat
         /\ r = q /\ s = old => Cardinality(Rows(r, s)') = Cardinality(Rows(r, s)) - Cardinality(S)
         /\ r = q /\ s = new => Cardinality(Rows(r, s)') = Cardinality(Rows(r, s)) + Cardinality(S)
         /\ ~ (r = q /\ s \in {old, new}) => Cardinality(Rows(r, s)') = Cardinality(Rows(r, s))
<1> USE DEF Moves
<1>1. IsFiniteSet(Rows(r, s)) /\ Cardinality(Rows(r, s)) \in Nat /\ Cardinality(S) \in Nat
  <2>1. Rows(r, s) \subseteq Known
    BY Zenon DEF Rows, Known
  <2>2. IsFiniteSet(Rows(r, s))
    BY <2>1, FS_Subset, Zenon
  <2> QED
    BY <2>2, FS_CardinalityType, Zenon
<1>2. CASE r = q /\ s = old
  <2>1. Rows(r, s)' = Rows(r, s) \ S /\ Rows(r, s) \cap S = S
    BY <1>2, Zenon DEF Rows
  <2>2. Cardinality(Rows(r, s)') = Cardinality(Rows(r, s)) - Cardinality(S)
    BY <2>1, <1>1, FS_Difference, Zenon
  <2> QED
    BY <1>1, <1>2, <2>2, Zenon
<1>3. CASE r = q /\ s = new
  <2>1. Rows(r, s)' = Rows(r, s) \cup S /\ Rows(r, s) \cap S = {}
    BY <1>3, Zenon DEF Rows
  <2>2. Cardinality(Rows(r, s)') = Cardinality(Rows(r, s)) + Cardinality(S)
    BY <2>1, <1>1, FS_Union, FS_EmptySet
  <2> QED
    BY <1>1, <1>3, <2>2, Zenon
<1>4. CASE ~ (r = q /\ s \in {old, new})
  <2>1. Rows(r, s)' = Rows(r, s)
    BY <1>4, Zenon DEF Rows
  <2> QED
    BY <1>1, <1>4, <2>1
<1> QED
  BY <1>2, <1>3, <1>4

\* One job's row moves and its script moves the counters along.
LEMMA RecountKeeps ==
  ASSUME PoolTypeOK, IsFiniteSet(Known), CountersInv, displaced \subseteq displaced',
         NEW j \in Job, NEW old, NEW new \in Counted,
         status' = [status EXCEPT ![j] = new], Recount(j, old, new),
         displaced' = {} => status[j] = old /\ old # new
  PROVE  IsFiniteSet(Known') /\ CountersInv' /\ cnt' \in [Queue -> [Counted -> Int]]
<1> USE PoolConstants
<1>1. QueueOf[j] \in Queue /\ cnt \in [Queue -> [Counted -> Int]]
  BY Zenon DEF PoolTypeOK
<1> DEFINE q == QueueOf[j]
<1>2. \A r \in Queue : \A s \in Counted :
        cnt'[r][s] = cnt[r][s] - (IF r = q /\ s = old THEN 1 ELSE 0) + (IF r = q /\ s = new THEN 1 ELSE 0)
  BY <1>1 DEF Recount
<1>3. cnt' \in [Queue -> [Counted -> Int]]
  BY <1>1 DEF Recount
<1>4. IsFiniteSet(Known')
  <2>1. IsFiniteSet(Known \cup {j})
    BY FS_AddElement, Zenon
  <2>2. Known' \subseteq Known \cup {j}
    BY Zenon DEF Known, PoolTypeOK
  <2> QED
    BY <2>1, <2>2, FS_Subset
<1>5. CountersInv'
  <2> SUFFICES ASSUME displaced' = {}, NEW r \in Queue, NEW s \in Counted
               PROVE  cnt'[r][s] = Cardinality(Rows(r, s)')
    BY Zenon DEF CountersInv
  <2>1. cnt[r][s] = Cardinality(Rows(r, s)) /\ status[j] = old /\ old # new
    BY Zenon DEF CountersInv
  <2> DEFINE S == {j}
  <2>2. s # "absent" /\ new # "absent" /\ IsFiniteSet(S) /\ Cardinality(S) = 1
    BY FS_Singleton, Zenon DEF Counted, Terminal
  <2>3. Moves(q, S, old, new)
    BY <2>1, <2>2, Zenon DEF Rows, Moves, PoolTypeOK
  <2> HIDE DEF q, S
  <2>4. /\ Cardinality(Rows(r, s)) \in Nat
        /\ r = q /\ s = old => Cardinality(Rows(r, s)') = Cardinality(Rows(r, s)) - Cardinality(S)
        /\ r = q /\ s = new => Cardinality(Rows(r, s)') = Cardinality(Rows(r, s)) + Cardinality(S)
        /\ ~ (r = q /\ s \in {old, new}) => Cardinality(Rows(r, s)') = Cardinality(Rows(r, s))
    BY <2>2, <2>3, CountMove
  <2> QED
    BY <1>2, <2>1, <2>2, <2>4
<1> QED
  BY <1>3, <1>4, <1>5
-----------------------------------------------------------------------------
\* An empty namespace and idle workers.
LEMMA PoolInitInv ==
  PoolInit => PoolInv
<1> SUFFICES ASSUME PoolInit PROVE PoolInv
  OBVIOUS
<1> USE PoolConstants
<1>1. /\ status = [j \in Job |-> "absent"] /\ claimedBy = [j \in Job |-> NoWorker]
      /\ seq = [q \in Queue |-> 0] /\ waiting = [q \in Queue |-> {}] /\ running = {} /\ lapsed = {}
      /\ cnt = [q \in Queue |-> [s \in Counted |-> 0]] /\ events = [j \in Job |-> <<>>]
      /\ task = [w \in Worker |-> NoTask] /\ turn = [w \in Worker |-> 1]
      /\ answer = [j \in Job |-> "none"] /\ displaced = {} /\ faults = 0
  BY Zenon DEF PoolInit, RedisInit
<1>2. PoolTypeOK
  <2>1. \A w \in Worker : 1 \in DOMAIN Serves[w]
    BY GpuPoolAssumption
  <2> QED
    BY <1>1, <2>1 DEF PoolTypeOK, Counted
<1>3. Known = {} /\ IsFiniteSet(Known)
  BY <1>1, FS_EmptySet, Zenon DEF Known
<1>4. \A j \in Job : Found(j) /\ Undisplaced(j)
  BY <1>1 DEF Found, Undisplaced, Terminal
<1>5. CountersInv
  <2> SUFFICES ASSUME NEW q \in Queue, NEW s \in Counted PROVE cnt[q][s] = Cardinality(Rows(q, s))
    BY Zenon DEF CountersInv
  <2>1. Rows(q, s) = {} /\ cnt[q][s] = 0
    BY <1>1, Zenon DEF Rows, Counted, Terminal
  <2> QED
    BY <2>1, FS_EmptySet, Zenon
<1> QED
  BY <1>2, <1>3, <1>4, <1>5, Zenon DEF PoolInv

\* A step that moves no row and no member: a poll, a renewal, a lease that runs
\* out, a crash, a look at an empty queue, the end of a displaced run.
LEMMA RowsStay ==
  ASSUME PoolInv, PoolTypeOK',
         UNCHANGED <<status, waiting, running, cnt, events, displaced>>,
         \A k \in Job : answer'[k] \in Terminal => answer'[k] \in {answer[k], status[k]},
         \A k \in Job : \A w \in Worker : task'[w] = k => task[w] = k
  PROVE  PoolInv'
<1>1. \A k \in Job : Found(k)'
  BY Zenon DEF PoolInv, Found
<1>2. ASSUME NEW k \in Job \ displaced' PROVE Undisplaced(k)'
  <2>1. Undisplaced(k)
    BY <1>2, Zenon DEF PoolInv
  <2> QED
    BY <2>1, <1>2, UndisplacedFrame, Zenon
<1>3. IsFiniteSet(Known') /\ CountersInv'
  BY DEF PoolInv, Known, CountersInv, Rows
<1> QED
  BY <1>1, <1>2, <1>3, Zenon DEF PoolInv

\* The polls of await_pool_result, a renewal, a lapse.
LEMMA PollStep ==
  ASSUME PoolInv, NEW j \in Job,
         \/ await_pool_result(j) \/ AwaitTimeout(j) \/ Lapse(j)
         \/ \E w \in Worker : renew_pool_lease(j, w)
  PROVE  PoolInv'
<1> USE PoolConstants
<1>0. PoolTypeOK /\ Found(j)
  BY Zenon DEF PoolInv
<1>1. ASSUME await_pool_result(j) \/ AwaitTimeout(j) PROVE PoolInv'
  <2>1. /\ UNCHANGED <<status, claimedBy, seq, waiting, running, lapsed, cnt, events>>
        /\ UNCHANGED <<task, turn, displaced, faults>>
    BY <1>1, Zenon DEF await_pool_result, AwaitTimeout, redis
  <2>2. /\ answer' \in [Job -> {"none", "waiting", "timeout"} \cup Terminal]
        /\ \A k \in Job : answer'[k] \in Terminal => answer'[k] \in {answer[k], status[k]}
    BY <1>0, <1>1, Zenon DEF await_pool_result, AwaitTimeout, PoolTypeOK, Terminal
  <2>3. PoolTypeOK'
    BY <1>0, <2>1, <2>2, Zenon DEF PoolTypeOK
  <2> QED
    BY <2>1, <2>2, <2>3, RowsStay
<1>2. ASSUME Lapse(j) PROVE PoolInv'
  <2>1. /\ UNCHANGED <<status, claimedBy, seq, waiting, running, cnt, events>>
        /\ UNCHANGED <<task, turn, answer, displaced>>
        /\ lapsed' = lapsed \cup {j} /\ j \in running /\ faults' \in 0..MaxFaults
    BY <1>0, <1>2 DEF Lapse, PoolTypeOK
  <2>2. PoolTypeOK'
    BY <1>0, <2>1 DEF PoolTypeOK
  <2> QED
    BY <2>1, <2>2, RowsStay
<1>3. ASSUME NEW w \in Worker, renew_pool_lease(j, w) PROVE PoolInv'
  <2>1. /\ UNCHANGED <<status, claimedBy, seq, waiting, cnt, events>>
        /\ UNCHANGED <<task, turn, answer, displaced, faults>>
        /\ lapsed' = lapsed \ {j} /\ running' = running \cup {j} /\ status[j] = "running"
    BY <1>3, Zenon DEF renew_pool_lease, RENEW
  <2>2. running' = running
    BY <1>0, <2>1, Zenon DEF Found
  <2>3. PoolTypeOK'
    BY <1>0, <2>1, <2>2, Zenon DEF PoolTypeOK
  <2> QED
    BY <2>1, <2>2, <2>3, RowsStay, Zenon
<1> QED
  BY <1>1, <1>2, <1>3, Zenon

\* A worker process dies: its task stays running until its lease runs out.
LEMMA CrashStep ==
  ASSUME PoolInv, NEW w \in Worker, Crash(w)
  PROVE  PoolInv'
<1> USE PoolConstants
<1>0. PoolTypeOK
  BY Zenon DEF PoolInv
<1>1. /\ UNCHANGED <<status, claimedBy, seq, waiting, running, lapsed, cnt, events>>
      /\ UNCHANGED <<turn, answer, displaced>>
      /\ task' = [task EXCEPT ![w] = NoTask] /\ faults' \in 0..MaxFaults
  BY <1>0 DEF Crash, redis, PoolTypeOK
<1>2. /\ task' \in [Worker -> Job \cup {NoTask}]
      /\ \A k \in Job : \A v \in Worker : task'[v] = k => task[v] = k
  BY <1>0, <1>1 DEF PoolTypeOK
<1>3. PoolTypeOK'
  BY <1>0, <1>1, <1>2, Zenon DEF PoolTypeOK
<1> QED
  BY <1>1, <1>2, <1>3, RowsStay, Zenon

\* ENQUEUE: the new task has one member and nobody holds it.
LEMMA SubmitStep ==
  ASSUME PoolInv, NEW j \in Job, submit_pool_task(j)
  PROVE  PoolInv'
<1> USE PoolConstants
<1>0. PoolTypeOK /\ QueueOf[j] \in Queue
  BY Zenon DEF PoolInv
<1> DEFINE q == QueueOf[j]
           n == <<seq[q] + 1, j>>
<1>1. /\ status[j] = "absent" /\ status' = [status EXCEPT ![j] = "queued"]
      /\ seq' = [seq EXCEPT ![q] = @ + 1] /\ waiting' = [waiting EXCEPT ![q] = @ \cup {n}]
      /\ Recount(j, "absent", "queued")
      /\ answer' = [answer EXCEPT ![j] = "waiting"]
      /\ UNCHANGED <<claimedBy, running, lapsed, events>> /\ UNCHANGED <<task, turn, displaced, faults>>
  BY Zenon DEF submit_pool_task, ENQUEUE, ZAdd
<1>2. IsFiniteSet(Known') /\ CountersInv' /\ cnt' \in [Queue -> [Counted -> Int]]
  <2>1. "queued" \in Counted /\ displaced \subseteq displaced' /\ IsFiniteSet(Known) /\ CountersInv
    BY <1>1, Zenon DEF Counted, PoolInv
  <2> QED
    BY <1>0, <1>1, <2>1, RecountKeeps, Zenon
<1>3. /\ \A k \in Job \ {j} : status'[k] = status[k] /\ answer'[k] = answer[k]
      /\ status'[j] = "queued" /\ answer'[j] = "waiting"
      /\ waiting'[q] = waiting[q] \cup {n} /\ \A p \in Queue \ {q} : waiting'[p] = waiting[p]
  BY <1>0, <1>1 DEF PoolTypeOK
<1>4. PoolTypeOK'
  <2>1. /\ status' \in [Job -> {"absent"} \cup Counted]
        /\ seq' \in [Queue -> Nat] /\ waiting' \in [Queue -> SUBSET (Nat \X Job)]
        /\ answer' \in [Job -> {"none", "waiting", "timeout"} \cup Terminal]
    <3>1. n \in Nat \X Job
      BY <1>0 DEF PoolTypeOK
    <3>2. waiting' \in [Queue -> SUBSET (Nat \X Job)]
      <4> HIDE DEF n, q
      <4> QED BY <3>1, <1>0, <1>1, Zenon DEF PoolTypeOK
    <3> QED
      BY <3>2, <1>0, <1>1 DEF PoolTypeOK, Counted
  <2> QED
    BY <1>0, <1>1, <1>2, <2>1 DEF PoolTypeOK
<1>5. ASSUME NEW k \in Job PROVE Found(k)'
  <2>0. Found(k)
    BY Zenon DEF PoolInv
  <2>1. CASE k = j
    <3>1. n \in waiting'[q] /\ n[2] = j
      BY <1>3, Zenon
    <3>2. j \notin running'
      BY <2>0, <2>1, <1>1, Zenon DEF Found
    <3>3. (status'[j] = "running") = (j \in running')
      BY <3>2, <1>3
    <3> QED
      BY <2>1, <3>1, <3>3, Zenon DEF Found
  <2>2. CASE k # j
    <3>1. \A m \in waiting[QueueOf[k]] : m \in waiting'[QueueOf[k]]
      BY <1>3, Zenon
    <3> QED
      BY <2>0, <2>2, <3>1, <1>1, <1>3, FoundFrame
  <2> QED
    BY <2>1, <2>2, Zenon
<1>6. ASSUME NEW k \in Job \ displaced' PROVE Undisplaced(k)'
  <2>0. Undisplaced(k)
    BY <1>1, <1>6, Zenon DEF PoolInv
  <2>1. CASE k = j
    <3>1. \A p \in Queue : \A m \in waiting[p] : m[2] # j
      BY <2>0, <2>1, <1>1, Zenon DEF Undisplaced
    <3>2. \A p \in Queue : \A m \in waiting'[p] : m[2] = j => p = q /\ m = n
      BY <3>1, <1>3
    <3>3. \A w \in Worker : task'[w] # j
      BY <2>0, <2>1, <1>1 DEF Undisplaced
    <3>4. events'[j] = <<>> /\ status'[j] \notin Terminal /\ answer'[j] \notin Terminal
      BY <2>0, <2>1, <1>1, <1>3 DEF Undisplaced, Terminal
    <3> QED
      BY <2>1, <3>2, <3>3, <3>4, <1>0, <1>3 DEF Undisplaced
  <2>2. CASE k # j
    <3>0. n[2] = j
      OBVIOUS
    <3>1. \A p \in Queue : \A m \in waiting'[p] : m[2] = k => m \in waiting[p]
      <4> HIDE DEF n, q
      <4> QED BY <2>2, <3>0, <1>3, Zenon
    <3> QED
      BY <2>0, <2>2, <3>1, <1>1, <1>3, UndisplacedFrame
  <2> QED
    BY <2>1, <2>2, Zenon
<1> QED
  BY <1>2, <1>4, <1>5, <1>6 DEF PoolInv

\* The queue that claim_pool_task tries is one of those the worker serves.
LEMMA TurnTyped ==
  ASSUME PoolTypeOK, NEW w \in Worker
  PROVE  /\ turn \in [Worker -> Nat] /\ \A v \in Worker : turn[v] \in DOMAIN Serves[v]
         /\ Serves[w] \in Seq(Queue) /\ Len(Serves[w]) \in Nat \ {0}
         /\ Serves[w][turn[w]] \in Queue
<1>1. turn \in [Worker -> Nat] /\ \A v \in Worker : turn[v] \in DOMAIN Serves[v]
  BY Zenon DEF PoolTypeOK
<1>2. Serves[w] \in Seq(Queue) /\ Serves[w] # <<>>
  BY GpuPoolAssumption, Zenon
<1>3. Len(Serves[w]) \in Nat \ {0}
  BY <1>2
<1>4. Serves[w][turn[w]] \in Queue
  BY <1>1, <1>2
<1> QED
  BY <1>1, <1>2, <1>3, <1>4, Zenon

\* CLAIM: a popped member of a task that was not displaced is its only one, and
\* the task is queued and held by nobody, though the script does not ask.
LEMMA ClaimStep ==
  ASSUME PoolInv, NEW w \in Worker, claim_pool_task(w)
  PROVE  PoolInv'
<1> USE PoolConstants
<1> DEFINE q == Serves[w][turn[w]]
<1>0. /\ PoolTypeOK /\ q \in Queue /\ Serves[w] \in Seq(Queue) /\ Len(Serves[w]) \in Nat \ {0}
      /\ turn \in [Worker -> Nat] /\ \A v \in Worker : turn[v] \in DOMAIN Serves[v]
  BY TurnTyped, Zenon DEF PoolInv
<1>a. UNCHANGED <<answer, displaced, faults>>
  BY Zenon DEF claim_pool_task
<1>1. ASSUME turn' = [turn EXCEPT ![w] = 1 + (@ % Len(Serves[w]))], UNCHANGED <<redis, task>>
      PROVE  PoolInv'
  <2>1. Len(Serves[w]) \in Nat \ {0} /\ turn[w] \in Nat
    BY <1>0, Zenon
  <2>2. 1 + (turn[w] % Len(Serves[w])) \in 1..Len(Serves[w])
    BY <2>1
  <2>3. turn' \in [Worker -> Nat] /\ \A v \in Worker : turn'[v] \in DOMAIN Serves[v]
    <3>1. 1 + (turn[w] % Len(Serves[w])) \in Nat /\ 1 + (turn[w] % Len(Serves[w])) \in DOMAIN Serves[w]
      BY <1>0, <2>1, <2>2
    <3> QED
      BY <1>0, <1>1, <3>1
  <2>4. UNCHANGED <<status, claimedBy, seq, waiting, running, lapsed, cnt, events>>
    BY <1>1, Zenon DEF redis
  <2>5. PoolTypeOK'
    <3>1. PoolTypeOK /\ task' = task
      BY <1>0, <1>1, Zenon
    <3>. QED
      BY ONLY <1>a, <2>3, <2>4, <3>1, Zenon DEF PoolTypeOK
  <2> QED
    BY <1>1, <1>a, <2>4, <2>5, RowsStay
<1>2. ASSUME NEW m \in waiting[q], CLAIM(q, m, w), task' = [task EXCEPT ![w] = m[2]],
             turn' = [turn EXCEPT ![w] = 1]
      PROVE  PoolInv'
  <2> DEFINE j == m[2]
  <2>0. j \in Job /\ task[w] = NoTask
    BY <1>0 DEF PoolTypeOK, claim_pool_task
  <2>1. /\ status' = [status EXCEPT ![j] = "running"] /\ claimedBy' = [claimedBy EXCEPT ![j] = w]
        /\ running' = running \cup {j} /\ lapsed' = lapsed \ {j}
        /\ Recount(j, "queued", "running") /\ waiting' = [waiting EXCEPT ![q] = @ \ {m}]
        /\ seq' = seq /\ events' = events
    BY <1>2, Zenon DEF CLAIM
  <2> HIDE DEF q
  <2>2. j \notin displaced => Undisplaced(j) /\ q = QueueOf[j] /\ status[j] = "queued"
    BY <2>0, <1>0 DEF PoolInv, Undisplaced
  <2>3. IsFiniteSet(Known') /\ CountersInv' /\ cnt' \in [Queue -> [Counted -> Int]]
    <3>1. "running" \in Counted /\ displaced \subseteq displaced' /\ IsFiniteSet(Known) /\ CountersInv
      BY <1>a, Zenon DEF Counted, PoolInv
    <3>2. displaced' = {} => status[j] = "queued" /\ "queued" # "running"
      BY <2>2, <1>a
    <3> HIDE DEF j
    <3> QED
      BY <1>0, <2>0, <2>1, <3>1, <3>2, RecountKeeps, Zenon
  <2> HIDE DEF j
  <2>4. /\ \A k \in Job \ {j} : status'[k] = status[k]
        /\ status'[j] = "running"
        /\ waiting'[q] = waiting[q] \ {m} /\ \A p \in Queue \ {q} : waiting'[p] = waiting[p]
        /\ task'[w] = j /\ \A v \in Worker \ {w} : task'[v] = task[v]
    <3>1. /\ j \in DOMAIN status /\ q \in DOMAIN waiting /\ w \in DOMAIN task
          /\ DOMAIN status = Job /\ DOMAIN waiting = Queue /\ DOMAIN task = Worker
      BY <1>0, <2>0 DEF PoolTypeOK
    <3>2. task' = [task EXCEPT ![w] = j]
      BY <1>2, Zenon DEF j
    <3>. QED
      BY ONLY <2>1, <3>1, <3>2, Zenon
  <2>5. PoolTypeOK'
    <3>1. /\ status' \in [Job -> {"absent"} \cup Counted] /\ claimedBy' \in [Job -> Worker \cup {NoWorker}]
          /\ waiting' \in [Queue -> SUBSET (Nat \X Job)]
      BY <1>0, <2>0, <2>1 DEF PoolTypeOK, Counted
    <3>a. task' \in [Worker -> Job \cup {NoTask}]
      BY <1>0, <1>2, <2>0 DEF PoolTypeOK, j
    <3>b. 1 \in Nat /\ 1 \in DOMAIN Serves[w]
      BY <1>0
    <3>c. turn' \in [Worker -> Nat] /\ \A v \in Worker : turn'[v] \in DOMAIN Serves[v]
      BY <1>0, <1>2, <3>b
    <3>2. /\ task' \in [Worker -> Job \cup {NoTask}]
          /\ turn' \in [Worker -> Nat] /\ \A v \in Worker : turn'[v] \in DOMAIN Serves[v]
      BY <3>a, <3>c
    <3> QED
      BY <1>0, <1>a, <2>0, <2>1, <2>3, <3>1, <3>2, Zenon DEF PoolTypeOK
  <2>6. ASSUME NEW k \in Job PROVE Found(k)'
    <3>0. Found(k)
      BY Zenon DEF PoolInv
    <3>1. CASE k = j
      <4>1. (status'[j] = "running") = (j \in running') /\ status'[j] # "queued"
        BY <2>1, <2>4, Zenon
      <4> QED
        BY <3>1, <4>1, Zenon DEF Found
    <3>2. CASE k # j
      <4>1. \A n \in waiting[QueueOf[k]] : n[2] = k => n \in waiting'[QueueOf[k]]
        BY <3>2, <2>4 DEF j
      <4>2. (k \in running') = (k \in running)
        BY <3>2, <2>1
      <4> QED
        BY <3>0, <3>2, <4>1, <4>2, <2>4, FoundFrame
    <3> QED
      BY <3>1, <3>2
  <2>7. ASSUME NEW k \in Job \ displaced' PROVE Undisplaced(k)'
    <3>0. Undisplaced(k)
      BY <1>a, <2>7, Zenon DEF PoolInv
    <3>1. CASE k = j
      <4>1. q = QueueOf[j] /\ status[j] = "queued"
        BY <2>2, <2>7, <3>1, <1>a
      <4>2. \A v \in Worker : task'[v] = j => v = w
        BY <3>0, <3>1, <4>1, <2>4 DEF Undisplaced
      <4>3. \A p \in Queue : \A n \in waiting'[p] : n[2] # j
        <5> SUFFICES ASSUME NEW p \in Queue, NEW n \in waiting'[p], n[2] = j PROVE FALSE
          OBVIOUS
        <5>1. n \in waiting[p] /\ p = q
          BY <3>0, <3>1, <4>1, <2>4 DEF Undisplaced
        <5>2. n = m
          BY <3>0, <3>1, <4>1, <5>1 DEF Undisplaced, j
        <5> QED
          BY <5>1, <5>2, <2>4, Zenon
      <4>4. events'[j] = <<>> /\ status'[j] \notin Terminal /\ answer'[j] \notin Terminal
        BY <3>0, <3>1, <4>1, <2>1, <2>4, <1>a DEF Undisplaced, Terminal
      <4> QED
        BY <3>1, <4>2, <4>3, <4>4, <2>4, <1>0 DEF Undisplaced
    <3>2. CASE k # j
      <4>1. \A p \in Queue : \A n \in waiting'[p] : n[2] = k => n \in waiting[p]
        BY <2>4, Zenon
      <4>2. \A v \in Worker : task'[v] = k => task[v] = k
        BY <3>2, <2>4
      <4> QED
        BY <3>0, <3>2, <4>1, <4>2, <2>1, <2>4, <1>a, UndisplacedFrame
    <3> QED
      BY <3>1, <3>2, Zenon
  <2> QED
    BY <2>3, <2>5, <2>6, <2>7 DEF PoolInv
<1> QED
  BY <1>1, <1>2, Zenon DEF claim_pool_task

\* TERMINAL: the holder of a task that was not displaced ends it, once.
LEMMA ExecuteStep ==
  ASSUME PoolInv, NEW w \in Worker, execute_pool_task(w)
  PROVE  PoolInv'
<1> USE PoolConstants
<1> DEFINE j == task[w]
<1>0. PoolTypeOK /\ j \in Job /\ QueueOf[j] \in Queue
  BY Zenon DEF PoolInv, PoolTypeOK, execute_pool_task
<1>a. task' = [task EXCEPT ![w] = NoTask] /\ UNCHANGED <<turn, answer, displaced, faults>>
  BY Zenon DEF execute_pool_task
<1>b. /\ task' \in [Worker -> Job \cup {NoTask}]
      /\ \A k \in Job : \A v \in Worker : task'[v] = k => task[v] = k /\ v # w
  BY <1>0, <1>a, Zenon DEF PoolTypeOK
<1>1. ASSUME UNCHANGED redis PROVE PoolInv'
  <2>1. UNCHANGED <<status, claimedBy, seq, waiting, running, lapsed, cnt, events>>
    BY <1>1, Zenon DEF redis
  <2>2. PoolTypeOK'
    BY <1>0, <1>a, <1>b, <2>1, Zenon DEF PoolTypeOK
  <2> QED
    BY <1>a, <1>b, <2>1, <2>2, RowsStay, Zenon
<1>2. ASSUME NEW s \in Terminal, TERMINAL(j, s) PROVE PoolInv'
  <2>1. /\ status[j] \notin Terminal \cup {"absent"} /\ status' = [status EXCEPT ![j] = s]
        /\ running' = running \ {j} /\ lapsed' = lapsed \ {j} /\ Recount(j, status[j], s)
        /\ events' = [events EXCEPT ![j] = Append(@, s)]
        /\ UNCHANGED <<claimedBy, seq, waiting>>
    BY <1>2, Zenon DEF TERMINAL
  <2>2. j \notin displaced => Undisplaced(j) /\ status[j] = "running"
    BY <1>0, Zenon DEF PoolInv, Undisplaced
  <2>9. \A v \in Worker : j \notin displaced /\ task[v] = j => v = w
    BY <2>2, Zenon DEF Undisplaced
  <2> HIDE DEF j
  <2>3. IsFiniteSet(Known') /\ CountersInv' /\ cnt' \in [Queue -> [Counted -> Int]]
    <3>1. s \in Counted /\ displaced \subseteq displaced' /\ IsFiniteSet(Known) /\ CountersInv
      BY <1>a, Zenon DEF Counted, PoolInv
    <3>2. status[j] = status[j] /\ status[j] # s
      BY <2>1, Zenon
    <3> QED
      BY <1>0, <2>1, <3>1, <3>2, RecountKeeps, Zenon
  <2>4. /\ \A k \in Job \ {j} : status'[k] = status[k] /\ events'[k] = events[k]
        /\ status'[j] = s /\ events'[j] = Append(events[j], s)
    BY <1>0, <2>1 DEF PoolTypeOK
  <2>5. PoolTypeOK'
    <3>1. status' \in [Job -> {"absent"} \cup Counted] /\ events' \in [Job -> Seq(Terminal)]
      BY <1>0, <2>1 DEF PoolTypeOK, Counted
    <3> QED
      BY <1>0, <1>a, <1>b, <2>1, <2>3, <3>1 DEF PoolTypeOK
  <2>6. ASSUME NEW k \in Job PROVE Found(k)'
    <3>0. Found(k)
      BY Zenon DEF PoolInv
    <3>1. CASE k = j
      <4>1. j \notin running' /\ status'[j] # "running" /\ status'[j] # "queued"
        BY <2>1, <2>4, Zenon DEF Terminal
      <4>2. (status'[j] = "running") = (j \in running')
        BY <4>1
      <4> QED
        BY <3>1, <4>1, <4>2 DEF Found
    <3>2. CASE k # j
      <4>1. (k \in running') = (k \in running)
        BY <3>2, <2>1
      <4> QED
        BY <3>0, <3>2, <4>1, <2>1, <2>4, FoundFrame
    <3> QED
      BY <3>1, <3>2, Zenon
  <2>7. ASSUME NEW k \in Job \ displaced' PROVE Undisplaced(k)'
    <3>0. Undisplaced(k)
      BY <1>a, <2>7, Zenon DEF PoolInv
    <3>1. CASE k = j
      <4>0. j \notin displaced /\ status[j] = "running"
        BY <2>2, <2>7, <3>1, <1>a, Zenon
      <4>1. \A v \in Worker : task'[v] # j
        BY <1>0, <1>b, <2>9, <4>0
      <4>2. \A p \in Queue : \A n \in waiting'[p] : n[2] # j
        BY <3>0, <3>1, <4>0, <2>1, Zenon DEF Undisplaced
      <4>3. events[j] = <<>> /\ answer'[j] \notin Terminal
        BY <3>0, <3>1, <4>0, <1>a DEF Undisplaced, Terminal
      <4>4. events'[j] = <<s>>
        BY <4>3, <2>4
      <4> QED
        BY <3>1, <4>1, <4>2, <4>3, <4>4, <2>4, <1>0, <1>2 DEF Undisplaced
    <3>2. CASE k # j
      BY <3>0, <3>2, <1>a, <1>b, <2>1, <2>4, UndisplacedFrame
    <3> QED
      BY <3>1, <3>2
  <2> QED
    BY <2>3, <2>5, <2>6, <2>7, Zenon DEF PoolInv
<1> QED
  BY <1>1, <1>2, Zenon DEF execute_pool_task

\* REQUEUE: a task that is put back without being displaced was running, so it
\* had no member, and nobody holds it.
LEMMA RequeueStep ==
  ASSUME PoolInv, NEW j \in Job, requeue_for_retry(j)
  PROVE  PoolInv'
<1> USE PoolConstants
<1> DEFINE q == QueueOf[j]
           n == <<seq[q] + 1, j>>
<1>0. PoolTypeOK /\ q \in Queue
  BY Zenon DEF PoolInv
<1>1. /\ status[j] \notin Terminal \cup {"absent"} /\ status' = [status EXCEPT ![j] = "queued"]
      /\ claimedBy' = [claimedBy EXCEPT ![j] = NoWorker]
      /\ running' = running \ {j} /\ lapsed' = lapsed \ {j}
      /\ seq' = [seq EXCEPT ![q] = @ + 1] /\ waiting' = [waiting EXCEPT ![q] = @ \cup {n}]
      /\ Recount(j, status[j], "queued") /\ events' = events
      /\ UNCHANGED <<task, turn, answer>>
  BY Zenon DEF requeue_for_retry, REQUEUE, ZAdd
<1>a. faults' \in 0..MaxFaults
  BY <1>0 DEF requeue_for_retry, PoolTypeOK
<1>b. /\ displaced \subseteq displaced' /\ displaced' \subseteq displaced \cup {j}
      /\ j \notin displaced' => status[j] # "queued" /\ \A w \in Worker : task[w] # j
  BY Zenon DEF requeue_for_retry, Held
<1>2. IsFiniteSet(Known') /\ CountersInv' /\ cnt' \in [Queue -> [Counted -> Int]]
  <2>1. "queued" \in Counted /\ IsFiniteSet(Known) /\ CountersInv
    BY Zenon DEF Counted, PoolInv
  <2>2. displaced' = {} => status[j] = status[j] /\ status[j] # "queued"
    BY <1>b, Zenon
  <2> QED
    BY <1>0, <1>1, <1>b, <2>1, <2>2, RecountKeeps, Zenon
<1>3. /\ \A k \in Job \ {j} : status'[k] = status[k]
      /\ status'[j] = "queued"
      /\ waiting'[q] = waiting[q] \cup {n} /\ \A p \in Queue \ {q} : waiting'[p] = waiting[p]
  BY <1>0, <1>1, Zenon DEF PoolTypeOK
<1>4. PoolTypeOK'
  <2>1. n \in Nat \X Job /\ seq' \in [Queue -> Nat]
    BY <1>0, <1>1 DEF PoolTypeOK
  <2>2. waiting' \in [Queue -> SUBSET (Nat \X Job)]
    <3>1. waiting \in [Queue -> SUBSET (Nat \X Job)] /\ waiting' = [waiting EXCEPT ![q] = @ \cup {n}]
      BY <1>0, <1>1, Zenon DEF PoolTypeOK
    <3> HIDE DEF n, q
    <3> QED BY <2>1, <1>0, <3>1
  <2>3. status' \in [Job -> {"absent"} \cup Counted] /\ claimedBy' \in [Job -> Worker \cup {NoWorker}]
    BY <1>0, <1>1 DEF PoolTypeOK, Counted
  <2>4. lapsed' \subseteq running' /\ running' \subseteq Job /\ displaced' \subseteq Job
    BY <1>0, <1>1, <1>b DEF PoolTypeOK
  <2> QED
    BY <1>0, <1>1, <1>2, <1>a, <2>1, <2>2, <2>3, <2>4, Zenon DEF PoolTypeOK
<1>5. ASSUME NEW k \in Job PROVE Found(k)'
  <2>0. Found(k)
    BY Zenon DEF PoolInv
  <2>1. CASE k = j
    <3>1. n \in waiting'[q] /\ n[2] = j
      BY <1>3, Zenon
    <3>2. (status'[j] = "running") = (j \in running')
      BY <1>1, <1>3
    <3> QED
      BY <2>1, <3>1, <3>2, Zenon DEF Found
  <2>2. CASE k # j
    <3>1. \A m \in waiting[QueueOf[k]] : m \in waiting'[QueueOf[k]]
      BY <1>3, Zenon
    <3>2. (k \in running') = (k \in running)
      BY <2>2, <1>1
    <3> QED
      BY <2>0, <2>2, <3>1, <3>2, <1>3, FoundFrame
  <2> QED
    BY <2>1, <2>2, Zenon
<1>6. ASSUME NEW k \in Job \ displaced' PROVE Undisplaced(k)'
  <2>0. Undisplaced(k)
    BY <1>b, <1>6 DEF PoolInv
  <2>1. CASE k = j
    <3>1. \A p \in Queue : \A m \in waiting[p] : m[2] # j
      BY <2>0, <2>1, <1>6, <1>b DEF Undisplaced
    <3>2. \A p \in Queue : \A m \in waiting'[p] : m[2] = j => p = q /\ m = n
      BY <3>1, <1>3
    <3>3. \A w \in Worker : task'[w] # j
      BY <2>1, <1>1, <1>6, <1>b
    <3>4. events'[j] = <<>> /\ status'[j] \notin Terminal /\ answer'[j] \notin Terminal
      BY <2>0, <2>1, <1>1, <1>3 DEF Undisplaced, Terminal
    <3> QED
      BY <2>1, <3>2, <3>3, <3>4, <1>0, <1>3 DEF Undisplaced
  <2>2. CASE k # j
    <3>0. n[2] = j
      OBVIOUS
    <3>1. \A p \in Queue : \A m \in waiting'[p] : m[2] = k => m \in waiting[p]
      <4> HIDE DEF n, q
      <4> QED BY <2>2, <3>0, <1>3
    <3> QED
      BY <2>0, <2>2, <3>1, <1>1, <1>3, UndisplacedFrame
  <2> QED
    BY <2>1, <2>2, Zenon
<1> QED
  BY <1>2, <1>4, <1>5, <1>6, Zenon DEF PoolInv

\* What one queue of the sweep does: the jobs it takes all ran, their rows and
\* counters move, and each gets one new member.
Swept(q, S) ==
  /\ S # {} /\ S \subseteq lapsed /\ Moves(q, S, "running", "queued")
  /\ status' = [j \in Job |-> IF j \in S THEN "queued" ELSE status[j]]
  /\ claimedBy' = [j \in Job |-> IF j \in S THEN NoWorker ELSE claimedBy[j]]
  /\ running' = running \ S /\ lapsed' = lapsed \ S /\ events' = events
  /\ seq' = [seq EXCEPT ![q] = @ + Cardinality(S)]
  /\ \E nth \in [S -> Nat] : waiting' = [waiting EXCEPT ![q] = @ \cup {<<seq[q] + nth[j], j>> : j \in S}]
  /\ cnt' = [cnt EXCEPT ![q]["running"] = @ - Cardinality(S), ![q]["queued"] = @ + Cardinality(S)]

\* RECLAIM does that: what is in the running set past its score is running.
LEMMA ReclaimSweeps ==
  ASSUME PoolInv, NEW q \in Queue, RECLAIM(q)
  PROVE  \E S \in SUBSET Job : Swept(q, S)
<1>1. PICK expired \in (SUBSET {j \in lapsed : QueueOf[j] = q}) \ {{}} :
        LET back == {j \in expired : status[j] = "running"}
        IN  /\ running' = running \ back /\ lapsed' = lapsed \ back
            /\ status' = [j \in Job |-> IF j \in back THEN "queued" ELSE status[j]]
            /\ claimedBy' = [j \in Job |-> IF j \in back THEN NoWorker ELSE claimedBy[j]]
            /\ ZAddAll(q, back)
            /\ cnt' = [cnt EXCEPT ![q]["running"] = @ - Cardinality(back),
                                  ![q]["queued"] = @ + Cardinality(back)]
            /\ UNCHANGED events
  BY Zenon DEF RECLAIM
<1>2. expired \in SUBSET Job /\ \A j \in expired : status[j] = "running" /\ QueueOf[j] = q
  BY Zenon DEF PoolInv, PoolTypeOK, Found
<1>3. {j \in expired : status[j] = "running"} = expired
  BY <1>2, Zenon
<1>4. /\ running' = running \ expired /\ lapsed' = lapsed \ expired
      /\ status' = [j \in Job |-> IF j \in expired THEN "queued" ELSE status[j]]
      /\ claimedBy' = [j \in Job |-> IF j \in expired THEN NoWorker ELSE claimedBy[j]]
      /\ ZAddAll(q, expired)
      /\ cnt' = [cnt EXCEPT ![q]["running"] = @ - Cardinality(expired),
                            ![q]["queued"] = @ + Cardinality(expired)]
      /\ events' = events
  BY <1>1, <1>3, Zenon
<1>5. Moves(q, expired, "running", "queued")
  <2>1. expired \subseteq Rows(q, "running") /\ expired \subseteq Known
    BY <1>2, Zenon DEF Rows, Known
  <2>2. IsFiniteSet(expired)
    BY <2>1, FS_Subset, Zenon DEF PoolInv
  <2> QED
    BY <1>4, <2>1, <2>2, Zenon DEF Moves
<1>6. /\ seq' = [seq EXCEPT ![q] = @ + Cardinality(expired)]
      /\ \E nth \in [expired -> Nat] :
           waiting' = [waiting EXCEPT ![q] = @ \cup {<<seq[q] + nth[j], j>> : j \in expired}]
  <2>1. PICK nth \in Bijection(expired, 1..Cardinality(expired)) :
           waiting' = [waiting EXCEPT ![q] = @ \cup {<<seq[q] + nth[j], j>> : j \in expired}]
    BY <1>4, Zenon DEF ZAddAll
  <2>2. nth \in [expired -> Nat]
    BY DEF Bijection, Injection
  <2> QED
    BY <1>4, <2>1, <2>2, Zenon DEF ZAddAll
<1>7. expired # {} /\ expired \subseteq lapsed
  OBVIOUS
<1> QED
  BY <1>2, <1>4, <1>5, <1>6, <1>7, Zenon DEF Swept

\* The sweep of one queue: what it takes and does not displace was held by
\* nobody and had no member.
LEMMA ReclaimStep ==
  ASSUME PoolInv, NEW q \in Queue, reclaim_expired_pool_leases(q)
  PROVE  PoolInv'
<1> USE PoolConstants
<1>0. PoolTypeOK
  BY Zenon DEF PoolInv
<1>1. PICK S \in SUBSET Job : Swept(q, S)
  BY ReclaimSweeps, Zenon DEF reclaim_expired_pool_leases
<1>2. PICK nth \in [S -> Nat] : waiting' = [waiting EXCEPT ![q] = @ \cup {<<seq[q] + nth[j], j>> : j \in S}]
  BY <1>1, Zenon DEF Swept
<1> DEFINE N == {<<seq[q] + nth[j], j>> : j \in S}
<1>3. /\ S \subseteq Rows(q, "running") /\ IsFiniteSet(S) /\ Cardinality(S) \in Nat
      /\ Moves(q, S, "running", "queued") /\ \A j \in S : QueueOf[j] = q /\ status[j] = "running"
  BY <1>1, FS_CardinalityType, Zenon DEF Swept, Moves, Rows
<1>4. /\ \A k \in Job : status'[k] = IF k \in S THEN "queued" ELSE status[k]
      /\ running' = running \ S /\ lapsed' = lapsed \ S /\ events' = events
      /\ claimedBy' = [j \in Job |-> IF j \in S THEN NoWorker ELSE claimedBy[j]]
      /\ status' = [j \in Job |-> IF j \in S THEN "queued" ELSE status[j]]
      /\ seq' = [seq EXCEPT ![q] = @ + Cardinality(S)]
  BY <1>1, Zenon DEF Swept
<1>5. waiting'[q] = waiting[q] \cup N /\ \A p \in Queue \ {q} : waiting'[p] = waiting[p]
  BY <1>0, <1>2 DEF PoolTypeOK
<1>6. UNCHANGED <<task, turn, answer, faults>>
  BY Zenon DEF reclaim_expired_pool_leases
<1>7. /\ displaced \subseteq displaced' /\ displaced' \subseteq Job
      /\ \A j \in S : j \notin displaced' => \A w \in Worker : task[w] # j
  BY <1>0, <1>3, <1>4 DEF reclaim_expired_pool_leases, Held, PoolTypeOK
<1>n. /\ N \subseteq Nat \X Job
      /\ \A m \in N : m[2] \in S
      /\ \A j \in S : <<seq[q] + nth[j], j>> \in N
      /\ \A m \in N : \A j \in S : m[2] = j => m = <<seq[q] + nth[j], j>>
  BY <1>0 DEF PoolTypeOK
<1> HIDE DEF N
<1>8. PoolTypeOK'
  <2>1. status' \in [Job -> {"absent"} \cup Counted] /\ claimedBy' \in [Job -> Worker \cup {NoWorker}]
    BY <1>0, <1>4, Zenon DEF PoolTypeOK, Counted
  <2>2. seq' \in [Queue -> Nat] /\ waiting' \in [Queue -> SUBSET (Nat \X Job)]
    <3>1. seq \in [Queue -> Nat] /\ waiting \in [Queue -> SUBSET (Nat \X Job)]
      BY <1>0, Zenon DEF PoolTypeOK
    <3>2. seq' \in [Queue -> Nat]
      BY <3>1, <1>3, <1>4
    <3>3. N \subseteq Nat \X Job
      BY <1>n, Zenon
    <3>4. waiting' = [waiting EXCEPT ![q] = @ \cup N]
      BY <1>2, Zenon DEF N
    <3> QED
      BY <3>1, <3>2, <3>3, <3>4
  <2>3. cnt' \in [Queue -> [Counted -> Int]]
    <3>1. cnt' = [cnt EXCEPT ![q]["running"] = @ - Cardinality(S), ![q]["queued"] = @ + Cardinality(S)]
      BY <1>1, Zenon DEF Swept
    <3>2. cnt \in [Queue -> [Counted -> Int]] /\ "running" \in Counted /\ "queued" \in Counted
      BY <1>0, Zenon DEF PoolTypeOK, Counted
    <3> QED
      BY <3>1, <3>2, <1>3
  <2>4. lapsed' \subseteq running' /\ running' \subseteq Job
    BY <1>0, <1>4 DEF PoolTypeOK
  <2> QED
    BY <1>0, <1>4, <1>6, <1>7, <2>1, <2>2, <2>3, <2>4 DEF PoolTypeOK
<1>9. ASSUME NEW k \in Job PROVE Found(k)'
  <2>0. Found(k)
    BY Zenon DEF PoolInv
  <2>1. CASE k \in S
    <3>1. <<seq[q] + nth[k], k>> \in waiting'[QueueOf[k]]
      BY <2>1, <1>3, <1>5, <1>n, Zenon
    <3>2. \E m \in waiting'[QueueOf[k]] : m[2] = k
      BY <3>1, Zenon
    <3>3. (status'[k] = "running") = (k \in running')
      BY <2>1, <1>4
    <3> QED
      BY <3>2, <3>3 DEF Found
  <2>2. CASE k \notin S
    <3>1. \A m \in waiting[QueueOf[k]] : m \in waiting'[QueueOf[k]]
      BY <1>5, Zenon
    <3>2. (k \in running') = (k \in running)
      BY <2>2, <1>4
    <3> QED
      BY <2>0, <2>2, <3>1, <3>2, <1>4, FoundFrame
  <2> QED
    BY <2>1, <2>2, Zenon
<1>10. ASSUME NEW k \in Job \ displaced' PROVE Undisplaced(k)'
  <2>0. Undisplaced(k)
    BY <1>7, <1>10, Zenon DEF PoolInv
  <2>1. CASE k \in S
    <3>1. \A p \in Queue : \A m \in waiting[p] : m[2] # k
      BY <2>0, <2>1, <1>3, Zenon DEF Undisplaced
    <3> DEFINE g == <<seq[q] + nth[k], k>>
    <3>2. \A p \in Queue : \A m \in waiting'[p] : m[2] = k => p = q /\ m = g
      BY <2>1, <3>1, <1>5, <1>n
    <3>3. \A w \in Worker : task'[w] # k
      BY <2>1, <1>6, <1>7, <1>10
    <3>4. events'[k] = <<>> /\ status'[k] = "queued" /\ status'[k] \notin Terminal /\ answer'[k] \notin Terminal
      BY <2>0, <2>1, <1>3, <1>4, <1>6 DEF Undisplaced, Terminal
    <3>5. QueueOf[k] = q
      BY <2>1, <1>3
    <3> HIDE DEF g
    <3> QED
      BY <3>2, <3>3, <3>4, <3>5 DEF Undisplaced
  <2>2. CASE k \notin S
    <3>1. \A p \in Queue : \A m \in waiting'[p] : m[2] = k => m \in waiting[p]
      BY <2>2, <1>5, <1>n
    <3> QED
      BY <2>0, <2>2, <3>1, <1>4, <1>6, UndisplacedFrame
  <2> QED
    BY <2>1, <2>2
<1>11. IsFiniteSet(Known')
  <2>1. Known' \subseteq Known
    BY <1>3, <1>4, Zenon DEF Known
  <2> QED
    BY <2>1, FS_Subset, Zenon DEF PoolInv
<1>12. CountersInv'
  <2> SUFFICES ASSUME displaced' = {}, NEW r \in Queue, NEW s \in Counted
               PROVE  cnt'[r][s] = Cardinality(Rows(r, s)')
    BY Zenon DEF CountersInv
  <2>1. cnt[r][s] = Cardinality(Rows(r, s)) /\ IsFiniteSet(Known) /\ s # "absent"
    BY <1>7, Zenon DEF CountersInv, PoolInv, Counted, Terminal
  <2>2. /\ Cardinality(Rows(r, s)) \in Nat
        /\ r = q /\ s = "running" => Cardinality(Rows(r, s)') = Cardinality(Rows(r, s)) - Cardinality(S)
        /\ r = q /\ s = "queued" => Cardinality(Rows(r, s)') = Cardinality(Rows(r, s)) + Cardinality(S)
        /\ ~ (r = q /\ s \in {"running", "queued"}) => Cardinality(Rows(r, s)') = Cardinality(Rows(r, s))
    <3>1. Moves(q, S, "running", "queued") /\ "running" # "queued"
      BY <1>3, Zenon
    <3> HIDE PoolConstants
    <3> QED
      BY ONLY <2>1, <3>1, CountMove
  <2>3. /\ r = q /\ s = "running" => cnt'[r][s] = cnt[r][s] - Cardinality(S)
        /\ r = q /\ s = "queued" => cnt'[r][s] = cnt[r][s] + Cardinality(S)
        /\ ~ (r = q /\ s \in {"running", "queued"}) => cnt'[r][s] = cnt[r][s]
    <3>1. cnt \in [Queue -> [Counted -> Int]] /\ "running" \in Counted /\ "queued" \in Counted
      BY <1>0, Zenon DEF PoolTypeOK, Counted
    <3>2. cnt' = [cnt EXCEPT ![q]["running"] = @ - Cardinality(S), ![q]["queued"] = @ + Cardinality(S)]
      BY <1>1, Zenon DEF Swept
    <3> QED
      BY <3>1, <3>2, Zenon
  <2> QED
    BY <2>1, <2>2, <2>3, Zenon
<1> QED
  BY <1>8, <1>9, <1>10, <1>11, <1>12 DEF PoolInv

\* Every step of submitters, workers, sweeps and operators.
LEMMA PoolInvStep ==
  PoolInv /\ [PoolNext]_poolVars => PoolInv'
<1> SUFFICES ASSUME PoolInv, [PoolNext]_poolVars PROVE PoolInv'
  OBVIOUS
<1>1. CASE UNCHANGED poolVars
  <2>1. UNCHANGED <<status, claimedBy, seq, waiting, running, lapsed, cnt, events>>
        /\ UNCHANGED <<task, turn, answer, displaced, faults>>
    BY <1>1, Zenon DEF poolVars, redis
  <2>2. PoolTypeOK'
    BY <2>1, Zenon DEF PoolInv, PoolTypeOK
  <2> QED
    BY <2>1, <2>2, RowsStay, Zenon
<1> QED
  BY <1>1, SubmitStep, PollStep, RequeueStep, ClaimStep, ExecuteStep, CrashStep, ReclaimStep DEF PoolNext

\* The pool's invariant holds throughout.
THEOREM PoolInvariant ==
  PoolSpec => []PoolInv
  BY PoolInitInv, PoolInvStep, PTL DEF PoolSpec

\* No task is lost between its hash and the sorted sets, whatever crashed and
\* whatever was displaced: a queued task can be popped, and exactly the running
\* ones are in the set that reclaim_expired reads.
THEOREM TasksAreFound ==
  PoolSpec => []NoTaskIsLost
<1>1. PoolInv => NoTaskIsLost
  BY Zenon DEF PoolInv, NoTaskIsLost, Found
<1> QED
  BY <1>1, PoolInvariant, PTL

\* While nothing was displaced, the waiting members of a queue are one for each
\* of its queued rows.
LEMMA MembersMatchRows ==
  ASSUME PoolInv, displaced = {}, NEW q \in Queue
  PROVE  Cardinality(waiting[q]) = Cardinality(Rows(q, "queued"))
<1> DEFINE R == Rows(q, "queued")
           f == [j \in R |-> CHOOSE m \in waiting[q] : m[2] = j]
<1>1. \A j \in R : j \in Job /\ Found(j) /\ Undisplaced(j) /\ QueueOf[j] = q /\ status[j] = "queued"
  BY Zenon DEF Rows, PoolInv
<1>2. \A j \in R : \E m \in waiting[q] : m[2] = j
  BY <1>1, Zenon DEF Found
<1>3. \A j \in R : f[j] \in waiting[q] /\ f[j][2] = j
  BY <1>2, Zenon
<1>4. \A m \in waiting[q] : m[2] \in R
  <2> TAKE m \in waiting[q]
  <2>1. m[2] \in Job
    BY DEF PoolInv, PoolTypeOK
  <2>2. Undisplaced(m[2])
    BY <2>1, Zenon DEF PoolInv
  <2> QED
    BY <2>1, <2>2, Zenon DEF Undisplaced, Rows
<1>5. \A m \in waiting[q] : f[m[2]] = m
  <2> TAKE m \in waiting[q]
  <2> DEFINE j == m[2]
  <2>1. j \in R /\ Undisplaced(j) /\ QueueOf[j] = q
    BY <1>1, <1>4, Zenon
  <2>2. f[j] \in waiting[q] /\ f[j][2] = j
    BY <2>1, <1>3
  <2> HIDE DEF f
  <2> QED
    BY <2>1, <2>2, Zenon DEF Undisplaced
<1>6. f \in [R -> waiting[q]]
  BY <1>3, Zenon
<1> HIDE DEF f
<1>7. f \in Bijection(R, waiting[q])
  <2>1. \A i, j \in R : f[i] = f[j] => i = j
    BY <1>3, Zenon
  <2>2. \A m \in waiting[q] : \E j \in R : f[j] = m
    BY <1>4, <1>5, Zenon
  <2> QED
    BY <1>6, <2>1, <2>2 DEF Bijection, Injection, Surjection, IsInjective
<1>8. IsFiniteSet(R)
  <2>1. R \subseteq Known
    BY Zenon DEF Rows, Known
  <2> QED
    BY <2>1, FS_Subset, Zenon DEF PoolInv
<1> QED
  BY <1>7, <1>8, FS_Bijection, Zenon DEF ExistsBijection

\* Until a task is displaced, what counts() reports is the number of rows in each
\* status, and the sorted set has one member per queued row, for any number of
\* tasks and queues.
THEOREM CountersAreRight ==
  PoolSpec => []CountersMatchRows
<1>1. PoolInv => CountersMatchRows
  <2> SUFFICES ASSUME PoolInv, displaced = {}, NEW q \in Queue
               PROVE  /\ \A s \in Counted : cnt[q][s] = Cardinality(Rows(q, s))
                      /\ Cardinality(waiting[q]) = cnt[q]["queued"]
    BY Zenon DEF CountersMatchRows, Rows
  <2>1. \A s \in Counted : cnt[q][s] = Cardinality(Rows(q, s))
    BY Zenon DEF PoolInv, CountersInv
  <2>2. "queued" \in Counted
    BY Zenon DEF Counted
  <2> QED
    BY <2>1, <2>2, MembersMatchRows, Zenon
<1> QED
  BY <1>1, PoolInvariant, PTL

\* A task that was not put back under a live worker runs on one worker at a time,
\* ends once, and the answer await_pool_result gave stands.
THEOREM TasksRunAndEndOnce ==
  PoolSpec => []OneRunOneEnd
<1>1. PoolInv => OneRunOneEnd
  <2> SUFFICES ASSUME PoolInv, NEW j \in Job \ displaced
               PROVE  /\ Cardinality({w \in Worker : task[w] = j}) <= 1
                      /\ Len(events[j]) <= 1
                      /\ answer[j] \in Terminal => events[j] = <<answer[j]>> /\ status[j] = answer[j]
    BY Zenon DEF OneRunOneEnd
  <2>1. Undisplaced(j)
    BY Zenon DEF PoolInv
  <2>2. Cardinality({w \in Worker : task[w] = j}) <= 1
    <3> DEFINE H == {w \in Worker : task[w] = j}
    <3>1. CASE H = {}
      BY <3>1, FS_EmptySet
    <3>2. CASE H # {}
      <4>1. PICK w \in H : H = {w}
        BY <3>2, <2>1 DEF Undisplaced
      <4>2. Cardinality(H) = 1
        BY <4>1, FS_Singleton, Zenon
      <4> HIDE DEF H
      <4>3. Cardinality(H) <= 1
        BY <4>2
      <4> QED
        BY <4>3, Zenon DEF H
    <3> QED
      BY <3>1, <3>2, Zenon
  <2>3. Len(events[j]) <= 1
    BY <2>1 DEF Undisplaced
  <2>4. answer[j] \in Terminal => events[j] = <<answer[j]>> /\ status[j] = answer[j]
    BY <2>1, Zenon DEF Undisplaced
  <2> QED
    BY <2>2, <2>3, <2>4, Zenon
<1> QED
  BY <1>1, PoolInvariant, PTL
-----------------------------------------------------------------------------
\* The priority the port shows for a row.
PortPriority == [j \in Job |-> IF status[j] = "absent" THEN 0 ELSE PriorityOf[j]]

\* ENQUEUE is the port's enqueue.
LEMMA SubmitIsPortStep ==
  ASSUME PoolInv, NEW j \in Job, submit_pool_task(j)
  PROVE  Contract!StorageNext
<1>1. /\ status[j] = "absent" /\ status' = [status EXCEPT ![j] = "queued"]
      /\ UNCHANGED <<claimedBy, lapsed, events>>
  BY Zenon DEF submit_pool_task, ENQUEUE
<1>2. PortPriority' = [PortPriority EXCEPT ![j] = PriorityOf[j]]
  BY <1>1, Zenon DEF PortPriority, PoolInv, PoolTypeOK
<1>3. Contract!enqueue(j, PriorityOf[j])
  BY <1>1, <1>2, Zenon DEF Contract!enqueue, PortPriority
<1>4. PriorityOf[j] \in {PriorityOf[k] : k \in Job} \cup {0}
  OBVIOUS
<1> QED
  BY <1>3, <1>4, Zenon DEF Contract!StorageNext

\* CLAIM of a task that was not displaced is the port's claim: every queued task
\* has a member, so the member popped first is of the highest priority.
LEMMA ClaimIsPortStep ==
  ASSUME PoolInv, displaced = {}, NEW w \in Worker, claim_pool_task(w)
  PROVE  Contract!StorageNext \/ UNCHANGED Contract!rows
<1> USE PoolConstants
<1> DEFINE q == Serves[w][turn[w]]
<1>0. PoolTypeOK /\ q \in Queue
  BY TurnTyped, Zenon DEF PoolInv
<1>1. ASSUME UNCHANGED redis PROVE UNCHANGED Contract!rows
  BY <1>1, Zenon DEF redis, Contract!rows
<1>2. ASSUME NEW m \in waiting[q], CLAIM(q, m, w) PROVE Contract!StorageNext
  <2> DEFINE j == m[2]
  <2>1. /\ PopsFirst(q, m) /\ status' = [status EXCEPT ![j] = "running"]
        /\ claimedBy' = [claimedBy EXCEPT ![j] = w] /\ lapsed' = lapsed \ {j} /\ events' = events
    BY <1>2, Zenon DEF CLAIM
  <2> HIDE DEF q
  <2>2. j \in Job
    BY <1>0 DEF PoolTypeOK
  <2>3. q = QueueOf[j] /\ status[j] = "queued"
    <3>1. Undisplaced(j)
      BY <2>2, Zenon DEF PoolInv
    <3> QED
      BY <1>0, <3>1, Zenon DEF Undisplaced
  <2>4. lapsed' = lapsed
    <3>1. j \notin running
      BY <2>2, <2>3, Zenon DEF PoolInv, Found
    <3> QED
      BY <3>1, <2>1, <1>0 DEF PoolTypeOK
  <2>5. ASSUME NEW k \in Job, status[k] = "queued", QueueOf[k] = q
        PROVE  PriorityOf[k] <= PriorityOf[j]
    <3>1. PICK n \in waiting[q] : n[2] = k
      BY <2>5, Zenon DEF PoolInv, Found
    <3>2. PriorityOf[k] \in Int /\ PriorityOf[j] \in Int
      BY <2>2, Zenon
    <3> QED
      BY <2>1, <3>1, <3>2 DEF PopsFirst
  <2> HIDE DEF j
  <2>6. PortPriority' = PortPriority
    BY <1>0, <2>1, <2>2, <2>3 DEF PortPriority, PoolTypeOK
  <2>7. \A k \in Job : status[k] = "queued" /\ QueueOf[k] = QueueOf[j] => PortPriority[k] <= PortPriority[j]
    BY <2>2, <2>3, <2>5, Zenon DEF PortPriority
  <2>8. Contract!claim(j, w)
    BY <2>1, <2>2, <2>3, <2>4, <2>6, <2>7 DEF Contract!claim, Contract!Queued, PortPriority
  <2> QED
    BY <2>2, <2>8, Zenon DEF Contract!StorageNext
<1> QED
  BY <1>1, <1>2, Zenon DEF claim_pool_task

\* TERMINAL with an event is the port's, and a skipped run writes nothing.
LEMMA ExecuteIsPortStep ==
  ASSUME PoolInv, NEW w \in Worker, execute_pool_task(w)
  PROVE  Contract!StorageNext \/ UNCHANGED Contract!rows
<1> DEFINE j == task[w]
<1>0. PoolTypeOK /\ j \in Job
  BY Zenon DEF PoolInv, PoolTypeOK, execute_pool_task
<1>1. ASSUME UNCHANGED redis PROVE UNCHANGED Contract!rows
  BY <1>1, Zenon DEF redis, Contract!rows
<1>2. ASSUME NEW s \in Terminal, TERMINAL(j, s) PROVE Contract!StorageNext
  <2>1. /\ status[j] \notin Terminal \cup {"absent"} /\ status' = [status EXCEPT ![j] = s]
        /\ lapsed' = lapsed \ {j} /\ events' = [events EXCEPT ![j] = Append(@, s)] /\ claimedBy' = claimedBy
    BY <1>2, Zenon DEF TERMINAL
  <2> HIDE DEF j
  <2>2. status[j] \in {"queued", "running"}
    BY <1>0, <2>1, Zenon DEF PoolTypeOK, Counted
  <2>3. PortPriority' = PortPriority
    BY <1>0, <2>1, <1>2, Zenon DEF PortPriority, PoolTypeOK, Terminal
  <2>4. Contract!terminal_with_event(j, s)
    BY <2>1, <2>2, <2>3, Zenon DEF Contract!terminal_with_event, Contract!mark, Contract!Open, PortPriority
  <2> QED
    BY <1>0, <1>2, <2>4, Zenon DEF Contract!StorageNext, Contract!TERMINAL_STATUSES, Terminal
<1> QED
  BY <1>1, <1>2, Zenon DEF execute_pool_task

\* RENEW, a lapse, REQUEUE and the polls.
LEMMA RowIsPortStep ==
  ASSUME PoolInv, NEW j \in Job,
         \/ await_pool_result(j) \/ AwaitTimeout(j) \/ Lapse(j) \/ requeue_for_retry(j)
         \/ \E w \in Worker : renew_pool_lease(j, w)
  PROVE  Contract!StorageNext \/ UNCHANGED Contract!rows
<1>0. PoolTypeOK /\ Found(j)
  BY Zenon DEF PoolInv
<1>1. ASSUME await_pool_result(j) \/ AwaitTimeout(j) PROVE UNCHANGED Contract!rows
  BY <1>1, Zenon DEF await_pool_result, AwaitTimeout, redis, Contract!rows
<1>2. ASSUME Lapse(j) PROVE Contract!StorageNext
  <2>1. status[j] = "running" /\ j \notin lapsed /\ lapsed' = lapsed \cup {j}
        /\ UNCHANGED <<status, claimedBy, events>>
    BY <1>0, <1>2, Zenon DEF Lapse, Found
  <2>2. Contract!LeaseLapse(j)
    BY <2>1, Zenon DEF Contract!LeaseLapse
  <2> QED
    BY <2>2, Zenon DEF Contract!StorageNext
<1>3. ASSUME NEW w \in Worker, renew_pool_lease(j, w) PROVE Contract!StorageNext
  <2>1. Contract!renew_lease(j, w)
    BY <1>3, Zenon DEF renew_pool_lease, RENEW, Contract!renew_lease
  <2> QED
    BY <2>1, Zenon DEF Contract!StorageNext
<1>4. ASSUME requeue_for_retry(j) PROVE Contract!StorageNext
  <2>1. /\ status[j] \notin Terminal \cup {"absent"} /\ status' = [status EXCEPT ![j] = "queued"]
        /\ claimedBy' = [claimedBy EXCEPT ![j] = NoWorker] /\ lapsed' = lapsed \ {j} /\ events' = events
    BY <1>4, Zenon DEF requeue_for_retry, REQUEUE
  <2>2. status[j] \in {"queued", "running"}
    BY <1>0, <2>1, Zenon DEF PoolTypeOK, Counted
  <2>3. PortPriority' = PortPriority
    BY <1>0, <2>1 DEF PortPriority, PoolTypeOK
  <2>4. /\ status' = [k \in Job |-> IF k \in {j} THEN "queued" ELSE status[k]]
        /\ claimedBy' = [k \in Job |-> IF k \in {j} THEN NoWorker ELSE claimedBy[k]]
    BY <1>0, <2>1, Zenon DEF PoolTypeOK
  <2>5. Contract!requeue_for_retry(j)
    BY <2>1, <2>2, <2>3, <2>4, Zenon DEF Contract!requeue_for_retry, Contract!Requeue, Contract!Open, PortPriority
  <2> QED
    BY <2>5, Zenon DEF Contract!StorageNext
<1> QED
  BY <1>1, <1>2, <1>3, <1>4, Zenon

\* RECLAIM is the port's sweep, without its bump.
LEMMA ReclaimIsPortStep ==
  ASSUME PoolInv, NEW q \in Queue, reclaim_expired_pool_leases(q)
  PROVE  Contract!StorageNext
<1>1. PICK S \in SUBSET Job : Swept(q, S)
  BY ReclaimSweeps, Zenon DEF reclaim_expired_pool_leases
<1>2. /\ S # {} /\ S \subseteq lapsed /\ \A j \in S : status[j] = "running"
      /\ status' = [j \in Job |-> IF j \in S THEN "queued" ELSE status[j]]
      /\ claimedBy' = [j \in Job |-> IF j \in S THEN NoWorker ELSE claimedBy[j]]
      /\ lapsed' = lapsed \ S /\ events' = events
  BY <1>1, Zenon DEF Swept, Moves, Rows
<1>3. PortPriority' = PortPriority
  BY <1>2, Zenon DEF PortPriority
<1>4. /\ \A j \in S : PortPriority'[j] >= PortPriority[j]
      /\ \A j \in Job \ S : PortPriority'[j] = PortPriority[j]
  <2>1. \A j \in Job : PortPriority[j] \in Int
    BY GpuPoolAssumption DEF PortPriority
  <2>2. \A j \in Job : PortPriority[j] >= PortPriority[j]
    BY <2>1
  <2> QED
    BY <1>3, <2>2
<1>5. Contract!reclaim_expired(S)
  BY <1>2, <1>4, Zenon DEF Contract!reclaim_expired, Contract!Requeue, PortPriority
<1> QED
  BY <1>5, Zenon DEF Contract!StorageNext

\* For any number of tasks, queues and workers: as long as no task was put back
\* under a live worker, each script of backends/redis.py does to the rows what
\* an operation of the reference adapter may do.
THEOREM ScriptsImplementThePort ==
  PoolSpec => ScriptsFollowTheContract
<1>1. PoolInv /\ [PoolNext]_poolVars
        => [displaced' = {} => Contract!StorageNext]_(Contract!rows)
  <2> SUFFICES ASSUME PoolInv, [PoolNext]_poolVars, displaced' = {}
               PROVE  Contract!StorageNext \/ UNCHANGED Contract!rows
    BY Zenon
  <2>1. UNCHANGED poolVars => UNCHANGED Contract!rows
    BY Zenon DEF poolVars, redis, Contract!rows
  <2>2. ASSUME NEW w \in Worker, Crash(w) PROVE UNCHANGED Contract!rows
    BY <2>2, Zenon DEF Crash, redis, Contract!rows
  <2>3. ASSUME NEW w \in Worker, claim_pool_task(w) PROVE displaced = {}
    BY <2>3, Zenon DEF claim_pool_task
  <2> QED
    BY <2>1, <2>2, <2>3, SubmitIsPortStep, ClaimIsPortStep, ExecuteIsPortStep, RowIsPortStep,
       ReclaimIsPortStep, Zenon DEF PoolNext
<1> QED
  BY <1>1, PoolInvariant, PTL DEF PoolSpec, ScriptsFollowTheContract
=============================================================================
