---------------------------- MODULE RedisBackend ----------------------------
(***************************************************************************)
(* backends/redis.py: a hash per job, a sorted set of waiting members per  *)
(* queue, a sorted set of running jobs scored by lease expiry, a counter   *)
(* per queue and status, and an event list.  Every state change is one Lua *)
(* script, hence one action here.                                          *)
(*                                                                         *)
(* A waiting member is "<seq>|<id>" with score -priority and seq a counter *)
(* that only grows, so ZPOPMIN takes the highest priority and, within it,  *)
(* the member added first.  Here a member is the pair <<seq, id>>; one job *)
(* can have several.  The code numbers all queues with one counter; as     *)
(* numbers are compared within a queue only, each queue has its own here,  *)
(* which orders its members in the same way.                               *)
(***************************************************************************)
EXTENDS Integers, Sequences, FiniteSets, Functions

CONSTANTS Job, Worker, Queue, QueueOf, PriorityOf, NoWorker

VARIABLES
  status,       \* job hash: status
  claimedBy,    \* job hash: claimed_by
  seq,          \* the counter that numbers the queue's members
  waiting,      \* the queue's sorted set: its members
  running,      \* the ids in the running sorted set
  lapsed,       \* those of them whose score is past
  cnt,          \* the counters counts() reads
  events        \* the event types of each job, oldest first

redis == <<status, claimedBy, seq, waiting, running, lapsed, cnt, events>>

Terminal == {"completed", "failed"}
Counted == {"queued", "running"} \cup Terminal

RedisInit ==
  /\ status = [j \in Job |-> "absent"]
  /\ claimedBy = [j \in Job |-> NoWorker]
  /\ seq = [q \in Queue |-> 0] /\ waiting = [q \in Queue |-> {}]
  /\ running = {} /\ lapsed = {}
  /\ cnt = [q \in Queue |-> [s \in Counted |-> 0]]
  /\ events = [j \in Job |-> <<>>]

\* INCR of the counter and ZADD of the member it numbers.
ZAdd(j) ==
  /\ seq' = [seq EXCEPT ![QueueOf[j]] = @ + 1]
  /\ waiting' = [waiting EXCEPT ![QueueOf[j]] = @ \cup {<<seq[QueueOf[j]] + 1, j>>}]

PopsOldest(q, m) == \A n \in waiting[q] : m[1] <= n[1]

\* m is the member that ZPOPMIN takes: the least score, then the least member.
PopsFirst(q, m) ==
  \A n \in waiting[q] : \/ PriorityOf[n[2]] < PriorityOf[m[2]]
                        \/ PriorityOf[n[2]] = PriorityOf[m[2]] /\ m[1] <= n[1]

\* DECR of one counter of the job's queue and INCR of another.
Recount(j, old, new) ==
  cnt' = [cnt EXCEPT ![QueueOf[j]] =
            [s \in Counted |-> @[s] - (IF s = old THEN 1 ELSE 0)
                                    + (IF s = new THEN 1 ELSE 0)]]

ENQUEUE(j) ==
  /\ status[j] = "absent"
  /\ status' = [status EXCEPT ![j] = "queued"]
  /\ ZAdd(j)
  /\ Recount(j, "absent", "queued")
  /\ UNCHANGED <<claimedBy, running, lapsed, events>>

ClaimWithoutPop(q, m, w) ==
  /\ m \in waiting[q] /\ PopsFirst(q, m)
  /\ status' = [status EXCEPT ![m[2]] = "running"]
  /\ claimedBy' = [claimedBy EXCEPT ![m[2]] = w]
  /\ running' = running \cup {m[2]} /\ lapsed' = lapsed \ {m[2]}
  /\ Recount(m[2], "queued", "running")
  /\ UNCHANGED <<seq, waiting, events>>

\* The member popped decides; the status of its job is not read.
CLAIM(q, m, w) ==
  /\ m \in waiting[q] /\ PopsFirst(q, m)
  /\ status' = [status EXCEPT ![m[2]] = "running"]
  /\ claimedBy' = [claimedBy EXCEPT ![m[2]] = w]
  /\ running' = running \cup {m[2]} /\ lapsed' = lapsed \ {m[2]}
  /\ Recount(m[2], "queued", "running")
  /\ waiting' = [waiting EXCEPT ![q] = @ \ {m}]
  /\ UNCHANGED <<seq, events>>

RENEW(j, w) ==
  /\ status[j] = "running" /\ claimedBy[j] = w
  /\ lapsed' = lapsed \ {j}
  /\ running' = running \cup {j}
  /\ UNCHANGED <<status, claimedBy, seq, waiting, cnt, events>>

TerminalStillRunning(j, s) ==
  /\ status[j] \notin Terminal \cup {"absent"}
  /\ status' = [status EXCEPT ![j] = s]
  /\ Recount(j, status[j], s)
  /\ events' = [events EXCEPT ![j] = Append(@, s)]
  /\ UNCHANGED <<claimedBy, seq, waiting, running, lapsed>>

\* The waiting members of the job, if it has any, stay where they are.
TERMINAL(j, s) ==
  /\ status[j] \notin Terminal \cup {"absent"}
  /\ status' = [status EXCEPT ![j] = s]
  /\ running' = running \ {j} /\ lapsed' = lapsed \ {j}
  /\ Recount(j, status[j], s)
  /\ events' = [events EXCEPT ![j] = Append(@, s)]
  /\ UNCHANGED <<claimedBy, seq, waiting>>

REQUEUE(j) ==
  /\ status[j] \notin Terminal \cup {"absent"}
  /\ status' = [status EXCEPT ![j] = "queued"]
  /\ claimedBy' = [claimedBy EXCEPT ![j] = NoWorker]
  /\ running' = running \ {j} /\ lapsed' = lapsed \ {j}
  /\ ZAdd(j)
  /\ Recount(j, status[j], "queued")
  /\ UNCHANGED events

\* The INCR and ZADD of the sweep's loop over its jobs, in the order of their
\* scores, here any order.
ZAddAll(q, jobs) ==
  /\ seq' = [seq EXCEPT ![q] = @ + Cardinality(jobs)]
  /\ \E nth \in Bijection(jobs, 1..Cardinality(jobs)) :
       waiting' = [waiting EXCEPT ![q] = @ \cup {<<seq[q] + nth[j], j>> : j \in jobs}]

ReclaimUncounted(q) ==
  \E expired \in (SUBSET {j \in lapsed : QueueOf[j] = q}) \ {{}} :
    /\ running' = running \ expired /\ lapsed' = lapsed \ expired
    /\ status' = [j \in Job |-> IF j \in expired THEN "queued" ELSE status[j]]
    /\ claimedBy' = [j \in Job |-> IF j \in expired THEN NoWorker ELSE claimedBy[j]]
    /\ ZAddAll(q, expired)
    /\ UNCHANGED <<cnt, events>>

ReclaimWithoutMember(q) ==
  \E expired \in (SUBSET {j \in lapsed : QueueOf[j] = q}) \ {{}} :
    /\ running' = running \ expired /\ lapsed' = lapsed \ expired
    /\ status' = [j \in Job |-> IF j \in expired THEN "queued" ELSE status[j]]
    /\ claimedBy' = [j \in Job |-> IF j \in expired THEN NoWorker ELSE claimedBy[j]]
    /\ cnt' = [cnt EXCEPT ![q]["running"] = @ - Cardinality(expired),
                          ![q]["queued"] = @ + Cardinality(expired)]
    /\ UNCHANGED <<seq, waiting, events>>

\* One queue of reclaim_expired's loop: the jobs past the now that the loop
\* fixed when it began, so perhaps not every job that has lapsed since.
RECLAIM(q) ==
  \E expired \in (SUBSET {j \in lapsed : QueueOf[j] = q}) \ {{}} :
    LET back == {j \in expired : status[j] = "running"}
    IN  /\ running' = running \ back /\ lapsed' = lapsed \ back
        /\ status' = [j \in Job |-> IF j \in back THEN "queued" ELSE status[j]]
        /\ claimedBy' = [j \in Job |-> IF j \in back THEN NoWorker ELSE claimedBy[j]]
        /\ ZAddAll(q, back)
        /\ cnt' = [cnt EXCEPT ![q]["running"] = @ - Cardinality(back),
                              ![q]["queued"] = @ + Cardinality(back)]
        /\ UNCHANGED events
=============================================================================
