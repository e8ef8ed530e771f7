----------------------------- MODULE Scheduler ------------------------------
(***************************************************************************)
(* scheduler.py: the Ticker that enqueues the periodic ingest jobs, on top *)
(* of the ingest queue it feeds.  Time is a number of minutes; an hour has *)
(* MINUTES of them and a day HOURS hours (60 and 24 in the code; a small   *)
(* clock in the instances).  Seconds are not modelled: an entry fires at   *)
(* second 0, so "candidate <= now" compares minutes.                       *)
(*                                                                         *)
(* The clock runs while the ticker works: it can oversleep, and an enqueue *)
(* can take minutes.                                                       *)
(***************************************************************************)
EXTENDS IngestStore, FiniteSetsExt

CONSTANTS
  HOURS, MINUTES,
  Entry,        \* the host's schedule: an entry is its position in the list
  MinuteOf,     \* the minute of the hour an entry fires at
  HoursOf,      \* the hours it is restricted to, all of them for None
  Freshness,    \* entries with "freshness" in their task name
  MaxClock      \* bound on the clock

ASSUME SchedulerAssumption ==
  /\ HOURS \in Nat \ {0} /\ MINUTES \in Nat \ {0} /\ MaxClock \in Nat /\ Entry \subseteq Nat
  /\ \A e \in Entry : MinuteOf[e] \in 0..MINUTES-1 /\ HoursOf[e] \subseteq 0..HOURS-1

VARIABLES
  clock,
  phase,        \* "boot", "plan", "sleep", "enqueue", "down"
  soonest,      \* the instant slept to
  due,          \* the entries firing then
  pending,      \* what the running enqueue_due has still to enqueue
  owed,         \* history: <<entry, instant>> reached by the sleeping ticker
  lastTick      \* history: the last instant an entry was enqueued for

tickerVars == <<clock, phase, soonest, due, pending, owed, lastTick>>

HourOf(t) == (t \div MINUTES) % HOURS

FireAtNow(m, hours, now) ==
  LET sameHour == (now \div MINUTES) * MINUTES + m
      candidate == IF sameHour < now THEN sameHour + MINUTES ELSE sameHour
      steps == {k \in 0..HOURS-1 : HourOf(candidate + k * MINUTES) \in hours}
  IN  candidate + MINUTES * (IF steps = {} THEN HOURS ELSE Min(steps))

\* The same hour at the given minute, or the next hour; then hour by hour to
\* an allowed one, and a whole day on when there is none.
next_fire_at(m, hours, now) ==
  LET sameHour == (now \div MINUTES) * MINUTES + m
      candidate == IF sameHour <= now THEN sameHour + MINUTES ELSE sameHour
      steps == {k \in 0..HOURS-1 : HourOf(candidate + k * MINUTES) \in hours}
  IN  candidate + MINUTES * (IF steps = {} THEN HOURS ELSE Min(steps))

NextFire(e, now) == next_fire_at(MinuteOf[e], HoursOf[e], now)

_soonest(now) == Min({NextFire(e, now) : e \in Entry})

DueFirstOnly(now) == {Min({e \in Entry : NextFire(e, now) = _soonest(now)})}

_due(now) == {e \in Entry : NextFire(e, now) = _soonest(now)}

BootKick == Entry \ Freshness

TickerInit ==
  /\ clock \in 0..(HOURS * MINUTES - 1)
  /\ phase = "boot" /\ pending = BootKick
  /\ soonest = 0 /\ due = {}
  /\ owed = {}
  /\ lastTick = -1

\* One iteration of enqueue_due, in list order; the boot kick runs the same loop.
EnqueueNext ==
  /\ phase \in {"boot", "enqueue"} /\ pending # {}
  /\ enqueue_ingest_job(100)
  /\ pending' = pending \ {Min(pending)}
  /\ IF phase = "enqueue"
       THEN /\ lastTick' = soonest
            /\ owed' = owed \ {<<Min(pending), soonest>>}
       ELSE UNCHANGED <<lastTick, owed>>
  /\ UNCHANGED <<clock, phase, soonest, due, current, faults>>

\* enqueue_ingest_job raises (an unregistered task, a database error): nothing
\* catches it, so run_forever ends and the rest of the list is dropped.
EnqueueRaises ==
  /\ phase \in {"boot", "enqueue"} /\ pending # {}
  /\ faults < MaxFaults /\ faults' = faults + 1
  /\ phase' = "down" /\ soonest' = 0 /\ pending' = {} /\ owed' = {}
  /\ UNCHANGED <<clock, due, lastTick, storeVars, current>>

EnqueueDone ==
  /\ phase \in {"boot", "enqueue"} /\ pending = {}
  /\ phase' = "plan" /\ soonest' = 0
  /\ UNCHANGED <<clock, due, pending, owed, lastTick, ingestVars>>

\* Top of the loop: read the clock, compute what to sleep to.  Without a
\* schedule the loop only waits for stop().
Plan ==
  /\ phase = "plan" /\ Entry # {}
  /\ phase' = "sleep" /\ soonest' = _soonest(clock) /\ due' = _due(clock)
  /\ UNCHANGED <<clock, pending, owed, lastTick, ingestVars>>

WakeEarly ==
  /\ phase = "sleep" /\ clock + 1 >= soonest
  /\ phase' = "enqueue" /\ pending' = due /\ due' = {}
  /\ UNCHANGED <<clock, soonest, owed, lastTick, ingestVars>>

\* The sleep loop ends when the clock read after a slice has reached soonest.
Wake ==
  /\ phase = "sleep" /\ clock >= soonest
  /\ phase' = "enqueue" /\ pending' = due /\ due' = {}
  /\ UNCHANGED <<clock, soonest, owed, lastTick, ingestVars>>

\* stop(), seen at the top of the loop or after a slice of sleep.
Stop ==
  /\ phase \in {"plan", "sleep"}
  /\ faults < MaxFaults /\ faults' = faults + 1
  /\ phase' = "down" /\ soonest' = 0 /\ due' = {} /\ owed' = {}
  /\ UNCHANGED <<clock, pending, lastTick, storeVars, current>>

\* The supervisor starts the process again, which kicks again.
Restart ==
  /\ phase = "down"
  /\ phase' = "boot" /\ pending' = BootKick
  /\ UNCHANGED <<clock, soonest, due, owed, lastTick, ingestVars>>

\* A minute passes.  What fires in it is owed if the ticker sleeps up to it.
ClockTick ==
  /\ clock < MaxClock
  /\ clock' = clock + 1
  /\ owed' = IF phase = "sleep" /\ soonest >= clock'
               THEN owed \cup {<<e, clock'>> : e \in {d \in Entry : /\ clock' % MINUTES = MinuteOf[d]
                                                                    /\ HourOf(clock') \in HoursOf[d]}}
               ELSE owed
  /\ UNCHANGED <<phase, soonest, due, pending, lastTick, ingestVars>>

\* A host enqueues a job of its own, ahead of the periodic ones.
HostEnqueue ==
  /\ \E p \in IngestPriority : p < 100 /\ enqueue_ingest_job(p)
  /\ UNCHANGED <<current, faults, tickerVars>>

SchedulerNext ==
  \/ EnqueueNext \/ EnqueueRaises \/ EnqueueDone \/ Plan \/ Wake \/ Stop \/ Restart
  \/ ClockTick \/ HostEnqueue
  \/ IngestNext /\ UNCHANGED tickerVars

SchedulerVars == <<ingestVars, tickerVars>>

SchedulerInit == IngestInit /\ TickerInit

SchedulerSpec == SchedulerInit /\ [][SchedulerNext]_SchedulerVars /\ IngestFairness
-----------------------------------------------------------------------------
\* Type correctness: the ticker's plan, its batch and the clock.
SchedulerTypeOK ==
  /\ clock \in 0..MaxClock
  /\ phase \in {"boot", "plan", "sleep", "enqueue", "down"}
  /\ soonest \in 0..(MaxClock + (HOURS + 1) * MINUTES)
  /\ due \subseteq Entry /\ pending \subseteq Entry
  /\ owed \subseteq Entry \X (0..MaxClock)
  /\ lastTick \in -1..MaxClock

\* ScheduleEntry.next_fire_at, for every minute and every non-empty set of hours
\* at every time of day: the result lies strictly after now, on the minute, in
\* an allowed hour, and no earlier instant does.
NextFireIsTheNextInstant ==
  \A m \in 0..MINUTES-1 : \A hours \in (SUBSET (0..HOURS-1)) \ {{}} :
    LET fire == next_fire_at(m, hours, clock)
        Fires(t) == t % MINUTES = m /\ ((t \div MINUTES) % HOURS) \in hours
    IN  fire > clock /\ Fires(fire) /\ \A t \in (clock + 1)..(fire - 1) : ~Fires(t)

\* No instant that the sleeping ticker reaches is forgotten, however late it
\* wakes and whatever else fires in that minute: until it is enqueued, the entry
\* is in the batch slept to or in what enqueue_due still has to do.
OwedIsPending ==
  \A o \in owed : /\ o[2] = soonest
                  /\ \/ phase = "sleep" /\ o[1] \in due
                     \/ phase = "enqueue" /\ o[1] \in pending

\* No instant is ticked twice, also across restarts of the ticker: what the
\* loop plans lies after every instant it has enqueued for, and it enqueues for
\* no instant that is still to come.
OneTickPerInstant ==
  [][/\ phase = "plan" /\ phase' = "sleep" => soonest' > lastTick
     /\ lastTick' # lastTick => lastTick' <= clock]_SchedulerVars
=============================================================================
