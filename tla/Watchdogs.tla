----------------------------- MODULE Watchdogs -----------------------------
(***************************************************************************)
(* The guards that hard-stop a job that hangs (claim_worker.py): the       *)
(* wall-clock Watchdog of a CPU job, the GpuHealthWatchdog of every GPU    *)
(* job and the StallWatchdog of a GPU job that reports its steps, each a   *)
(* thread with a deadline, beside the node that beats them.                *)
(*                                                                         *)
(* Time passes in units of one poll.  A deadline is kept as the units left *)
(* until it; every guard polls once in a unit, before or after the beats   *)
(* of that unit.  A confirmation sample of the StallWatchdog takes a unit  *)
(* too: the code's second instead of five only shortens the confirmation.  *)
(* What a trip writes to the row is ClaimWorker's.                         *)
(***************************************************************************)
EXTENDS Integers

CONSTANTS
  BUDGET,       \* budget_for(job): the CPU job's wall-clock budget
  TIMEOUT,      \* STALL_TIMEOUT_S
  SAMPLES,      \* STALL_CONFIRM_SAMPLES
  INTERVAL,     \* GPU_HEALTH_INTERVAL_S
  GRACE,        \* GPU_HEALTH_LOAD_GRACE_S
  MaxRam,       \* bound on the container's memory
  RAM_DELTA,    \* GPU_HEALTH_RAM_DELTA_MB
  Longest,      \* bound on the units the history counts
  None

ASSUME WatchdogAssumption ==
  /\ \A t \in {BUDGET, TIMEOUT, SAMPLES, INTERVAL, GRACE} : t \in Nat \ {0}
  /\ Longest \in Nat
  /\ \A t \in {BUDGET, TIMEOUT + 2 * SAMPLES, INTERVAL, GRACE} : t < Longest
  /\ MaxRam \in Nat /\ RAM_DELTA \in Nat
  /\ None \notin Int /\ None \notin {"clock", "stall", "health"}

VARIABLES
  kind,      \* the job: "cpu"; "progress", a GPU node that reports its steps;
             \* "silent", a GPU node that does not or is video
  node,      \* "free", "run", "beat" (between the two beats) or "wedged"
  gpu,       \* whether the GPU sampler reads more than GPU_IDLE_PCT
  ram,       \* the container's memory,
  probe,     \* and whether its sampler can read it
  clock,     \* Watchdog._deadline
  stall,     \* StallWatchdog._deadline; None until the first beat
  confirm,   \* _confirm_wedged: samples to take, anchor, largest GPU reading
  health,    \* GpuHealthWatchdog: _next_checkpoint, _max_util, _ram_anchor
  polled,    \* the guards that have polled in this unit
  tripped,   \* the guard that hard-exits the worker, or None
  loaded, late,            \* history: a first beat; a gap of TIMEOUT after it
  silent, idle, hung       \* history, in units: since the last beat or the
                           \* start, the last busy reading, the wedge

body == <<gpu, ram, probe>>
history == <<loaded, late, silent, idle, hung>>
vars == <<kind, node, body, clock, stall, confirm, health, polled, tripped, history>>

Guard == [cpu |-> {"clock"}, progress |-> {"stall", "health"}, silent |-> {"health"}]
Older(n, cap) == IF n < cap THEN n + 1 ELSE n
Less(n) == IF n \in Nat \ {0} THEN n - 1 ELSE n

_sample_ram == IF probe THEN ram ELSE None
UnreadableRamMoves(anchor, now) ==
  (anchor # None /\ now # None) => (anchor - now > RAM_DELTA \/ now - anchor > RAM_DELTA)

RamMoved(anchor, now) ==
  /\ anchor # None /\ now # None
  /\ (anchor - now > RAM_DELTA \/ now - anchor > RAM_DELTA)

NoConfirm == [left |-> 0, anchor |-> None, busy |-> FALSE]
_reset_window(units) == [left |-> units, anchor |-> _sample_ram, busy |-> FALSE]

Free ==
  /\ node = "free" /\ tripped = None /\ polled = {}
  /\ clock = None /\ stall = None /\ confirm = NoConfirm
  /\ health = [left |-> 0, anchor |-> None, busy |-> FALSE]
  /\ loaded = FALSE /\ late = FALSE /\ silent = 0 /\ idle = 0 /\ hung = 0

WatchdogInit ==
  /\ kind = "cpu" /\ gpu = FALSE /\ ram = 0 /\ probe = TRUE
  /\ Free
-----------------------------------------------------------------------------
\* The job.

StallArmedAtStart(k) ==
  /\ node = "free"
  /\ kind' = k /\ node' = "run"
  /\ clock' = IF k = "cpu" THEN BUDGET ELSE None
  /\ health' = IF k = "cpu" THEN health ELSE _reset_window(GRACE)
  /\ stall' = IF k = "progress" THEN TIMEOUT ELSE None
  /\ UNCHANGED <<body, confirm, polled, tripped, history>>

\* _run_node: the guards of the job's kind are armed, the stall guard is not.
_run_node(k) ==
  /\ node = "free"
  /\ kind' = k /\ node' = "run"
  /\ clock' = IF k = "cpu" THEN BUDGET ELSE None
  /\ health' = IF k = "cpu" THEN health ELSE _reset_window(GRACE)
  /\ UNCHANGED <<body, stall, confirm, polled, tripped, history>>

\* The status callback beats the health guard and then, if there is one, the
\* stall guard.  A silent node beats once, when its model is loaded.
HealthBeat ==
  /\ node = "run" /\ kind # "cpu" /\ tripped = None
  /\ health' = _reset_window(INTERVAL)
  /\ node' = IF kind = "progress" THEN "beat" ELSE "run"
  /\ silent' = 0 /\ loaded' = TRUE
  /\ UNCHANGED <<kind, body, clock, stall, confirm, polled, tripped, late, idle, hung>>

StallBeat ==
  /\ node = "beat" /\ tripped = None
  /\ stall' = TIMEOUT
  /\ node' = "run"
  /\ UNCHANGED <<kind, body, clock, confirm, health, polled, tripped, history>>

Wedge ==
  /\ node = "run" /\ tripped = None
  /\ node' = "wedged" /\ gpu' = FALSE
  /\ UNCHANGED <<kind, ram, probe, clock, stall, confirm, health, polled, tripped, history>>

\* The body returns and every guard is stopped, or the process has exited and
\* its supervisor has started it again.
Over ==
  /\ node = "run" \/ tripped # None
  /\ node' = "free" /\ tripped' = None /\ polled' = {}
  /\ clock' = None /\ stall' = None /\ confirm' = NoConfirm
  /\ health' = [left |-> 0, anchor |-> None, busy |-> FALSE]
  /\ loaded' = FALSE /\ late' = FALSE /\ silent' = 0 /\ idle' = 0 /\ hung' = 0
  /\ gpu' = FALSE /\ ram' = 0 /\ probe' = TRUE
  /\ UNCHANGED kind
-----------------------------------------------------------------------------
\* The guards.

Poll(g) ==
  /\ node # "free" /\ tripped = None
  /\ g \in Guard[kind] \ polled
  /\ polled' = polled \cup {g}

Trip(g) == tripped' = g

ClockLoop ==
  /\ Poll("clock")
  /\ IF clock = 0 THEN Trip("clock") ELSE UNCHANGED tripped
  /\ UNCHANGED <<kind, node, body, clock, stall, confirm, health, history>>

PeakIsForgotten ==
  /\ Poll("health")
  /\ IF health.left > 0
       THEN health' = [health EXCEPT !.busy = gpu] /\ UNCHANGED tripped
       ELSE IF ~ gpu /\ ~ RamMoved(health.anchor, _sample_ram)
         THEN Trip("health") /\ UNCHANGED health
         ELSE health' = _reset_window(INTERVAL) /\ UNCHANGED tripped
  /\ UNCHANGED <<kind, node, body, clock, stall, confirm, history>>

HealthLoop ==
  /\ Poll("health")
  /\ LET busy == health.busy \/ gpu
     IN  IF health.left > 0
           THEN health' = [health EXCEPT !.busy = busy] /\ UNCHANGED tripped
           ELSE IF ~ busy /\ ~ RamMoved(health.anchor, _sample_ram)
             THEN Trip("health") /\ UNCHANGED health
             ELSE health' = _reset_window(INTERVAL) /\ UNCHANGED tripped
  /\ UNCHANGED <<kind, node, body, clock, stall, confirm, history>>

\* The deadline has passed, or the next sample of a confirmation is taken.  A
\* beat during the confirmation moves the deadline and not the verdict.
_confirm_wedged ==
  LET first == confirm.left = 0
      left  == (IF first THEN SAMPLES ELSE confirm.left) - 1
      anchor == IF first THEN _sample_ram ELSE confirm.anchor
      busy  == gpu \/ (~ first /\ confirm.busy)
  IN  IF left > 0
        THEN /\ confirm' = [left |-> left, anchor |-> anchor, busy |-> busy]
             /\ UNCHANGED <<stall, tripped>>
        ELSE /\ confirm' = NoConfirm
             /\ IF ~ busy /\ ~ RamMoved(anchor, _sample_ram)
                  THEN Trip("stall") /\ UNCHANGED stall
                  ELSE stall' = TIMEOUT /\ UNCHANGED tripped     \* _rearm

StallLoop ==
  /\ Poll("stall")
  /\ IF stall = 0 \/ confirm.left > 0
       THEN _confirm_wedged
       ELSE UNCHANGED <<stall, confirm, tripped>>
  /\ UNCHANGED <<kind, node, body, clock, health, history>>

\* A unit of time passes; what a running body does to the readings is
\* anything, a wedged one only has its memory sampler fail or recover.
Tick ==
  /\ node \in {"run", "wedged"} /\ tripped = None
  /\ polled = Guard[kind] /\ polled' = {}
  /\ clock' = Less(clock) /\ stall' = Less(stall)
  /\ health' = [health EXCEPT !.left = Less(@)]
  /\ gpu' \in IF node = "run" /\ kind # "cpu" THEN BOOLEAN ELSE {FALSE}
  /\ ram' \in IF node = "run" /\ kind # "cpu" THEN 0..MaxRam ELSE {ram}
  /\ probe' \in IF kind # "cpu" THEN BOOLEAN ELSE {TRUE}
  /\ silent' = Older(silent, Longest)
  /\ late' = (late \/ (loaded /\ silent' >= TIMEOUT))
  /\ idle' = IF gpu THEN 0 ELSE Older(idle, Longest)
  /\ hung' = IF node = "wedged" THEN Older(hung, 2 * Longest) ELSE hung
  /\ UNCHANGED <<kind, node, confirm, tripped, loaded>>

WatchdogNext ==
  \/ \E k \in DOMAIN Guard : _run_node(k)
  \/ HealthBeat \/ StallBeat \/ Wedge \/ Over
  \/ ClockLoop \/ HealthLoop \/ StallLoop \/ Tick

WatchdogSpec == WatchdogInit /\ [][WatchdogNext]_vars
-----------------------------------------------------------------------------
Deadline == 0..Longest \cup {None}
Ram == 0..MaxRam \cup {None}

\* Type correctness: the deadlines, windows and samples of the three guards.
WatchdogTypeOK ==
  /\ kind \in DOMAIN Guard /\ node \in {"free", "run", "beat", "wedged"}
  /\ gpu \in BOOLEAN /\ ram \in 0..MaxRam /\ probe \in BOOLEAN
  /\ clock \in Deadline /\ stall \in Deadline
  /\ confirm \in [left : 0..SAMPLES, anchor : Ram, busy : BOOLEAN]
  /\ health \in [left : 0..Longest, anchor : Ram, busy : BOOLEAN]
  /\ polled \subseteq Guard[kind] /\ tripped \in {"clock", "stall", "health", None}
  /\ loaded \in BOOLEAN /\ late \in BOOLEAN
  /\ silent \in 0..Longest /\ idle \in 0..Longest /\ hung \in 0..(2 * Longest)

LongestWindow == IF loaded \/ GRACE < INTERVAL THEN INTERVAL ELSE GRACE

\* A job that hangs is stopped in time, whatever the guards were doing when it
\* did and however its memory sampler flickers: a CPU job by its budget, a GPU
\* job by the end of the window after the one it hangs in (before the first
\* beat that one is the grace or a later interval), and one that has reported a
\* step by the confirmation of its next silence if that is sooner
\* (Watchdog._loop, GpuHealthWatchdog._evaluate_window_locked,
\* StallWatchdog._loop and _rearm).
WedgedJobIsStopped ==
  tripped = None =>
    /\ kind = "cpu" => hung <= BUDGET
    /\ kind # "cpu" => hung <= LongestWindow + INTERVAL
    /\ stall # None => hung <= TIMEOUT + 2 * SAMPLES

\* A GPU at work keeps its job alive for as long as it takes: no guard stops a
\* job unless the sampler reads an idle GPU now and has for the units of an
\* interval (or of the grace, before the first beat), or for all the samples of
\* a confirmation (GpuHealthWatchdog "never kills for elapsed time";
\* StallWatchdog._confirm_wedged).
BusyGpuIsSpared ==
  /\ tripped = "health" => ~ gpu /\ (idle >= INTERVAL - 1 \/ (~ loaded /\ idle >= GRACE - 1))
  /\ tripped = "stall" => idle >= SAMPLES - 1 /\ ~ gpu

\* A job that beats in time is not stopped: neither guard acts on one whose
\* beats have never been TIMEOUT apart, the health guard waits a full interval
\* after the last beat and the grace before the first, and a CPU job has its
\* whole budget (beat, _reset_window, Watchdog.start).
SteadyJobIsSpared ==
  /\ tripped = "clock" => silent >= BUDGET
  /\ tripped = "stall" => loaded /\ late
  /\ tripped = "health" => silent >= (IF loaded THEN INTERVAL ELSE GRACE)
=============================================================================
