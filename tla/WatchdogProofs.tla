--------------------------- MODULE WatchdogProofs ---------------------------
(***************************************************************************)
(* Proofs about the three watchdogs, for any budget, timeout, interval,    *)
(* grace and number of samples.  Each guard's deadline is tied to what the *)
(* history counts: what is left of a window and what has passed of it add  *)
(* up.  A poll that has happened in the running unit is part of the sum,   *)
(* because a beat, a wedge and the poll of a unit come in any order.       *)
(***************************************************************************)
EXTENDS Watchdogs, TLAPS

Polled(g) == IF g \in polled THEN 1 ELSE 0

ClockInv ==
  kind = "cpu" /\ node # "free" =>
    /\ clock \in 0..BUDGET
    /\ clock + silent >= BUDGET /\ clock + hung <= BUDGET
    /\ "clock" \in polled => clock > 0

(* A window of w units: a GPU that no poll of it saw busy has been idle    *)
(* for all of its units but the one it began in.                           *)
Window(w) ==
  /\ health.left <= w
  /\ ~ health.busy => idle + health.left >= w - 1
  /\ health.left < w /\ "health" \in polled /\ gpu => health.busy

(* A wedged job is in the window it hung in, or in the next one, which has *)
(* seen nothing but the hang.                                              *)
HealthInv ==
  kind # "cpu" /\ node # "free" =>
    /\ Window(INTERVAL) \/ (~ loaded /\ Window(GRACE))
    /\ health.left + silent >= (IF loaded THEN INTERVAL ELSE GRACE)
    /\ "health" \in polled => health.left > 0
    /\ node = "wedged" =>
         \/ hung + health.left <= LongestWindow
         \/ /\ hung + health.left <= LongestWindow + INTERVAL
            /\ ~ health.busy /\ health.anchor \in {ram, None}

(* The deadline of the stall guard passes only after a gap of TIMEOUT, and *)
(* a confirmation is under way only after the deadline.                    *)
StallArmed ==
  /\ stall # None => /\ kind = "progress" /\ loaded /\ stall \in 0..TIMEOUT
                     /\ late \/ (stall > 0 /\ (node # "beat" => stall + silent >= TIMEOUT))
  /\ confirm.left > 0 => stall # None /\ late
  /\ confirm.left < SAMPLES
  /\ stall = 0 /\ "stall" \in polled => confirm.left > 0

ConfirmInv ==
  confirm.left > 0 /\ ~ confirm.busy =>
    /\ idle + confirm.left + Polled("stall") >= SAMPLES
    /\ "stall" \in polled => ~ gpu

StallHung ==
  node = "wedged" /\ stall # None =>
    /\ confirm.left = 0 => hung + stall <= TIMEOUT + SAMPLES
    /\ confirm.left > 0 =>
         \/ hung + confirm.left + Polled("stall") <= SAMPLES
         \/ /\ hung + confirm.left + Polled("stall") <= TIMEOUT + 2 * SAMPLES
            /\ ~ confirm.busy /\ confirm.anchor \in {ram, None}

NodeInv ==
  /\ node = "wedged" => ~ gpu
  /\ node # "wedged" => hung = 0
  /\ node = "beat" => kind = "progress" /\ loaded

Running == ClockInv /\ HealthInv /\ StallArmed /\ ConfirmInv /\ StallHung /\ NodeInv

WatchdogInv ==
  /\ WatchdogTypeOK
  /\ node = "free" => Free
  /\ tripped = None => Running
  /\ BusyGpuIsSpared /\ SteadyJobIsSpared

-----------------------------------------------------------------------------
(* Types.                                                                  *)

(* The durations are numbers, and the history counts past all of them.     *)
LEMMA Durations ==
  /\ BUDGET \in Nat \ {0} /\ TIMEOUT \in Nat \ {0} /\ SAMPLES \in Nat \ {0}
  /\ INTERVAL \in Nat \ {0} /\ GRACE \in Nat \ {0} /\ Longest \in Nat
  /\ BUDGET < Longest /\ TIMEOUT + 2 * SAMPLES < Longest
  /\ INTERVAL < Longest /\ GRACE < Longest
BY WatchdogAssumption, Zenon

(* A sample of the memory is a reading or None.                            *)
LEMMA SampleTyped ==
  ASSUME WatchdogTypeOK
  PROVE  _sample_ram \in Ram /\ _sample_ram \in {ram, None}
BY Zenon DEF WatchdogTypeOK, _sample_ram, Ram

(* The windows that beats, checkpoints and starts open.                    *)
LEMMA WindowTyped ==
  ASSUME WatchdogTypeOK, NEW w \in 0..Longest
  PROVE  _reset_window(w) \in [left : 0..Longest, anchor : Ram, busy : BOOLEAN]
BY SampleTyped, Zenon DEF _reset_window

(* Every step keeps the types.                                             *)
LEMMA TypeStep ==
  ASSUME WatchdogTypeOK, node = "free" => Free, [WatchdogNext]_vars
  PROVE  WatchdogTypeOK'
<1> USE Durations DEF WatchdogTypeOK, Deadline, Guard
<1>1. CASE UNCHANGED vars
  BY <1>1 DEF vars, body, history
<1>2. ASSUME NEW k \in DOMAIN Guard, _run_node(k)
      PROVE  WatchdogTypeOK'
  <2>1. _reset_window(GRACE) \in [left : 0..Longest, anchor : Ram, busy : BOOLEAN]
    BY WindowTyped
  <2>. QED
    BY <1>2, <2>1 DEF _run_node, Free, body, history
<1>3. CASE HealthBeat
  <2>1. _reset_window(INTERVAL) \in [left : 0..Longest, anchor : Ram, busy : BOOLEAN]
    BY WindowTyped
  <2>. QED
    BY <1>3, <2>1 DEF HealthBeat, body, history
<1>4. CASE StallBeat
  BY <1>4 DEF StallBeat, body, history
<1>5. CASE Wedge
  BY <1>5, Zenon DEF Wedge, body, history
<1>6. CASE Over
  <2>1. health' \in [left : 0..Longest, anchor : Ram, busy : BOOLEAN]
    BY <1>6 DEF Over, Ram
  <2>2. confirm' \in [left : 0..SAMPLES, anchor : Ram, busy : BOOLEAN]
    BY <1>6 DEF Over, Ram, NoConfirm
  <2>. QED
    <3>1. gpu' \in BOOLEAN /\ probe' \in BOOLEAN /\ loaded' \in BOOLEAN /\ late' \in BOOLEAN
      BY <1>6, Zenon DEF Over
    <3>2. ram' \in 0..MaxRam /\ silent' \in 0..Longest /\ idle' \in 0..Longest /\ hung' \in 0..(2 * Longest)
      BY <1>6, WatchdogAssumption DEF Over
    <3>. QED
      BY <1>6, <2>1, <2>2, <3>1, <3>2, Zenon DEF Over
<1>7. CASE ClockLoop
  BY <1>7 DEF ClockLoop, Poll, Trip, body, history
<1>8. CASE HealthLoop
  <2>1. _reset_window(INTERVAL) \in [left : 0..Longest, anchor : Ram, busy : BOOLEAN]
    BY WindowTyped
  <2>2. health' \in [left : 0..Longest, anchor : Ram, busy : BOOLEAN]
    BY <1>8, <2>1, Zenon DEF HealthLoop
  <2>. QED
    BY <1>8, <2>2 DEF HealthLoop, Poll, Trip, body, history
<1>9. CASE StallLoop
  <2>1. _sample_ram \in Ram
    BY SampleTyped, Zenon
  <2>2. confirm' \in [left : 0..SAMPLES, anchor : Ram, busy : BOOLEAN]
    <3>1. NoConfirm \in [left : 0..SAMPLES, anchor : Ram, busy : BOOLEAN]
      BY DEF NoConfirm, Ram
    <3>2. ASSUME NEW n \in 0..SAMPLES, NEW a \in Ram, NEW b \in BOOLEAN,
                 confirm' = [left |-> n, anchor |-> a, busy |-> b]
          PROVE  confirm' \in [left : 0..SAMPLES, anchor : Ram, busy : BOOLEAN]
      BY <3>2, Zenon
    <3>3. ASSUME _confirm_wedged, confirm' # NoConfirm
          PROVE  \E n \in 0..SAMPLES, a \in Ram, b \in BOOLEAN :
                   confirm' = [left |-> n, anchor |-> a, busy |-> b]
      <4> DEFINE first == confirm.left = 0
                 n == (IF first THEN SAMPLES ELSE confirm.left) - 1
                 a == IF first THEN _sample_ram ELSE confirm.anchor
                 b == gpu \/ (~ first /\ confirm.busy)
      <4>1. n \in 0..SAMPLES /\ a \in Ram /\ b \in BOOLEAN
        BY <2>1
      <4>2. confirm' = [left |-> n, anchor |-> a, busy |-> b]
        BY <3>3, Zenon DEF _confirm_wedged
      <4>. QED
        BY <4>1, <4>2, Zenon
    <3>. QED
      BY <1>9, <3>1, <3>2, <3>3, Zenon DEF StallLoop
  <2>3. stall' \in Deadline /\ tripped' \in {"clock", "stall", "health", None}
    BY <1>9 DEF StallLoop, _confirm_wedged, Trip
  <2>. QED
    BY <1>9, <2>2, <2>3 DEF StallLoop, Poll, body, history
<1>10. CASE Tick
  <2>1. clock' \in Deadline /\ stall' \in Deadline
    BY <1>10, WatchdogAssumption DEF Tick, Less
  <2>2. health' \in [left : 0..Longest, anchor : Ram, busy : BOOLEAN]
    BY <1>10 DEF Tick, Less
  <2>3. gpu' \in BOOLEAN /\ ram' \in 0..MaxRam /\ probe' \in BOOLEAN /\ late' \in BOOLEAN
    BY <1>10, Zenon DEF Tick
  <2>4. silent' \in 0..Longest /\ idle' \in 0..Longest /\ hung' \in 0..(2 * Longest)
    BY <1>10 DEF Tick, Older
  <2>. QED
    BY <1>10, <2>1, <2>2, <2>3, <2>4, Zenon DEF Tick
<1>. QED
  BY <1>1, <1>2, <1>3, <1>4, <1>5, <1>6, <1>7, <1>8, <1>9, <1>10, Zenon DEF WatchdogNext

-----------------------------------------------------------------------------
(* The job.                                                                *)

(* The numbers of a running job.                                           *)
LEMMA Numbers ==
  ASSUME WatchdogTypeOK
  PROVE  /\ health.left \in 0..Longest /\ health.anchor \in Ram /\ health.busy \in BOOLEAN
         /\ confirm.left \in 0..SAMPLES /\ confirm.anchor \in Ram /\ confirm.busy \in BOOLEAN
         /\ silent \in 0..Longest /\ idle \in 0..Longest /\ hung \in 0..(2 * Longest)
         /\ stall # None => stall \in 0..Longest
BY Durations, Zenon DEF WatchdogTypeOK, Deadline

(* _run_node arms the guards of the job's kind with their full times.      *)
LEMMA StartRuns ==
  ASSUME WatchdogInv, NEW k \in DOMAIN Guard, _run_node(k)
  PROVE  Running' /\ UNCHANGED tripped
<1> USE Durations DEF WatchdogInv, WatchdogTypeOK, _run_node, body, history
<1>1. Free
  OBVIOUS
<1>2. /\ silent' = 0 /\ idle' = 0 /\ hung' = 0 /\ polled' = {} /\ node' = "run" /\ kind' = k
      /\ loaded' = FALSE /\ stall' = None /\ confirm'.left = 0 /\ UNCHANGED tripped
  BY <1>1, Zenon DEF Free, NoConfirm
<1>3. ClockInv'
  BY <1>2 DEF ClockInv
<1>4. k # "cpu" => health'.left = GRACE /\ ~ health'.busy
  BY Zenon DEF _reset_window
<1>5. HealthInv'
  BY <1>2, <1>4 DEF HealthInv, Window
<1>6. StallArmed' /\ ConfirmInv' /\ StallHung' /\ NodeInv'
  BY <1>2, WatchdogAssumption DEF StallArmed, ConfirmInv, StallHung, NodeInv
<1>. QED
  BY <1>2, <1>3, <1>5, <1>6, Zenon DEF Running

(* A beat opens a new window of the health guard.                          *)
LEMMA HealthBeatRuns ==
  ASSUME WatchdogInv, HealthBeat
  PROVE  Running' /\ UNCHANGED tripped
<1> USE Durations DEF HealthBeat, body
<1>1. WatchdogTypeOK /\ Running
  BY Zenon DEF WatchdogInv
<1>2. health'.left = INTERVAL /\ ~ health'.busy
  BY Zenon DEF _reset_window
<1>3. silent' = 0 /\ loaded' /\ node' \in {"run", "beat"} /\ node = "run"
  OBVIOUS
<1>4. ClockInv' /\ NodeInv'
  BY <1>1, <1>3, Zenon DEF Running, ClockInv, NodeInv
<1>5. HealthInv'
  BY <1>1, <1>2, <1>3, Numbers DEF HealthInv, Window
<1>6. StallArmed'
  BY <1>1, <1>3, Zenon DEF Running, StallArmed
<1>7. ConfirmInv' /\ StallHung'
  BY <1>1, <1>3, Zenon DEF Running, ConfirmInv, StallHung, Polled
<1>. QED
  BY <1>4, <1>5, <1>6, <1>7, Zenon DEF Running

(* The second beat of a step moves the deadline of the stall guard.        *)
LEMMA StallBeatRuns ==
  ASSUME WatchdogInv, StallBeat
  PROVE  Running' /\ UNCHANGED tripped
<1> USE Durations DEF StallBeat, body, history
<1>1. WatchdogTypeOK /\ Running
  BY Zenon DEF WatchdogInv
<1>2. ClockInv' /\ NodeInv'
  BY <1>1, Zenon DEF Running, ClockInv, NodeInv
<1>3. HealthInv'
  BY <1>1, Zenon DEF Running, HealthInv, Window
<1>4. StallArmed'
  BY <1>1, Numbers, WatchdogAssumption DEF Running, StallArmed, NodeInv
<1>5. ConfirmInv' /\ StallHung'
  BY <1>1, Zenon DEF Running, ConfirmInv, StallHung, Polled
<1>. QED
  BY <1>2, <1>3, <1>4, <1>5, Zenon DEF Running

(* A job hangs in a window of at most the longest length, and in at most   *)
(* one confirmation.                                                       *)
LEMMA WedgeRuns ==
  ASSUME WatchdogInv, Wedge
  PROVE  Running' /\ UNCHANGED tripped
<1> USE Durations DEF Wedge, history
<1>1. WatchdogTypeOK /\ Running
  BY Zenon DEF WatchdogInv
<1>2. hung' = 0 /\ node' = "wedged" /\ node = "run" /\ ~ gpu'
  BY <1>1, Zenon DEF Running, NodeInv
<1>3. ClockInv' /\ NodeInv'
  BY <1>1, <1>2, Zenon DEF Running, ClockInv, NodeInv
<1>4. health.left <= LongestWindow \/ kind = "cpu"
  BY <1>1, <1>2, Numbers DEF Running, HealthInv, Window, LongestWindow
<1>5. HealthInv'
  BY <1>1, <1>2, <1>4, Numbers DEF Running, HealthInv, Window, LongestWindow
<1>6. StallArmed'
  BY <1>1, <1>2, Zenon DEF Running, StallArmed
<1>7. ConfirmInv' /\ StallHung'
  BY <1>1, <1>2, Numbers DEF Running, StallArmed, ConfirmInv, StallHung, Polled
<1>. QED
  BY <1>3, <1>5, <1>6, <1>7, Zenon DEF Running

-----------------------------------------------------------------------------
(* The guards.                                                             *)

Spared == BusyGpuIsSpared /\ SteadyJobIsSpared

(* Watchdog._loop ends a CPU job at the end of its budget.                 *)
LEMMA ClockLoopRuns ==
  ASSUME WatchdogInv, ClockLoop
  PROVE  (tripped' = None => Running') /\ Spared'
<1> USE Durations, WatchdogAssumption DEF ClockLoop, Poll, Trip, body, history
<1>1. WatchdogTypeOK /\ Running /\ kind = "cpu" /\ node # "free" /\ tripped = None
  BY DEF WatchdogInv, WatchdogTypeOK, Guard
<1>2. Spared'
  BY <1>1, Numbers DEF Running, ClockInv, Spared, BusyGpuIsSpared, SteadyJobIsSpared
<1>3. ASSUME tripped' = None
      PROVE  Running'
  <2>1. ClockInv'
    BY <1>1, <1>3 DEF Running, ClockInv
  <2>2. HealthInv' /\ NodeInv'
    BY <1>1, Zenon DEF Running, HealthInv, NodeInv
  <2>3. StallArmed' /\ ConfirmInv' /\ StallHung'
    BY <1>1, Zenon DEF Running, StallArmed, ConfirmInv, StallHung, Polled
  <2>. QED
    BY <2>1, <2>2, <2>3, Zenon DEF Running
<1>. QED
  BY <1>2, <1>3, Zenon

(* Memory that does not change does not move, however the sampler flickers.*)
LEMMA StillRam ==
  ASSUME WatchdogTypeOK, NEW anchor \in {ram, None}
  PROVE  ~ RamMoved(anchor, _sample_ram)
BY WatchdogAssumption DEF WatchdogTypeOK, RamMoved, _sample_ram

(* GpuHealthWatchdog ends a window: it stops a job that nothing was seen   *)
(* of, and opens the next window otherwise.  The window after the one a    *)
(* job hangs in has seen nothing.                                          *)
LEMMA HealthLoopRuns ==
  ASSUME WatchdogInv, HealthLoop
  PROVE  (tripped' = None => Running') /\ Spared'
<1> USE Durations, WatchdogAssumption DEF HealthLoop, Poll, Trip, body, history
<1>1. WatchdogTypeOK /\ Running /\ kind # "cpu" /\ node # "free" /\ tripped = None
  BY DEF WatchdogInv, WatchdogTypeOK, Guard
<1>2. HealthInv
  BY <1>1, Zenon DEF Running
<1>3. Spared'
  <2>1. CASE tripped' = None
    BY <2>1, Zenon DEF Spared, BusyGpuIsSpared, SteadyJobIsSpared
  <2>2. CASE tripped' # None
    <3>1. tripped' = "health" /\ health.left = 0 /\ ~ gpu /\ ~ health.busy
      BY <1>1, <2>2, Numbers
    <3>. QED
      BY <1>1, <1>2, <3>1, Numbers DEF HealthInv, Window, Spared, BusyGpuIsSpared, SteadyJobIsSpared
  <2>. QED
    BY <2>1, <2>2, Zenon
<1>4. ASSUME tripped' = None
      PROVE  Running'
  <2>1. ClockInv' /\ NodeInv'
    BY <1>1, Zenon DEF Running, ClockInv, NodeInv
  <2>2. StallArmed' /\ ConfirmInv' /\ StallHung'
    BY <1>1, Zenon DEF Running, StallArmed, ConfirmInv, StallHung, Polled
  <2>3. CASE health.left > 0
    <3>1. health'.left = health.left /\ health'.anchor = health.anchor /\ (health'.busy <=> health.busy \/ gpu)
      BY <1>1, <2>3, Zenon DEF WatchdogTypeOK
    <3>2. HealthInv'
      BY <1>1, <1>2, <2>3, <3>1, Numbers, Zenon DEF HealthInv, Window, LongestWindow, Running, NodeInv
    <3>. QED
      BY <2>1, <2>2, <3>2, Zenon DEF Running
  <2>4. CASE ~ (health.left > 0)
    <3>1. health.left = 0 /\ (health.busy \/ gpu \/ RamMoved(health.anchor, _sample_ram))
      BY <1>1, <1>4, <2>4, Numbers
    <3>2. health'.left = INTERVAL /\ health'.anchor = _sample_ram /\ ~ health'.busy
      BY <1>4, <2>4, <3>1 DEF _reset_window
    <3>3. node = "wedged" => hung <= LongestWindow
      BY <1>1, <1>2, <3>1, StillRam, Numbers DEF HealthInv, Running, NodeInv
    <3>4. health'.anchor \in {ram', None}
      BY <1>1, <3>2, SampleTyped, Zenon
    <3>5. HealthInv'
      BY <1>1, <1>2, <3>1, <3>2, <3>3, <3>4, Numbers DEF HealthInv, Window, LongestWindow
    <3>. QED
      BY <2>1, <2>2, <3>5, Zenon DEF Running
  <2>. QED
    BY <2>3, <2>4, Zenon
<1>. QED
  BY <1>3, <1>4, Zenon

(* What a poll of the stall guard leaves alone.                            *)
LEMMA StallLoopFrame ==
  ASSUME WatchdogInv, StallLoop
  PROVE  /\ WatchdogTypeOK /\ Running /\ kind = "progress" /\ node # "free" /\ tripped = None
         /\ polled' = polled \cup {"stall"} /\ "stall" \notin polled
         /\ UNCHANGED <<kind, node, gpu, ram, probe, clock, health, loaded, late, silent, idle, hung>>
         /\ ClockInv' /\ HealthInv' /\ NodeInv'
<1>1. /\ WatchdogTypeOK /\ Running /\ kind = "progress" /\ node # "free" /\ tripped = None
      /\ polled' = polled \cup {"stall"} /\ "stall" \notin polled
      /\ UNCHANGED <<kind, node, gpu, ram, probe, clock, health, loaded, late, silent, idle, hung>>
  BY DEF WatchdogInv, WatchdogTypeOK, Guard, StallLoop, Poll, body, history
<1>2. ClockInv' /\ NodeInv'
  BY <1>1, Zenon DEF Running, ClockInv, NodeInv
<1>3. HealthInv'
  BY <1>1, Zenon DEF Running, HealthInv, Window, LongestWindow
<1>. QED
  BY <1>1, <1>2, <1>3, Zenon

(* A sample of _confirm_wedged that is not the last.                       *)
LEMMA SampleRuns ==
  ASSUME WatchdogInv, StallLoop, NEW left \in 1..SAMPLES-1, NEW anchor, NEW busy \in BOOLEAN,
         confirm' = [left |-> left, anchor |-> anchor, busy |-> busy],
         UNCHANGED <<stall, tripped>>,
         \/ confirm.left = 0 /\ stall = 0 /\ left = SAMPLES - 1 /\ anchor = _sample_ram /\ busy = gpu
         \/ /\ confirm.left > 0 /\ left = confirm.left - 1 /\ anchor = confirm.anchor
            /\ busy = (gpu \/ confirm.busy)
  PROVE  Running' /\ Spared'
<1> USE Durations, WatchdogAssumption
<1>1. /\ WatchdogTypeOK /\ Running /\ kind = "progress" /\ node # "free" /\ tripped = None
      /\ polled' = polled \cup {"stall"} /\ "stall" \notin polled
      /\ UNCHANGED <<kind, node, gpu, ram, probe, clock, health, loaded, late, silent, idle, hung>>
      /\ ClockInv' /\ HealthInv' /\ NodeInv'
  BY StallLoopFrame, Zenon
<1>2. confirm'.left = left /\ confirm'.anchor = anchor /\ confirm'.busy = busy
  OBVIOUS
<1>3. stall # None /\ late /\ stall \in 0..TIMEOUT
  BY <1>1 DEF Running, StallArmed
<1>4. StallArmed'
  BY <1>1, <1>2, <1>3 DEF Running, StallArmed
<1>5. Polled("stall") = 0 /\ Polled("stall")' = 1
  BY <1>1, Zenon DEF Polled
<1>6. ConfirmInv'
  BY <1>1, <1>2, <1>5, Numbers DEF Running, ConfirmInv
<1>7. StallHung'
  <2>1. CASE confirm.left = 0 /\ stall = 0 /\ left = SAMPLES - 1 /\ anchor = _sample_ram /\ busy = gpu
    <3>1. anchor \in {ram', None}
      BY <1>1, <2>1, SampleTyped, Zenon
    <3>2. node = "wedged" => hung <= TIMEOUT + SAMPLES /\ ~ busy
      BY <1>1, <1>3, <2>1, Numbers DEF Running, StallHung, NodeInv
    <3>. QED
      BY <1>1, <1>2, <1>5, <2>1, <3>1, <3>2, Numbers DEF StallHung
  <2>2. CASE /\ confirm.left > 0 /\ left = confirm.left - 1 /\ anchor = confirm.anchor
             /\ busy = (gpu \/ confirm.busy)
    <3>1. node = "wedged" => ~ gpu
      BY <1>1, Zenon DEF Running, NodeInv
    <3>. QED
      BY <1>1, <1>2, <1>3, <1>5, <2>2, <3>1, Numbers DEF Running, StallHung
  <2>. QED
    BY <2>1, <2>2, Zenon
<1>8. Spared'
  BY <1>1, Zenon DEF Spared, BusyGpuIsSpared, SteadyJobIsSpared
<1>. QED
  BY <1>1, <1>4, <1>6, <1>7, <1>8, Zenon DEF Running

(* The last sample: the job is stopped if every sample was idle, and the   *)
(* deadline is re-armed otherwise.  A job that hung before the first       *)
(* sample is stopped.                                                      *)
LEMMA VerdictRuns ==
  ASSUME WatchdogInv, StallLoop, NEW anchor, NEW busy \in BOOLEAN,
         confirm' = NoConfirm,
         \/ confirm.left = 0 /\ stall = 0 /\ SAMPLES = 1 /\ anchor = _sample_ram /\ busy = gpu
         \/ confirm.left = 1 /\ anchor = confirm.anchor /\ busy = (gpu \/ confirm.busy),
         IF ~ busy /\ ~ RamMoved(anchor, _sample_ram)
           THEN tripped' = "stall" /\ UNCHANGED stall
           ELSE stall' = TIMEOUT /\ UNCHANGED tripped
  PROVE  (tripped' = None => Running') /\ Spared'
<1> USE Durations, WatchdogAssumption
<1>1. /\ WatchdogTypeOK /\ Running /\ kind = "progress" /\ node # "free" /\ tripped = None
      /\ polled' = polled \cup {"stall"} /\ "stall" \notin polled
      /\ UNCHANGED <<kind, node, gpu, ram, probe, clock, health, loaded, late, silent, idle, hung>>
      /\ ClockInv' /\ HealthInv' /\ NodeInv'
  BY StallLoopFrame, Zenon
<1>2. confirm'.left = 0
  BY Zenon DEF NoConfirm
<1>3. stall # None /\ late /\ loaded /\ stall \in 0..TIMEOUT /\ Polled("stall") = 0
  BY <1>1 DEF Running, StallArmed, Polled
<1>4. Spared'
  <2>1. tripped' = "stall" => ~ gpu /\ idle >= SAMPLES - 1
    BY <1>1, <1>3, Numbers DEF Running, ConfirmInv
  <2>. QED
    BY <1>1, <1>3, <2>1, Zenon DEF Spared, BusyGpuIsSpared, SteadyJobIsSpared
<1>5. ASSUME tripped' = None
      PROVE  Running'
  <2>1. stall' = TIMEOUT /\ (busy \/ RamMoved(anchor, _sample_ram))
    BY <1>5, Zenon
  <2>2. StallArmed' /\ ConfirmInv'
    BY <1>1, <1>2, <1>3, <2>1, Numbers DEF StallArmed, ConfirmInv
  <2>3. node = "wedged" => hung <= SAMPLES
    <3>1. anchor \in {ram, None} => busy
      BY <1>1, <2>1, StillRam, Zenon
    <3>2. _sample_ram \in {ram, None}
      BY <1>1, SampleTyped, Zenon
    <3>. QED
      BY <1>1, <1>3, <3>1, <3>2, Numbers DEF Running, StallHung, NodeInv
  <2>4. StallHung'
    BY <1>1, <1>2, <2>1, <2>3, Numbers DEF StallHung
  <2>. QED
    BY <1>1, <2>2, <2>4, Zenon DEF Running
<1>. QED
  BY <1>4, <1>5, Zenon

(* A poll of StallWatchdog._loop keeps the deadlines of the guards unless  *)
(* it trips, and trips only on a job it may stop.                          *)
LEMMA StallLoopRuns ==
  ASSUME WatchdogInv, StallLoop
  PROVE  (tripped' = None => Running') /\ Spared'
<1> USE Durations, WatchdogAssumption
<1>1. /\ WatchdogTypeOK /\ Running /\ kind = "progress" /\ node # "free" /\ tripped = None
      /\ polled' = polled \cup {"stall"} /\ "stall" \notin polled
      /\ UNCHANGED <<kind, node, gpu, ram, probe, clock, health, loaded, late, silent, idle, hung>>
      /\ ClockInv' /\ HealthInv' /\ NodeInv'
  BY StallLoopFrame, Zenon
<1>2. CASE ~ (stall = 0 \/ confirm.left > 0)
  <2>1. UNCHANGED <<stall, confirm, tripped>> /\ confirm.left = 0
    BY <1>1, <1>2, Numbers DEF StallLoop
  <2>2. StallArmed' /\ ConfirmInv' /\ StallHung'
    BY <1>1, <1>2, <2>1, Zenon DEF Running, StallArmed, ConfirmInv, StallHung
  <2>3. Spared'
    BY <1>1, <2>1, Zenon DEF Spared, BusyGpuIsSpared, SteadyJobIsSpared
  <2>. QED
    BY <1>1, <2>2, <2>3, Zenon DEF Running
<1>3. CASE stall = 0 \/ confirm.left > 0
  <2> DEFINE first == confirm.left = 0
             left == (IF first THEN SAMPLES ELSE confirm.left) - 1
             anchor == IF first THEN _sample_ram ELSE confirm.anchor
             busy == gpu \/ (~ first /\ confirm.busy)
  <2>1. /\ left \in 0..SAMPLES-1 /\ busy \in BOOLEAN /\ confirm.left \in 0..SAMPLES
    BY <1>1, Numbers
  <2>2. \/ confirm.left = 0 /\ stall = 0 /\ left = SAMPLES - 1 /\ anchor = _sample_ram /\ busy = gpu
        \/ /\ confirm.left > 0 /\ left = confirm.left - 1 /\ anchor = confirm.anchor
           /\ busy = (gpu \/ confirm.busy)
    BY <1>1, <1>3, Numbers DEF WatchdogTypeOK
  <2>3. IF left > 0
          THEN /\ confirm' = [left |-> left, anchor |-> anchor, busy |-> busy]
               /\ UNCHANGED <<stall, tripped>>
          ELSE /\ confirm' = NoConfirm
               /\ IF ~ busy /\ ~ RamMoved(anchor, _sample_ram)
                    THEN tripped' = "stall" /\ UNCHANGED stall
                    ELSE stall' = TIMEOUT /\ UNCHANGED tripped
    BY <1>3, Zenon DEF StallLoop, _confirm_wedged, Trip
  <2> HIDE DEF first, left, anchor, busy
  <2>4. CASE left > 0
    BY <2>1, <2>2, <2>3, <2>4, SampleRuns
  <2>5. CASE ~ (left > 0)
    <3>1. \/ confirm.left = 0 /\ stall = 0 /\ SAMPLES = 1 /\ anchor = _sample_ram /\ busy = gpu
          \/ confirm.left = 1 /\ anchor = confirm.anchor /\ busy = (gpu \/ confirm.busy)
      BY <2>1, <2>2, <2>5
    <3>. QED
      BY <2>1, <2>3, <2>5, <3>1, VerdictRuns, Zenon
  <2>. QED
    BY <2>4, <2>5, Zenon
<1>. QED
  BY <1>2, <1>3, Zenon

-----------------------------------------------------------------------------
(* Time.                                                                   *)

(* A unit passes: what is left of a deadline and what has passed of it     *)
(* trade one unit.  Every guard has polled, so no deadline has passed that *)
(* was not acted on.                                                       *)
LEMMA TickRuns ==
  ASSUME WatchdogInv, Tick
  PROVE  Running' /\ Spared'
<1> USE Durations, WatchdogAssumption
<1>1. WatchdogTypeOK /\ Running /\ tripped = None /\ tripped' = None /\ node \in {"run", "wedged"}
      /\ UNCHANGED <<kind, node, confirm, loaded>> /\ polled' = {} /\ polled = Guard[kind]
  BY Zenon DEF WatchdogInv, Tick
<1>2. /\ silent' = Older(silent, Longest) /\ silent' \in Nat /\ silent' >= silent
      /\ silent' = silent + 1 \/ (silent = Longest /\ silent' = Longest)
  BY <1>1, Numbers DEF Tick, Older
<1>3. /\ idle' \in Nat
      /\ ~ gpu => idle' = idle + 1 \/ (idle = Longest /\ idle' = Longest)
  BY <1>1, Numbers DEF Tick, Older
<1>4. PICK u \in 0..1 : hung' = hung + u
  BY <1>1, Numbers DEF Tick, Older
<1>5. NodeInv'
  BY <1>1, Zenon DEF Running, NodeInv, Tick
<1>6. ClockInv'
  <2>1. SUFFICES ASSUME kind = "cpu"
                 PROVE  ClockInv'
    BY <1>1, Zenon DEF ClockInv
  <2>2. clock \in 1..BUDGET /\ clock' = clock - 1 /\ clock + silent >= BUDGET /\ clock + hung <= BUDGET
    BY <1>1, <2>1 DEF Running, ClockInv, Guard, Tick, Less
  <2>3. hung \in Nat /\ silent \in Nat
    BY <1>1, Numbers
  <2>. QED
    <3>1. clock' \in 0..BUDGET /\ clock' + silent' >= BUDGET
      BY <1>2, <2>2, <2>3
    <3>2. clock' + hung' <= BUDGET
      BY <1>4, <2>2, <2>3
    <3>. QED
      BY <1>1, <3>1, <3>2, Zenon DEF ClockInv
<1>7. HealthInv'
  <2>1. SUFFICES ASSUME kind # "cpu"
                 PROVE  HealthInv'
    BY <1>1, Zenon DEF HealthInv
  <2>2. "health" \in polled /\ HealthInv /\ node # "free"
    BY <1>1, <2>1 DEF Running, Guard, WatchdogTypeOK
  <2>3. /\ health.left > 0 /\ health'.left = health.left - 1 /\ health'.anchor = health.anchor
        /\ health'.busy = health.busy
    BY <1>1, <2>1, <2>2, Numbers DEF HealthInv, Tick, Less, WatchdogTypeOK
  <2>4. ASSUME NEW w \in {INTERVAL, GRACE}, Window(w)
        PROVE  Window(w)'
    <3>1. ~ health.busy => idle' + health'.left >= w - 1
      BY <1>1, <1>3, <2>2, <2>3, <2>4, Numbers DEF Window
    <3>. QED
      BY <1>1, <2>3, <2>4, <3>1, Numbers DEF Window
  <2>5. Window(INTERVAL)' \/ (~ loaded' /\ Window(GRACE)')
    BY <1>1, <2>1, <2>2, <2>4, Zenon DEF HealthInv
  <2>6. health'.left + silent' >= (IF loaded THEN INTERVAL ELSE GRACE)
    BY <1>1, <1>2, <2>1, <2>2, <2>3, Numbers DEF HealthInv
  <2>7. node = "wedged" =>
          \/ hung' + health'.left <= LongestWindow
          \/ /\ hung' + health'.left <= LongestWindow + INTERVAL
             /\ ~ health.busy /\ health.anchor \in {ram, None}
    BY <1>1, <1>4, <2>1, <2>2, <2>3, Numbers DEF HealthInv, LongestWindow
  <2>8. node = "wedged" => ram' = ram
    BY Zenon DEF Tick
  <2>9. LongestWindow' = LongestWindow
    BY <1>1, Zenon DEF LongestWindow
  <2>. QED
    BY <1>1, <2>3, <2>5, <2>6, <2>7, <2>8, <2>9, Zenon DEF HealthInv
<1>8. ASSUME stall # None
      PROVE  /\ kind = "progress" /\ "stall" \in polled /\ loaded /\ stall \in 0..TIMEOUT
             /\ stall' = IF stall = 0 THEN 0 ELSE stall - 1
             /\ stall = 0 => confirm.left > 0
  BY <1>1, <1>8 DEF Running, StallArmed, Guard, Tick, Less
<1>9. stall = None => stall' = None /\ confirm.left = 0
  BY <1>1, Numbers DEF Running, StallArmed, Tick, Less
<1>10. StallArmed'
  <2>1. CASE stall = None
    BY <1>1, <1>9, <2>1 DEF StallArmed
  <2>2. CASE stall # None
    <3>1. stall' \in 0..TIMEOUT /\ stall' # None
      BY <1>8, <2>2
    <3>2. late \/ stall + silent >= TIMEOUT
      BY <1>1, <2>2, Zenon DEF Running, StallArmed
    <3>3. late' \/ (stall' > 0 /\ stall' + silent' >= TIMEOUT)
      <4>1. CASE late
        BY <4>1, Zenon DEF Tick
      <4>2. CASE ~ late
        <5>1. stall > 0 /\ stall + silent >= TIMEOUT /\ stall' = stall - 1 /\ stall \in Nat /\ silent \in Nat
          BY <1>1, <1>8, <2>2, <4>2, Numbers DEF Running, StallArmed
        <5>2. stall' + silent' >= TIMEOUT
          BY <1>2, <5>1
        <5>3. stall' = 0 => silent' >= TIMEOUT
          BY <1>2, <5>2
        <5>4. loaded /\ silent' >= TIMEOUT => late'
          BY Zenon DEF Tick
        <5>. QED
          BY <1>8, <2>2, <5>1, <5>2, <5>3, <5>4
      <4>. QED
        BY <4>1, <4>2, Zenon
    <3>4. confirm.left > 0 => late'
      BY <1>1, Zenon DEF Running, StallArmed, Tick
    <3>. QED
      BY <1>1, <1>8, <2>2, <3>1, <3>3, <3>4, Zenon DEF Running, StallArmed
  <2>. QED
    BY <2>1, <2>2, Zenon
<1>11. Polled("stall")' = 0 /\ (stall # None => Polled("stall") = 1)
  BY <1>1, <1>8, Zenon DEF Polled
<1>12. ConfirmInv'
  BY <1>1, <1>3, <1>9, <1>8, <1>11, Numbers DEF Running, ConfirmInv
<1>13. StallHung'
  <2>1. SUFFICES ASSUME node = "wedged", stall # None
                 PROVE  StallHung'
    BY <1>1, <1>9, Zenon DEF StallHung
  <2>2. ram' = ram
    BY <2>1, Zenon DEF Tick
  <2>3. CASE confirm.left = 0
    <3>1. hung + stall <= TIMEOUT + SAMPLES /\ stall \in 1..TIMEOUT /\ stall' = stall - 1 /\ hung \in Nat
      BY <1>1, <1>8, <2>1, <2>3, Numbers DEF Running, StallHung
    <3>2. hung' + stall' <= TIMEOUT + SAMPLES
      BY <1>4, <3>1
    <3>. QED
      BY <1>1, <2>3, <3>2 DEF StallHung
  <2>4. CASE confirm.left > 0
    <3>1. \/ hung + confirm.left + 1 <= SAMPLES
          \/ /\ hung + confirm.left + 1 <= TIMEOUT + 2 * SAMPLES
             /\ ~ confirm.busy /\ confirm.anchor \in {ram, None}
      BY <1>1, <1>11, <2>1, <2>4, Zenon DEF Running, StallHung
    <3>. QED
      BY <1>1, <1>4, <1>11, <2>1, <2>2, <2>4, <3>1, Numbers DEF StallHung
  <2>. QED
    BY <1>1, <2>3, <2>4, Numbers
<1>14. Spared'
  BY <1>1, Zenon DEF Spared, BusyGpuIsSpared, SteadyJobIsSpared
<1>. QED
  BY <1>5, <1>6, <1>7, <1>10, <1>12, <1>13, <1>14, Zenon DEF Running

-----------------------------------------------------------------------------
(* The invariant.                                                          *)

(* No job is running at first.                                             *)
LEMMA WatchdogInitInv == WatchdogInit => WatchdogInv
<1> SUFFICES ASSUME WatchdogInit
             PROVE  WatchdogInv
  OBVIOUS
<1> USE Durations, WatchdogAssumption DEF WatchdogInit, Free, NoConfirm
<1>1. confirm \in [left : 0..SAMPLES, anchor : Ram, busy : BOOLEAN]
  BY DEF Ram
<1>2. health \in [left : 0..Longest, anchor : Ram, busy : BOOLEAN]
  BY DEF Ram
<1>3. WatchdogTypeOK
  <2>1. gpu \in BOOLEAN /\ probe \in BOOLEAN /\ loaded \in BOOLEAN /\ late \in BOOLEAN
    BY Zenon
  <2>2. ram \in 0..MaxRam /\ silent \in 0..Longest /\ idle \in 0..Longest /\ hung \in 0..(2 * Longest)
    OBVIOUS
  <2>. QED
    BY <1>1, <1>2, <2>1, <2>2, Zenon DEF WatchdogTypeOK, Deadline, Guard
<1>4. Running
  BY DEF Running, ClockInv, HealthInv, StallArmed, ConfirmInv, StallHung, NodeInv
<1>5. BusyGpuIsSpared /\ SteadyJobIsSpared
  BY Zenon DEF BusyGpuIsSpared, SteadyJobIsSpared
<1>. QED
  BY <1>3, <1>4, <1>5, Zenon DEF WatchdogInv

(* Every step of the job and the guards keeps the invariant.               *)
LEMMA WatchdogInvStep == WatchdogInv /\ [WatchdogNext]_vars => WatchdogInv'
<1> SUFFICES ASSUME WatchdogInv, [WatchdogNext]_vars
             PROVE  WatchdogInv'
  OBVIOUS
<1> USE Durations, WatchdogAssumption
<1>1. WatchdogTypeOK'
  BY TypeStep, Zenon DEF WatchdogInv
<1>2. CASE Over
  <2>1. Free'
    BY <1>2, Zenon DEF Over, Free, NoConfirm
  <2>2. Running'
    BY <1>2 DEF Over, NoConfirm, Running, ClockInv, HealthInv, StallArmed, ConfirmInv, StallHung, NodeInv
  <2>3. BusyGpuIsSpared' /\ SteadyJobIsSpared'
    BY <1>2, Zenon DEF Over, BusyGpuIsSpared, SteadyJobIsSpared
  <2>. QED
    BY <1>1, <2>1, <2>2, <2>3, Zenon DEF WatchdogInv
<1>3. CASE UNCHANGED vars
  <2>1. Free => Free'
    BY <1>3, Zenon DEF vars, history, Free, NoConfirm
  <2>2. Running => Running'
    BY <1>3 DEF vars, body, history, Running, ClockInv, HealthInv, Window, LongestWindow, StallArmed, ConfirmInv,
      StallHung, NodeInv, Polled
  <2>3. BusyGpuIsSpared' /\ SteadyJobIsSpared'
    BY <1>3, Zenon DEF vars, body, history, WatchdogInv, BusyGpuIsSpared, SteadyJobIsSpared
  <2>. QED
    BY <1>1, <1>3, <2>1, <2>2, <2>3, Zenon DEF WatchdogInv, vars
<1>4. ASSUME \/ \E k \in DOMAIN Guard : _run_node(k)
             \/ HealthBeat \/ StallBeat \/ Wedge
      PROVE  WatchdogInv'
  <2>1. Running' /\ tripped' = tripped
    BY <1>4, StartRuns, HealthBeatRuns, StallBeatRuns, WedgeRuns, Zenon
  <2>2. tripped = None /\ node' # "free"
    BY <1>4, Zenon DEF _run_node, HealthBeat, StallBeat, Wedge, WatchdogInv, Free
  <2>3. BusyGpuIsSpared' /\ SteadyJobIsSpared'
    BY <2>1, <2>2, Zenon DEF BusyGpuIsSpared, SteadyJobIsSpared
  <2>. QED
    BY <1>1, <2>1, <2>2, <2>3, Zenon DEF WatchdogInv
<1>5. ASSUME ClockLoop \/ HealthLoop \/ StallLoop \/ Tick
      PROVE  WatchdogInv'
  <2>1. (tripped' = None => Running') /\ Spared'
    BY <1>5, ClockLoopRuns, HealthLoopRuns, StallLoopRuns, TickRuns, Zenon
  <2>2. node' # "free"
    BY <1>5, Zenon DEF ClockLoop, HealthLoop, StallLoop, Poll, Tick
  <2>. QED
    BY <1>1, <2>1, <2>2, Zenon DEF WatchdogInv, Spared
<1>. QED
  BY <1>2, <1>3, <1>4, <1>5, Zenon DEF WatchdogNext

(* The inductive invariant of the guards: their types, the deadlines       *)
(* against the history, and what a guard that acted had seen.              *)
THEOREM WatchdogInvariant == WatchdogSpec => []WatchdogInv
BY WatchdogInitInv, WatchdogInvStep, PTL DEF WatchdogSpec

(* A job that hangs is stopped within the budget, two windows, or a        *)
(* timeout and two confirmations, for every choice of these durations.     *)
THEOREM WedgedJobsAreStopped == WatchdogSpec => []WedgedJobIsStopped
<1>1. WatchdogInv => WedgedJobIsStopped
  <2> SUFFICES ASSUME WatchdogInv, tripped = None
               PROVE  /\ kind = "cpu" => hung <= BUDGET
                      /\ kind # "cpu" => hung <= LongestWindow + INTERVAL
                      /\ stall # None => hung <= TIMEOUT + 2 * SAMPLES
    BY Zenon DEF WedgedJobIsStopped
  <2> USE Durations
  <2>1. WatchdogTypeOK /\ Running /\ (node = "free" => hung = 0) /\ (node # "wedged" => hung = 0)
    BY Zenon DEF WatchdogInv, Free, Running, NodeInv
  <2>2. kind = "cpu" => hung <= BUDGET
    BY <2>1, Numbers DEF Running, ClockInv
  <2>3. kind # "cpu" => hung <= LongestWindow + INTERVAL
    BY <2>1, Numbers DEF Running, HealthInv, LongestWindow
  <2>4. stall # None => hung <= TIMEOUT + 2 * SAMPLES
    BY <2>1, Numbers DEF Running, StallHung, Polled
  <2>. QED
    BY <2>2, <2>3, <2>4, Zenon
<1>. QED
  BY <1>1, WatchdogInvariant, PTL

(* No guard stops a job whose GPU was seen at work in its window or its    *)
(* confirmation.                                                           *)
THEOREM BusyGpusAreSpared == WatchdogSpec => []BusyGpuIsSpared
<1>1. WatchdogInv => BusyGpuIsSpared
  BY Zenon DEF WatchdogInv
<1>. QED
  BY <1>1, WatchdogInvariant, PTL

(* No guard stops a job before its budget, its grace, an interval after    *)
(* its last beat, or a gap of the timeout.                                 *)
THEOREM SteadyJobsAreSpared == WatchdogSpec => []SteadyJobIsSpared
<1>1. WatchdogInv => SteadyJobIsSpared
  BY Zenon DEF WatchdogInv
<1>. QED
  BY <1>1, WatchdogInvariant, PTL
=============================================================================
