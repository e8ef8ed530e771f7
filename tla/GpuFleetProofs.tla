--------------------------- MODULE GpuFleetProofs ---------------------------
(***************************************************************************)
(* Proofs about the GPU workers, for any number of hosts, jobs, models and *)
(* PAR values, and any number of operator changes, crashes and stops.      *)
(* The invariant is one statement per host, over what its two lanes, its   *)
(* cache and its executor share, and one that ties the jobs on a host's    *)
(* pool threads to their rows: no row of theirs can be claimed again while *)
(* the worker is up, which is why the counter and the jobs agree.          *)
(***************************************************************************)
EXTENDS GpuFleet, FiniteSetTheorems, TLAPS

Busy(h) == IF inline[h] = "free" THEN 0 ELSE 1

Claiming(h) == IF feeder[h] = "claim" THEN 1 ELSE 0

CounterTypes ==
  /\ inflight \in [Host -> Nat] /\ active \in [Host -> 0..1]
  /\ feederPar \in [Host -> Nat] /\ poolMax \in [Host -> Nat] /\ topPar \in [Host -> Nat]

(* A process that is not running has nothing in its memory.                *)
Empty(h) ==
  /\ inline[h] = "free" /\ inlineJob[h] = None /\ active[h] = 0
  /\ feeder[h] = "top" /\ feederPar[h] = 1 /\ inflight[h] = 0
  /\ pooled[h] = {} /\ onPool[h] = {}

(* The PAR a thread works with is one the worker has seen, and the         *)
(* executor is as large as the PAR of the feeder that submits to it.       *)
WithinPar(h) ==
  /\ par[h] <= topPar[h] /\ feederPar[h] <= topPar[h]
  /\ inflight[h] + Busy(h) <= topPar[h]
  /\ feeder[h] # "top" => feederPar[h] <= poolMax[h]
  /\ feeder[h] = "claim" => inflight[h] <= feederPar[h]

(* The counter covers the jobs on pool threads and the slot being filled;  *)
(* while the worker is up it counts nothing else.                          *)
SlotsCovered(h) ==
  /\ IsFiniteSet(pooled[h]) /\ onPool[h] \subseteq pooled[h]
  /\ inflight[h] >= Cardinality(pooled[h]) + Claiming(h)
  /\ life[h] = "up" => /\ inflight[h] = Cardinality(pooled[h]) + Claiming(h)
                       /\ Cardinality(onPool[h]) <= poolMax[h]

(* The cache is marked busy exactly while the inline lane has a job.       *)
CacheMarked(h) ==
  /\ inline[h] \in {"load", "swap", "infer"} <=> active[h] = 1
  /\ active[h] = 1 => inlineJob[h] \in ModelJob
  /\ inline[h] = "infer" => slot[h] = ModelOf[inlineJob[h]]

HostInv(h) ==
  /\ ~ Alive(h) => Empty(h)
  /\ WithinPar(h) /\ SlotsCovered(h) /\ CacheMarked(h)

(* A job on a pool thread of a worker that is up is that worker's, or done.*)
PoolOwned ==
  \A h \in Host : life[h] = "up" =>
    \A j \in pooled[h] : status[j] = "done" \/ (status[j] = "running" /\ owner[j] = h)

FleetInv ==
  /\ FleetTypeOK /\ CounterTypes
  /\ \A h \in Host : HostInv(h)
  /\ PoolOwned /\ FlaggedIsSilent

-----------------------------------------------------------------------------
(* Sets and numbers.                                                       *)

(* Max of two numbers, as _pool_budget, mark_idle and topPar use it.       *)
LEMMA MaxPair ==
  ASSUME NEW a \in Int, NEW b \in Int
  PROVE  Max({a, b}) \in {a, b} /\ Max({a, b}) >= a /\ Max({a, b}) >= b
<1>1. \E x \in {a, b} : \A y \in {a, b} : x >= y
  OBVIOUS
<1>. QED
  BY <1>1, Zenon DEF Max

(* Submitting a job to the pool, and ending one.                           *)
LEMMA PoolCounts ==
  ASSUME NEW S, IsFiniteSet(S), NEW j
  PROVE  /\ Cardinality(S) \in Nat
         /\ IsFiniteSet(S \cup {j}) /\ IsFiniteSet(S \ {j})
         /\ j \notin S => Cardinality(S \cup {j}) = Cardinality(S) + 1
         /\ j \in S => /\ S \cup {j} = S
                       /\ Cardinality(S) >= 1
                       /\ Cardinality(S \ {j}) = Cardinality(S) - 1
<1>1. Cardinality(S) \in Nat /\ Cardinality(S \ {j}) \in Nat
  BY FS_CardinalityType, FS_RemoveElement, Zenon
<1>2. /\ IsFiniteSet(S \cup {j}) /\ IsFiniteSet(S \ {j})
      /\ j \notin S => Cardinality(S \cup {j}) = Cardinality(S) + 1
      /\ j \in S => Cardinality(S \ {j}) = Cardinality(S) - 1
  BY FS_AddElement, FS_RemoveElement, Zenon
<1>. QED
  BY <1>1, <1>2

(* A job the executor has is a job of the pool.                            *)
LEMMA SubsetCounts ==
  ASSUME NEW S, IsFiniteSet(S), NEW T \in SUBSET S
  PROVE  IsFiniteSet(T) /\ Cardinality(T) \in Nat /\ Cardinality(T) <= Cardinality(S)
BY FS_Subset, FS_CardinalityType, Zenon

-----------------------------------------------------------------------------
(* What a step leaves alone.                                               *)

HostKept(h) ==
  /\ life'[h] = life[h] /\ inline'[h] = inline[h] /\ inlineJob'[h] = inlineJob[h]
  /\ feeder'[h] = feeder[h] /\ feederPar'[h] = feederPar[h] /\ inflight'[h] = inflight[h]
  /\ pooled'[h] = pooled[h] /\ onPool'[h] = onPool[h] /\ poolMax'[h] = poolMax[h]
  /\ slot'[h] = slot[h] /\ active'[h] = active[h]
  /\ par'[h] = par[h] /\ topPar'[h] = topPar[h]

(* What a host's threads share is nobody else's.                           *)
LEMMA KeptHostInv ==
  ASSUME NEW h \in Host, HostInv(h), HostKept(h)
  PROVE  HostInv(h)'
BY DEF HostInv, HostKept, Alive, Empty, WithinPar, SlotsCovered, CacheMarked, Busy, Claiming

(* A step of one host leaves the others' processes alone.                  *)
LEMMA OthersKept ==
  ASSUME FleetTypeOK, CounterTypes, NEW g \in Host, HostStep(g), NEW h \in Host, h # g
  PROVE  HostKept(h)
<1>0. /\ h # g
      /\ h \in DOMAIN life /\ h \in DOMAIN inline /\ h \in DOMAIN inlineJob /\ h \in DOMAIN feeder
      /\ h \in DOMAIN feederPar /\ h \in DOMAIN inflight /\ h \in DOMAIN pooled /\ h \in DOMAIN onPool
      /\ h \in DOMAIN poolMax /\ h \in DOMAIN slot /\ h \in DOMAIN active
      /\ h \in DOMAIN par /\ h \in DOMAIN topPar
  BY DEF FleetTypeOK, CounterTypes
<1> USE DEF HostKept, rowVars, jobVars, laneVars, cacheVars
<1>1. CASE emit_once(g) \/ HeartbeatAges(g)
  BY ONLY <1>0, <1>1, Zenon DEF emit_once, HeartbeatAges, upsert_worker_heartbeat
<1>2. CASE Enter(g)
  BY ONLY <1>0, <1>2, Zenon DEF Enter
<1>3. CASE Park(g) \/ RefuseBlind(g)
  BY ONLY <1>0, <1>3, Zenon DEF Park, RefuseBlind
<1>4. CASE set_worker_control(g) \/ stop(g)
  BY ONLY <1>0, <1>4, Zenon DEF set_worker_control, stop
<1>5. CASE Bounce(g)
  BY ONLY <1>0, <1>5, Zenon DEF Bounce
<1>6. CASE \E p \in Par : set_llm_config(g, p)
  BY ONLY <1>0, <1>6, Zenon DEF set_llm_config
<1>7. CASE _apply_hard_stop(g)
  BY ONLY <1>0, <1>7, Zenon DEF _apply_hard_stop
<1>8. CASE Exit(g) \/ Leave(g) \/ Crash(g)
  <2>1. \E next \in {"boot", "dead"} : Gone(g, next)
    BY ONLY <1>8, Zenon DEF Exit, Leave, Crash
  <2>. QED
    BY ONLY <1>0, <2>1, Zenon DEF Gone
<1>9. CASE InlineReserve(g)
  BY ONLY <1>0, <1>9, Zenon DEF InlineReserve
<1>10. CASE InlineClaim(g)
  BY ONLY <1>0, <1>10, Zenon DEF InlineClaim
<1>11. CASE InlineFinish(g)
  BY ONLY <1>0, <1>11, Zenon DEF InlineFinish
<1>12. CASE require_model(g)
  BY ONLY <1>0, <1>12, Zenon DEF require_model, _publish_current_model
<1>13. CASE Loaded(g)
  BY ONLY <1>0, <1>13, Zenon DEF Loaded, _publish_current_model
<1>14. CASE reap_idle_once(g)
  BY ONLY <1>0, <1>14, Zenon DEF reap_idle_once, _publish_current_model
<1>15. CASE FeederTop(g)
  BY ONLY <1>0, <1>15, Zenon DEF FeederTop
<1>16. CASE FeederAsk(g)
  BY ONLY <1>0, <1>16, Zenon DEF FeederAsk
<1>17. CASE FeederReserve(g)
  BY ONLY <1>0, <1>17, Zenon DEF FeederReserve
<1>18. CASE FeederClaim(g)
  BY ONLY <1>0, <1>18, Zenon DEF FeederClaim
<1>19. CASE SubmitFails(g)
  BY ONLY <1>0, <1>19, Zenon DEF SubmitFails
<1>20. CASE \E j \in VlmJob : _pool_run_and_release(g, j)
  BY ONLY <1>0, <1>20, Zenon DEF _pool_run_and_release
<1>. QED
  BY <1>1, <1>2, <1>3, <1>4, <1>5, <1>6, <1>7, <1>8, <1>9, <1>10, <1>11, <1>12, <1>13, <1>14, <1>15, <1>16,
    <1>17, <1>18, <1>19, <1>20, Zenon DEF HostStep

-----------------------------------------------------------------------------
(* The host that steps.                                                    *)

(* The numbers of a host.                                                  *)
LEMMA HostNumbers ==
  ASSUME FleetTypeOK, CounterTypes, NEW g \in Host, HostInv(g)
  PROVE  /\ par[g] \in Nat \ {0} /\ topPar[g] \in Nat /\ feederPar[g] \in Nat /\ poolMax[g] \in Nat
         /\ inflight[g] \in Nat /\ active[g] \in 0..1
         /\ Cardinality(pooled[g]) \in Nat /\ Cardinality(onPool[g]) \in Nat
<1>1. par[g] \in Nat \ {0}
  BY GpuFleetAssumption, Zenon DEF FleetTypeOK
<1>2. Cardinality(pooled[g]) \in Nat /\ Cardinality(onPool[g]) \in Nat
  BY FS_CardinalityType, SubsetCounts, Zenon DEF HostInv, SlotsCovered
<1>. QED
  BY <1>1, <1>2, Zenon DEF CounterTypes

(* Steps that touch neither lanes nor counters, and the operator's change  *)
(* of PAR, which only raises the cap.                                      *)
LEMMA ControlsKeepHostInv ==
  ASSUME FleetTypeOK, CounterTypes, NEW g \in Host, HostInv(g),
         \/ emit_once(g) \/ HeartbeatAges(g) \/ Park(g) \/ RefuseBlind(g)
         \/ set_worker_control(g) \/ stop(g) \/ Bounce(g) \/ _apply_hard_stop(g)
         \/ \E p \in Par : set_llm_config(g, p)
  PROVE  HostInv(g)'
<1>typed. /\ par \in [Host -> Par] /\ topPar \in [Host -> Nat]
          /\ life \in [Host -> {"boot", "parked", "up", "stopping", "exiting", "dead"}]
  BY Zenon DEF FleetTypeOK, CounterTypes
<1>1. CASE emit_once(g) \/ HeartbeatAges(g) \/ set_worker_control(g)
  <2>1. UNCHANGED <<par, laneVars, cacheVars, life, topPar>>
    BY ONLY <1>1, Zenon DEF emit_once, HeartbeatAges, set_worker_control
  <2>2. HostKept(g)
    BY ONLY <2>1, Zenon DEF HostKept, laneVars, cacheVars
  <2>. QED
    BY <2>2, KeptHostInv, Zenon
<1>2. CASE Park(g) \/ RefuseBlind(g) \/ stop(g) \/ Bounce(g) \/ _apply_hard_stop(g)
  <2>1. UNCHANGED <<par, laneVars, cacheVars, topPar>>
    BY ONLY <1>2, Zenon DEF Park, RefuseBlind, stop, Bounce, _apply_hard_stop, rowVars
  <2>2. (Alive(g)' <=> Alive(g)) /\ life'[g] # "up"
    <3>1. CASE Park(g) \/ RefuseBlind(g)
      BY ONLY <1>typed, <3>1, Zenon DEF Park, RefuseBlind, Alive
    <3>2. CASE stop(g) \/ Bounce(g) \/ _apply_hard_stop(g)
      BY ONLY <1>typed, <3>2, Zenon DEF stop, Bounce, _apply_hard_stop, Alive
    <3>. QED
      BY ONLY <1>2, <3>1, <3>2, Zenon
  <2>3. HostInv(g)
    OBVIOUS
  <2>4. (~ Alive(g) => Empty(g))' /\ WithinPar(g)'
    BY ONLY <2>1, <2>2, <2>3, Zenon DEF HostInv, Empty, WithinPar, Busy, laneVars, cacheVars
  <2>5. SlotsCovered(g)' /\ CacheMarked(g)'
    BY ONLY <2>1, <2>2, <2>3, Zenon DEF HostInv, SlotsCovered, CacheMarked, Claiming, laneVars, cacheVars
  <2>. QED
    BY ONLY <2>4, <2>5, Zenon DEF HostInv
<1>3. ASSUME NEW p \in Par, set_llm_config(g, p)
      PROVE  HostInv(g)'
  <2>1. /\ p \in Nat /\ topPar[g] \in Nat /\ par'[g] = p
        /\ topPar' = [topPar EXCEPT ![g] = Max({topPar[g], p})]
    BY <1>3, <1>typed, GpuFleetAssumption, Zenon DEF set_llm_config
  <2>2. topPar'[g] >= topPar[g] /\ topPar'[g] >= p /\ topPar'[g] \in Nat
    <3>1. topPar[g] \in Int /\ p \in Int
      BY <2>1
    <3>2. /\ Max({topPar[g], p}) \in {topPar[g], p}
          /\ Max({topPar[g], p}) >= topPar[g] /\ Max({topPar[g], p}) >= p
      BY <3>1, MaxPair, Zenon
    <3>. QED
      BY <1>typed, <2>1, <3>2, Zenon
  <2>3. UNCHANGED <<laneVars, cacheVars, life>>
    BY <1>3, Zenon DEF set_llm_config
  <2>4. WithinPar(g)'
    <3>1. WithinPar(g) /\ inflight[g] \in Nat /\ feederPar[g] \in Nat
      BY HostNumbers, Zenon DEF HostInv
    <3>. QED
      BY ONLY <2>1, <2>2, <2>3, <3>1 DEF WithinPar, Busy, laneVars
  <2>5. (~ Alive(g) => Empty(g))' /\ SlotsCovered(g)' /\ CacheMarked(g)'
    BY <2>3, Zenon DEF HostInv, Alive, Empty, SlotsCovered, CacheMarked, Claiming, laneVars, cacheVars
  <2>. QED
    BY <2>4, <2>5, Zenon DEF HostInv
<1>. QED
  BY <1>1, <1>2, <1>3, Zenon

(* A process that starts or ends has an empty memory.                      *)
LEMMA LifeKeepsHostInv ==
  ASSUME FleetTypeOK, CounterTypes, NEW g \in Host, HostInv(g),
         Enter(g) \/ Exit(g) \/ Leave(g) \/ Crash(g)
  PROVE  HostInv(g)'
<1>0. /\ g \in DOMAIN life /\ g \in DOMAIN inline /\ g \in DOMAIN inlineJob /\ g \in DOMAIN feeder
      /\ g \in DOMAIN feederPar /\ g \in DOMAIN inflight /\ g \in DOMAIN pooled /\ g \in DOMAIN onPool
      /\ g \in DOMAIN poolMax /\ g \in DOMAIN slot /\ g \in DOMAIN active /\ g \in DOMAIN topPar
  BY DEF FleetTypeOK, CounterTypes
<1>1. CASE Enter(g)
  <2>1. /\ life'[g] = "up" /\ topPar'[g] = par[g] /\ poolMax'[g] = par[g] /\ par'[g] = par[g]
        /\ UNCHANGED <<inline, inlineJob, feeder, feederPar, inflight, pooled, onPool, slot, active>>
    BY ONLY <1>0, <1>1, Zenon DEF Enter, cacheVars
  <2>2. Empty(g) /\ par[g] \in Nat \ {0}
    BY <1>1, HostNumbers, Zenon DEF Enter, HostInv, Alive
  <2>. QED
    BY ONLY <2>1, <2>2, FS_EmptySet DEF HostInv, Alive, Empty, WithinPar, SlotsCovered, CacheMarked, Busy, Claiming
<1>2. ASSUME NEW next \in {"boot", "dead"}, Gone(g, next)
      PROVE  HostInv(g)'
  <2>1. /\ life'[g] = next /\ topPar'[g] = par[g] /\ par'[g] = par[g] /\ poolMax'[g] = 1
        /\ Empty(g)'
    BY ONLY <1>0, <1>2, Zenon DEF Gone, rowVars, Empty
  <2>2. par[g] \in Nat \ {0}
    BY HostNumbers, Zenon
  <2>. QED
    BY ONLY <1>2, <2>1, <2>2, FS_EmptySet DEF HostInv, Alive, Empty, WithinPar, SlotsCovered, CacheMarked, Busy, Claiming
<1>. QED
  BY <1>1, <1>2, Zenon DEF Exit, Leave, Crash

(* The inline lane and the cache.                                          *)
LEMMA InlineKeepsHostInv ==
  ASSUME FleetTypeOK, CounterTypes, NEW g \in Host, HostInv(g),
         \/ InlineReserve(g) \/ InlineClaim(g) \/ require_model(g) \/ Loaded(g) \/ InlineFinish(g)
         \/ reap_idle_once(g)
  PROVE  HostInv(g)'
<1>1. /\ UNCHANGED <<par, topPar, feeder, feederPar, inflight, pooled, onPool, poolMax, life>>
      /\ Alive(g)
  <2>1. CASE InlineReserve(g) \/ InlineClaim(g) \/ InlineFinish(g)
    BY ONLY <2>1, Zenon DEF InlineReserve, InlineClaim, InlineFinish, rowVars, Alive
  <2>2. CASE require_model(g) \/ Loaded(g) \/ reap_idle_once(g)
    BY ONLY <2>2, Zenon DEF require_model, Loaded, reap_idle_once, rowVars, laneVars, _publish_current_model, Alive
  <2>. QED
    BY <2>1, <2>2, Zenon
<1>2. /\ par[g] \in Nat /\ topPar[g] \in Nat /\ inflight[g] \in Nat /\ active[g] \in 0..1
      /\ inflight[g] + Busy(g) <= topPar[g] /\ par[g] <= topPar[g]
  BY HostNumbers, Zenon DEF HostInv, WithinPar
<1>3. (~ Alive(g) => Empty(g))' /\ SlotsCovered(g)'
  BY <1>1, Zenon DEF HostInv, Alive, SlotsCovered, Claiming
<1>typed. /\ inline \in [Host -> {"free", "reserved", "load", "swap", "infer"}]
          /\ inlineJob \in [Host -> ModelJob \cup {None}]
          /\ active \in [Host -> 0..1] /\ slot \in [Host -> Model \cup {None}]
  BY Zenon DEF FleetTypeOK, CounterTypes
<1>marked. CacheMarked(g)
  BY Zenon DEF HostInv
<1>4. CacheMarked(g)'
  <2>1. CASE InlineReserve(g)
    BY ONLY <1>2, <1>typed, <1>marked, <2>1, Zenon DEF InlineReserve, CacheMarked, cacheVars
  <2>5. CASE InlineClaim(g)
    BY ONLY <1>2, <1>typed, <1>marked, <2>5 DEF InlineClaim, CacheMarked
  <2>2. CASE require_model(g)
    BY ONLY <1>2, <1>typed, <1>marked, <2>2, Zenon DEF require_model, CacheMarked
  <2>6. CASE Loaded(g)
    BY ONLY <1>2, <1>typed, <1>marked, <2>6, Zenon DEF Loaded, CacheMarked
  <2>3. CASE InlineFinish(g)
    <3>1. active[g] = 1 /\ inline'[g] = "free"
      BY ONLY <1>typed, <1>marked, <2>3, Zenon DEF InlineFinish, CacheMarked
    <3>2. active' = [active EXCEPT ![g] = Max({0, active[g] - 1})]
      BY ONLY <2>3, Zenon DEF InlineFinish
    <3>3. Max({0, active[g] - 1}) = 0
      <4>1. 0 \in Int /\ active[g] - 1 \in Int
        BY <3>1
      <4>2. Max({0, active[g] - 1}) \in {0, active[g] - 1}
        BY <4>1, MaxPair, Zenon
      <4>. QED
        BY <3>1, <4>2
    <3>. QED
      BY ONLY <1>typed, <3>1, <3>2, <3>3 DEF CacheMarked
  <2>4. CASE reap_idle_once(g)
    BY ONLY <1>2, <1>typed, <1>marked, <2>4 DEF reap_idle_once, laneVars, CacheMarked
  <2>. QED
    BY <2>1, <2>2, <2>3, <2>4, <2>5, <2>6, Zenon
<1>5. inflight[g] + Busy(g)' <= topPar[g]
  <2>1. CASE InlineReserve(g)
    BY ONLY <1>2, <1>typed, <2>1 DEF InlineReserve, Busy
  <2>2. CASE InlineClaim(g)
    BY ONLY <1>2, <1>typed, <2>2 DEF InlineClaim, Busy
  <2>3. CASE require_model(g) \/ Loaded(g)
    BY ONLY <1>2, <1>typed, <2>3 DEF require_model, Loaded, Busy
  <2>4. CASE InlineFinish(g) \/ reap_idle_once(g)
    BY ONLY <1>2, <1>typed, <2>4 DEF InlineFinish, reap_idle_once, laneVars, Busy
  <2>. QED
    BY <2>1, <2>2, <2>3, <2>4
<1>6. WithinPar(g)'
  BY <1>1, <1>5, Zenon DEF HostInv, WithinPar
<1>. QED
  BY <1>3, <1>4, <1>6 DEF HostInv

(* _pool_budget leaves the slot of the inline lane out of PAR.             *)
LEMMA BudgetLeavesInlineSlot ==
  ASSUME FleetTypeOK, CounterTypes, NEW g \in Host, HostInv(g),
         ~ (inflight[g] >= _pool_budget(g))
  PROVE  inflight[g] + 1 + Busy(g) <= feederPar[g]
<1>1. feederPar[g] \in Nat /\ inflight[g] \in Nat /\ Busy(g) \in 0..1
  BY HostNumbers DEF Busy
<1>2. _pool_budget(g) = Max({0, feederPar[g] - Busy(g)})
  BY Zenon DEF _pool_budget, Busy
<1>3. Max({0, feederPar[g] - Busy(g)}) \in {0, feederPar[g] - Busy(g)}
  <2>1. 0 \in Int /\ feederPar[g] - Busy(g) \in Int
    BY <1>1
  <2>. QED
    BY <2>1, MaxPair, Zenon
<1>. QED
  BY <1>1, <1>2, <1>3

(* The feeder and the executor.  A claimed job is new to the pool of a     *)
(* worker that is up; one that was re-queued under a stopping worker may   *)
(* not be, and then the counter is above the jobs.                         *)
LEMMA PoolKeepsHostInv ==
  ASSUME FleetTypeOK, CounterTypes, NEW g \in Host, HostInv(g),
         life[g] = "up" => \A j \in pooled[g] : status[j] # "queued",
         \/ FeederTop(g) \/ FeederAsk(g) \/ FeederReserve(g) \/ FeederClaim(g) \/ SubmitFails(g)
         \/ \E j \in VlmJob : _pool_run_and_release(g, j)
  PROVE  HostInv(g)'
<1>1. /\ UNCHANGED <<par, topPar, inline, inlineJob, slot, active, life>>
      /\ Alive(g)
  <2>1. CASE FeederTop(g) \/ FeederAsk(g) \/ FeederReserve(g)
    BY ONLY <2>1, Zenon DEF FeederTop, FeederAsk, FeederReserve, rowVars, cacheVars, Alive
  <2>2. CASE FeederClaim(g) \/ SubmitFails(g)
    BY ONLY <2>2, Zenon DEF FeederClaim, SubmitFails, rowVars, cacheVars, Alive
  <2>3. ASSUME NEW j \in VlmJob, _pool_run_and_release(g, j)
        PROVE  UNCHANGED <<par, topPar, inline, inlineJob, slot, active, life>> /\ Alive(g)
    BY ONLY <2>3, Zenon DEF _pool_run_and_release, rowVars, cacheVars
  <2>. QED
    BY <2>1, <2>2, <2>3, Zenon
<1>2. (~ Alive(g) => Empty(g))' /\ CacheMarked(g)'
  BY <1>1, Zenon DEF HostInv, Alive, CacheMarked
<1>3. /\ par[g] \in Nat /\ topPar[g] \in Nat /\ feederPar[g] \in Nat /\ poolMax[g] \in Nat
      /\ inflight[g] \in Nat /\ Busy(g) \in 0..1
      /\ Cardinality(pooled[g]) \in Nat /\ Cardinality(onPool[g]) \in Nat
  BY HostNumbers DEF Busy
<1>4. Busy(g)' = Busy(g)
  BY <1>1, Zenon DEF Busy
<1>5. WithinPar(g) /\ SlotsCovered(g)
  BY Zenon DEF HostInv
<1>typed. /\ par \in [Host -> Par] /\ feeder \in [Host -> {"top", "ask", "reserve", "claim"}]
       /\ onPool \in [Host -> SUBSET VlmJob] /\ pooled \in [Host -> SUBSET VlmJob]
       /\ inflight \in [Host -> Nat] /\ feederPar \in [Host -> Nat] /\ poolMax \in [Host -> Nat]
  BY Zenon DEF FleetTypeOK, CounterTypes
<1>6. CASE FeederTop(g)
  <2>0. /\ feeder[g] = "top" /\ feeder'[g] = "ask" /\ UNCHANGED <<inflight, pooled>>
        /\ feederPar'[g] = par[g] /\ poolMax'[g] >= par[g]
        /\ \/ onPool'[g] = {} /\ poolMax'[g] = par[g]
           \/ onPool'[g] = onPool[g] /\ poolMax'[g] = poolMax[g]
    BY ONLY <1>3, <1>6, <1>typed DEF FeederTop
  <2>1. WithinPar(g)'
    BY ONLY <1>1, <1>3, <1>4, <1>5, <2>0, Zenon DEF WithinPar
  <2>2. SlotsCovered(g)'
    <3>1. /\ feeder[g] = "top" /\ feeder'[g] = "ask" /\ UNCHANGED <<inflight, pooled>>
          /\ \/ onPool'[g] = {} /\ poolMax'[g] = par[g]
             \/ onPool'[g] = onPool[g] /\ poolMax'[g] = poolMax[g]
      BY ONLY <2>0, Zenon
    <3>2. \/ Cardinality(onPool'[g]) = 0 /\ poolMax'[g] = par[g]
          \/ Cardinality(onPool'[g]) = Cardinality(onPool[g]) /\ poolMax'[g] = poolMax[g]
      BY <3>1, FS_EmptySet, Zenon
    <3>3. onPool'[g] \subseteq pooled'[g]
      BY ONLY <1>5, <3>1, Zenon DEF SlotsCovered
    <3>4. Claiming(g) = 0 /\ Claiming(g)' = 0
      BY ONLY <3>1, Zenon DEF Claiming
    <3>. QED
      BY ONLY <1>1, <1>3, <1>5, <2>0, <3>2, <3>3, <3>4 DEF SlotsCovered
  <2>. QED
    BY ONLY <1>2, <2>1, <2>2, Zenon DEF HostInv
<1>7. CASE FeederAsk(g)
  <2>1. /\ feeder[g] # "claim" /\ feeder[g] # "top" /\ feeder'[g] # "claim"
        /\ UNCHANGED <<feederPar, inflight, pooled, onPool, poolMax>>
    BY ONLY <1>7, <1>typed, Zenon DEF FeederAsk
  <2>2. WithinPar(g)'
    BY ONLY <1>1, <1>4, <1>5, <2>1, Zenon DEF WithinPar
  <2>3. SlotsCovered(g)'
    BY ONLY <1>1, <1>5, <2>1, Zenon DEF SlotsCovered, Claiming
  <2>. QED
    BY ONLY <1>2, <2>2, <2>3, Zenon DEF HostInv
<1>8. CASE FeederReserve(g)
  <2>1. CASE inflight[g] >= _pool_budget(g)
    <3>1. /\ feeder[g] = "reserve" /\ feeder'[g] = "top"
          /\ UNCHANGED <<inflight, feederPar, pooled, onPool, poolMax>>
      BY ONLY <1>8, <1>typed, <2>1, Zenon DEF FeederReserve
    <3>2. WithinPar(g)'
      BY ONLY <1>1, <1>4, <1>5, <3>1, Zenon DEF WithinPar
    <3>3. SlotsCovered(g)'
      BY ONLY <1>1, <1>5, <3>1, Zenon DEF SlotsCovered, Claiming
    <3>. QED
      BY ONLY <1>2, <3>2, <3>3, Zenon DEF HostInv
  <2>2. CASE ~ (inflight[g] >= _pool_budget(g))
    <3>1. inflight[g] + 1 + Busy(g) <= feederPar[g]
      BY <2>2, BudgetLeavesInlineSlot, Zenon
    <3>2. /\ feeder[g] = "reserve" /\ feeder'[g] = "claim" /\ inflight'[g] = inflight[g] + 1
          /\ UNCHANGED <<feederPar, pooled, onPool, poolMax>>
      BY ONLY <1>8, <1>typed, <2>2, Zenon DEF FeederReserve
    <3>3. WithinPar(g)'
      BY ONLY <1>1, <1>3, <1>4, <1>5, <3>1, <3>2 DEF WithinPar
    <3>4. SlotsCovered(g)'
      BY ONLY <1>1, <1>3, <1>5, <3>2 DEF SlotsCovered, Claiming
    <3>. QED
      BY ONLY <1>2, <3>3, <3>4, Zenon DEF HostInv
  <2>. QED
    BY <2>1, <2>2, Zenon
<1>9. CASE FeederClaim(g) /\ pooled'[g] = pooled[g]
  <2>1. CASE /\ feeder'[g] = "top" /\ inflight'[g] = inflight[g] - 1
             /\ UNCHANGED <<feederPar, pooled, onPool, poolMax>>
    <3>1. feeder[g] = "claim"
      BY ONLY <1>9, Zenon DEF FeederClaim
    <3>2. WithinPar(g)'
      BY ONLY <1>1, <1>3, <1>4, <1>5, <2>1, <3>1 DEF WithinPar
    <3>3. SlotsCovered(g)'
      BY ONLY <1>1, <1>3, <1>5, <2>1, <3>1 DEF SlotsCovered, Claiming
    <3>. QED
      BY ONLY <1>2, <3>2, <3>3, Zenon DEF HostInv
  <2>2. CASE /\ feeder'[g] = "ask" /\ inflight'[g] = inflight[g]
             /\ life[g] # "up" /\ onPool'[g] \subseteq pooled'[g]
             /\ UNCHANGED <<feederPar, poolMax>>
    <3>1. feeder[g] = "claim"
      BY ONLY <1>9, Zenon DEF FeederClaim
    <3>2. WithinPar(g)'
      BY ONLY <1>1, <1>3, <1>4, <1>5, <2>2, <3>1, Zenon DEF WithinPar
    <3>3. SlotsCovered(g)'
      BY ONLY <1>1, <1>3, <1>5, <1>9, <2>2, <3>1 DEF SlotsCovered, Claiming
    <3>. QED
      BY ONLY <1>2, <3>2, <3>3, Zenon DEF HostInv
  <2>3. \/ /\ feeder'[g] = "top" /\ inflight'[g] = inflight[g] - 1
           /\ UNCHANGED <<feederPar, pooled, onPool, poolMax>>
        \/ /\ feeder'[g] = "ask" /\ inflight'[g] = inflight[g]
           /\ life[g] # "up" /\ onPool'[g] \subseteq pooled'[g]
           /\ UNCHANGED <<feederPar, poolMax>>
    BY <1>5, <1>9, <1>typed DEF FeederClaim, SlotsCovered
  <2>. QED
    BY <2>1, <2>2, <2>3, Zenon
<1>10. CASE FeederClaim(g) /\ pooled'[g] # pooled[g]
  <2>1. PICK j \in VlmJob :
             /\ pooled'[g] = pooled[g] \cup {j} /\ onPool'[g] = onPool[g] \cup {j}
             /\ feeder[g] = "claim" /\ feeder'[g] = "ask"
             /\ UNCHANGED <<inflight, feederPar, poolMax>>
    BY ONLY <1>10, <1>typed DEF FeederClaim
  <2>2. j \notin pooled[g] /\ IsFiniteSet(pooled[g])
    BY <1>5, <1>10, <2>1, Zenon DEF SlotsCovered
  <2>3. /\ IsFiniteSet(pooled'[g]) /\ Cardinality(pooled'[g]) = Cardinality(pooled[g]) + 1
        /\ onPool'[g] \subseteq pooled'[g]
    BY ONLY <1>5, <2>1, <2>2, PoolCounts DEF SlotsCovered
  <2>4. Cardinality(onPool'[g]) \in Nat /\ Cardinality(onPool'[g]) <= Cardinality(pooled'[g])
    BY ONLY <2>3, SubsetCounts, Zenon
  <2>5. WithinPar(g)'
    BY ONLY <1>1, <1>3, <1>4, <1>5, <2>1, Zenon DEF WithinPar
  <2>6. SlotsCovered(g)'
    BY ONLY <1>1, <1>3, <1>5, <2>1, <2>3, <2>4 DEF WithinPar, SlotsCovered, Claiming
  <2>. QED
    BY ONLY <1>2, <2>5, <2>6, Zenon DEF HostInv
<1>11. CASE SubmitFails(g)
  <2>1. /\ feeder[g] = "claim" /\ feeder'[g] = "top" /\ inflight'[g] = inflight[g] - 1
        /\ life[g] = "stopping" /\ UNCHANGED <<feederPar, pooled, onPool, poolMax>>
    BY ONLY <1>11, <1>typed, Zenon DEF SubmitFails
  <2>2. WithinPar(g)'
    BY ONLY <1>1, <1>3, <1>4, <1>5, <2>1 DEF WithinPar
  <2>3. SlotsCovered(g)'
    BY ONLY <1>1, <1>3, <1>5, <2>1 DEF SlotsCovered, Claiming
  <2>. QED
    BY ONLY <1>2, <2>2, <2>3, Zenon DEF HostInv
<1>12. ASSUME NEW j \in VlmJob, _pool_run_and_release(g, j)
       PROVE  HostInv(g)'
  <2>1. /\ j \in pooled[g] /\ pooled'[g] = pooled[g] \ {j} /\ onPool'[g] = onPool[g] \ {j}
        /\ inflight'[g] = inflight[g] - 1 /\ UNCHANGED <<feeder, feederPar, poolMax>>
    BY ONLY <1>12, <1>typed, Zenon DEF _pool_run_and_release
  <2>2. /\ IsFiniteSet(pooled'[g]) /\ Cardinality(pooled'[g]) = Cardinality(pooled[g]) - 1
        /\ Cardinality(pooled[g]) >= 1 /\ onPool'[g] \subseteq pooled'[g] /\ onPool'[g] \subseteq onPool[g]
        /\ IsFiniteSet(onPool[g])
    <3>1. IsFiniteSet(pooled[g]) /\ onPool[g] \subseteq pooled[g]
      BY ONLY <1>5, Zenon DEF SlotsCovered
    <3>2. IsFiniteSet(onPool[g])
      BY ONLY <3>1, SubsetCounts, Zenon
    <3>3. /\ IsFiniteSet(pooled[g] \ {j}) /\ Cardinality(pooled[g] \ {j}) = Cardinality(pooled[g]) - 1
          /\ Cardinality(pooled[g]) >= 1
      BY ONLY <2>1, <3>1, PoolCounts, Zenon
    <3>. QED
      BY ONLY <2>1, <3>1, <3>2, <3>3, Zenon
  <2>3. Cardinality(onPool'[g]) \in Nat /\ Cardinality(onPool'[g]) <= Cardinality(onPool[g])
    BY ONLY <2>2, SubsetCounts, Zenon
  <2>4. WithinPar(g)'
    BY ONLY <1>1, <1>3, <1>4, <1>5, <2>1 DEF WithinPar
  <2>5. SlotsCovered(g)'
    BY ONLY <1>1, <1>3, <1>5, <2>1, <2>2, <2>3 DEF SlotsCovered, Claiming
  <2>. QED
    BY ONLY <1>2, <2>4, <2>5, Zenon DEF HostInv
<1>. QED
  BY <1>6, <1>7, <1>8, <1>9, <1>10, <1>11, <1>12

(* Every process keeps its statement, whoever steps.                       *)
LEMMA HostsStep ==
  ASSUME FleetInv, [FleetNext]_vars, NEW h \in Host
  PROVE  HostInv(h)'
<1>1. FleetTypeOK /\ CounterTypes /\ HostInv(h) /\ PoolOwned
  BY Zenon DEF FleetInv
<1>2. CASE HostKept(h)
  BY <1>1, <1>2, KeptHostInv
<1>3. CASE HostStep(h)
  <2>1. life[h] = "up" => \A j \in pooled[h] : status[j] # "queued"
    BY <1>1 DEF PoolOwned
  <2>2. CASE \/ emit_once(h) \/ HeartbeatAges(h) \/ Park(h) \/ RefuseBlind(h)
             \/ set_worker_control(h) \/ stop(h) \/ Bounce(h) \/ _apply_hard_stop(h)
             \/ \E p \in Par : set_llm_config(h, p)
    BY ONLY <1>1, <2>2, ControlsKeepHostInv, Zenon
  <2>3. CASE Enter(h) \/ Exit(h) \/ Leave(h) \/ Crash(h)
    BY ONLY <1>1, <2>3, LifeKeepsHostInv, Zenon
  <2>4. CASE \/ InlineReserve(h) \/ InlineClaim(h) \/ require_model(h) \/ Loaded(h) \/ InlineFinish(h)
             \/ reap_idle_once(h)
    BY ONLY <1>1, <2>4, InlineKeepsHostInv, Zenon
  <2>5. CASE \/ FeederTop(h) \/ FeederAsk(h) \/ FeederReserve(h) \/ FeederClaim(h) \/ SubmitFails(h)
             \/ \E j \in VlmJob : _pool_run_and_release(h, j)
    BY ONLY <1>1, <2>1, <2>5, PoolKeepsHostInv, Zenon
  <2>. QED
    BY ONLY <1>3, <2>2, <2>3, <2>4, <2>5, Zenon DEF HostStep
<1>4. ASSUME NEW g \in Host, HostStep(g), h # g
      PROVE  HostKept(h)
  BY <1>1, <1>4, OthersKept, Zenon
<1>5. CASE (\E j \in Job : LeaseReclaim(j)) \/ UNCHANGED vars
  BY <1>2, <1>5, Zenon DEF LeaseReclaim, HostKept, vars, rowVars, laneVars, cacheVars
<1>6. CASE flag_stale_workers_holding_running_jobs \/ flag_unassignable_gpu_jobs
  BY <1>2, <1>6, Zenon
  DEF flag_stale_workers_holding_running_jobs, flag_unassignable_gpu_jobs, HostKept, laneVars, cacheVars
<1>. QED
  BY <1>2, <1>3, <1>4, <1>5, <1>6, Zenon DEF FleetNext

-----------------------------------------------------------------------------
(* Types.                                                                  *)

RowTypes ==
  /\ par \in [Host -> Par] /\ desired \in [Host -> {"on", "off"}]
  /\ fresh \in [Host -> BOOLEAN] /\ concurrency \in [Host -> Par \cup {1}]
  /\ fits \in [Host -> SUBSET Model]
  /\ flaggedDead \subseteq Host /\ unassignable \subseteq ModelJob

(* Every write of a heartbeat row is a row, and clears the flag.           *)
LEMMA HeartbeatTyped ==
  ASSUME FleetTypeOK, NEW g \in Host, NEW n \in Par \cup {1}, NEW models \in SUBSET Model,
         upsert_worker_heartbeat(g, n, models), UNCHANGED <<par, desired, unassignable>>
  PROVE  RowTypes'
<1>1. fresh' \in [Host -> BOOLEAN]
  BY Zenon DEF FleetTypeOK, upsert_worker_heartbeat
<1>. QED
  BY <1>1, Zenon DEF FleetTypeOK, upsert_worker_heartbeat, RowTypes

(* The rows of the controls, the heartbeats and the flags.                 *)
LEMMA RowsTyped ==
  ASSUME FleetTypeOK, [FleetNext]_vars
  PROVE  RowTypes'
<1>1. CASE UNCHANGED rowVars
  BY <1>1, Zenon DEF FleetTypeOK, RowTypes, rowVars
<1>2. ASSUME NEW g \in Host, _publish_current_model(g)
      PROVE  RowTypes'
  BY <1>2, HeartbeatTyped DEF _publish_current_model
<1>3. ASSUME NEW g \in Host, emit_once(g) \/ Enter(g)
      PROVE  RowTypes'
  <2>1. par[g] \in Par \cup {1} /\ FitsOf[g] \in SUBSET Model
    BY GpuFleetAssumption DEF FleetTypeOK
  <2>. QED
    BY <1>3, <2>1, HeartbeatTyped DEF emit_once, Enter
<1>4. ASSUME NEW g \in Host, HeartbeatAges(g) \/ _apply_hard_stop(g)
      PROVE  RowTypes'
  <2>1. fresh' \in [Host -> BOOLEAN]
    BY <1>4, Zenon DEF FleetTypeOK, HeartbeatAges, _apply_hard_stop, clear_worker_current_model
  <2>. QED
    BY <1>4, <2>1 DEF FleetTypeOK, RowTypes, HeartbeatAges, _apply_hard_stop
<1>5. ASSUME NEW g \in Host, set_worker_control(g)
      PROVE  RowTypes'
  BY <1>5, Zenon DEF FleetTypeOK, RowTypes, set_worker_control
<1>6. ASSUME NEW g \in Host, NEW p \in Par, set_llm_config(g, p)
      PROVE  RowTypes'
  BY <1>6, Zenon DEF FleetTypeOK, RowTypes, set_llm_config
<1>7. CASE flag_stale_workers_holding_running_jobs
  BY <1>7, Zenon DEF FleetTypeOK, RowTypes, flag_stale_workers_holding_running_jobs
<1>8. CASE flag_unassignable_gpu_jobs
  <2>1. unassignable' \subseteq ModelJob
    BY <1>8, Zenon DEF FleetTypeOK, flag_unassignable_gpu_jobs
  <2>. QED
    BY <1>8, <2>1, Zenon DEF FleetTypeOK, RowTypes, flag_unassignable_gpu_jobs
<1>9. ASSUME NEW g \in Host, HostStep(g)
      PROVE  RowTypes'
  <2>1. CASE \/ Park(g) \/ RefuseBlind(g) \/ stop(g) \/ Bounce(g) \/ Exit(g) \/ Leave(g) \/ Crash(g)
             \/ InlineReserve(g) \/ InlineClaim(g) \/ InlineFinish(g)
             \/ FeederTop(g) \/ FeederAsk(g) \/ FeederReserve(g) \/ FeederClaim(g) \/ SubmitFails(g)
             \/ \E j \in VlmJob : _pool_run_and_release(g, j)
    BY <1>1, <2>1, Zenon DEF Park, RefuseBlind, stop, Bounce, Exit, Leave, Crash, Gone, InlineReserve, InlineClaim,
      InlineFinish, FeederTop, FeederAsk, FeederReserve, FeederClaim, SubmitFails, _pool_run_and_release
  <2>2. CASE require_model(g) \/ Loaded(g) \/ reap_idle_once(g)
    BY <1>1, <1>2, <2>2, Zenon DEF require_model, Loaded, reap_idle_once
  <2>. QED
    BY ONLY <1>3, <1>4, <1>5, <1>6, <1>9, <2>1, <2>2, g \in Host, Zenon DEF HostStep
<1>. QED
  BY <1>1, <1>7, <1>8, <1>9, Zenon DEF FleetNext, LeaseReclaim, vars

JobTypes ==
  status \in [Job -> {"queued", "running", "done"}] /\ owner \in [Job -> Host \cup {None}]

LaneTypes ==
  /\ life \in [Host -> {"boot", "parked", "up", "stopping", "exiting", "dead"}]
  /\ inline \in [Host -> {"free", "reserved", "load", "swap", "infer"}]
  /\ inlineJob \in [Host -> ModelJob \cup {None}]
  /\ feeder \in [Host -> {"top", "ask", "reserve", "claim"}]
  /\ onPool \in [Host -> SUBSET VlmJob] /\ pooled \in [Host -> SUBSET VlmJob]
  /\ slot \in [Host -> Model \cup {None}]
  /\ ops \in 0..MaxOps

(* The job rows.                                                           *)
LEMMA JobsTyped ==
  ASSUME FleetTypeOK, [FleetNext]_vars
  PROVE  JobTypes'
<1> USE DEF FleetTypeOK, JobTypes
<1>1. CASE UNCHANGED jobVars
  BY <1>1, Zenon DEF jobVars
<1>2. ASSUME NEW j \in Job, LeaseReclaim(j)
      PROVE  JobTypes'
  BY <1>2, Zenon DEF LeaseReclaim
<1>3. ASSUME NEW g \in Host, HostStep(g)
      PROVE  JobTypes'
  <2>1. CASE _apply_hard_stop(g)
    BY <2>1, Zenon DEF _apply_hard_stop, requeue_running_for_worker
  <2>2. CASE InlineClaim(g) \/ FeederClaim(g) \/ SubmitFails(g)
    <3>1. \/ UNCHANGED jobVars
          \/ \E j \in Job : /\ status' = [status EXCEPT ![j] = "running"]
                            /\ owner' = [owner EXCEPT ![j] = g]
      BY ONLY <2>2, Zenon DEF InlineClaim, FeederClaim, SubmitFails, Job
    <3>. QED
      BY <1>1, <3>1
  <2>3. CASE InlineFinish(g) \/ \E j \in VlmJob : _pool_run_and_release(g, j)
    <3>1. UNCHANGED owner /\ \E j : status' = [status EXCEPT ![j] = "done"]
      BY ONLY <2>3, Zenon DEF InlineFinish, _pool_run_and_release
    <3>. QED
      BY <3>1, Zenon
  <2>4. CASE emit_once(g) \/ HeartbeatAges(g) \/ Enter(g) \/ Park(g) \/ RefuseBlind(g) \/ stop(g) \/ Bounce(g)
    BY <1>1, <2>4, Zenon DEF emit_once, HeartbeatAges, Enter, Park, RefuseBlind, stop, Bounce
  <2>5. CASE set_worker_control(g) \/ (\E p \in Par : set_llm_config(g, p)) \/ Exit(g) \/ Leave(g) \/ Crash(g)
    BY <1>1, <2>5, Zenon DEF set_worker_control, set_llm_config, Exit, Leave, Crash, Gone
  <2>6. CASE \/ InlineReserve(g) \/ require_model(g) \/ Loaded(g) \/ reap_idle_once(g)
             \/ FeederTop(g) \/ FeederAsk(g) \/ FeederReserve(g)
    BY <1>1, <2>6, Zenon DEF InlineReserve, require_model, Loaded, reap_idle_once, FeederTop, FeederAsk, FeederReserve
  <2>. QED
    BY ONLY <1>3, <2>1, <2>2, <2>3, <2>4, <2>5, <2>6, Zenon DEF HostStep
<1>. QED
  BY <1>1, <1>2, <1>3 DEF FleetNext, flag_stale_workers_holding_running_jobs, flag_unassignable_gpu_jobs, vars

(* The lanes, the executor, the cache and the bound on mishaps.            *)
LEMMA LanesTyped ==
  ASSUME FleetTypeOK, \A h \in Host : CacheMarked(h), [FleetNext]_vars
  PROVE  LaneTypes'
<1>0. LaneTypes
  BY Zenon DEF FleetTypeOK, LaneTypes
<1> USE DEF LaneTypes, laneVars, cacheVars
<1>1. CASE UNCHANGED <<laneVars, cacheVars, life, ops>>
  BY ONLY <1>0, <1>1, Zenon
<1>2. ASSUME UNCHANGED ops \/ Op
      PROVE  ops' \in 0..MaxOps
  BY ONLY <1>0, <1>2, GpuFleetAssumption DEF Op
<1>3. ASSUME NEW g \in Host, HostStep(g)
      PROVE  LaneTypes'
  <2>1. CASE emit_once(g) \/ HeartbeatAges(g)
    BY ONLY <1>1, <2>1, Zenon DEF emit_once, HeartbeatAges
  <2>2. CASE Enter(g) \/ Park(g) \/ RefuseBlind(g) \/ stop(g) \/ Bounce(g) \/ _apply_hard_stop(g)
    <3>1. \E l \in {"boot", "parked", "up", "stopping", "exiting", "dead"} :
            /\ life' = [life EXCEPT ![g] = l] /\ (UNCHANGED ops \/ Op)
            /\ UNCHANGED <<inline, inlineJob, feeder, onPool, pooled, slot>>
      BY ONLY <2>2, Zenon DEF Enter, Park, RefuseBlind, stop, Bounce, _apply_hard_stop
    <3>. QED
      BY ONLY <1>0, <1>2, <3>1
  <2>3. CASE set_worker_control(g) \/ \E p \in Par : set_llm_config(g, p)
    <3>1. Op /\ UNCHANGED <<laneVars, cacheVars, life>>
      BY ONLY <2>3, Zenon DEF set_worker_control, set_llm_config
    <3>. QED
      BY ONLY <1>0, <1>2, <3>1, Zenon
  <2>4. CASE Exit(g) \/ Leave(g) \/ Crash(g)
    <3>1. (Gone(g, "boot") \/ Gone(g, "dead")) /\ (UNCHANGED ops \/ Op)
      BY ONLY <2>4, Zenon DEF Exit, Leave, Crash
    <3>2. PICK l \in {"boot", "dead"} : Gone(g, l)
      BY ONLY <3>1, Zenon
    <3>. QED
      BY ONLY <1>0, <1>2, <3>1, <3>2, Zenon DEF Gone
  <2>5. CASE InlineReserve(g)
    BY ONLY <1>0, <2>5, Zenon DEF InlineReserve
  <2>6. CASE InlineClaim(g)
    <3>1. /\ \/ UNCHANGED inlineJob
             \/ \E j \in ModelJob : inlineJob' = [inlineJob EXCEPT ![g] = j]
          /\ \E l \in {"load", "free"} : inline' = [inline EXCEPT ![g] = l]
          /\ UNCHANGED <<life, feeder, onPool, pooled, slot, ops>>
      BY ONLY <2>6, Zenon DEF InlineClaim
    <3>. QED
      BY ONLY <1>0, <3>1, g \in Host
  <2>7. CASE InlineFinish(g)
    <3>1. /\ inline' = [inline EXCEPT ![g] = "free"] /\ inlineJob' = [inlineJob EXCEPT ![g] = None]
          /\ UNCHANGED <<life, feeder, onPool, pooled, slot, ops>>
      BY ONLY <2>7, Zenon DEF InlineFinish
    <3>. QED
      BY ONLY <1>0, <3>1, g \in Host, Zenon
  <2>8. CASE require_model(g) \/ Loaded(g)
    <3>1. ModelOf[inlineJob[g]] \in Model
      <4>1. inlineJob[g] \in ModelJob
        BY <2>8, Zenon DEF require_model, Loaded, CacheMarked
      <4>. QED
        BY <4>1, GpuFleetAssumption, Zenon
    <3>2. /\ \/ UNCHANGED slot
             \/ \E m \in {None, ModelOf[inlineJob[g]]} : slot' = [slot EXCEPT ![g] = m]
          /\ \E l \in {"infer", "swap"} : inline' = [inline EXCEPT ![g] = l]
          /\ UNCHANGED <<life, inlineJob, feeder, onPool, pooled, ops>>
      BY ONLY <2>8, Zenon DEF require_model, Loaded
    <3>. QED
      BY ONLY <1>0, <3>1, <3>2, g \in Host
  <2>9. CASE reap_idle_once(g)
    BY ONLY <1>0, <2>9, Zenon DEF reap_idle_once
  <2>10. CASE FeederTop(g) \/ FeederAsk(g) \/ FeederReserve(g)
    <3>1. /\ \E l \in {"top", "ask", "reserve", "claim"} : feeder' = [feeder EXCEPT ![g] = l]
          /\ UNCHANGED onPool \/ onPool' = [onPool EXCEPT ![g] = {}]
          /\ UNCHANGED ops \/ Op
          /\ UNCHANGED <<life, inline, inlineJob, pooled, slot>>
      BY ONLY <2>10, Zenon DEF FeederTop, FeederAsk, FeederReserve
    <3>. QED
      BY ONLY <1>0, <1>2, <3>1, g \in Host
  <2>11. CASE FeederClaim(g)
    <3>1. /\ \/ UNCHANGED <<pooled, onPool>>
             \/ \E j \in VlmJob : /\ pooled' = [pooled EXCEPT ![g] = @ \cup {j}]
                                  /\ onPool' = [onPool EXCEPT ![g] = @ \cup {j}]
          /\ \E l \in {"ask", "top"} : feeder' = [feeder EXCEPT ![g] = l]
          /\ UNCHANGED <<life, inline, inlineJob, slot, ops>>
      BY ONLY <2>11, Zenon DEF FeederClaim
    <3>. QED
      BY ONLY <1>0, <3>1, g \in Host
  <2>12. CASE SubmitFails(g)
    BY ONLY <1>0, <2>12, Zenon DEF SubmitFails
  <2>13. ASSUME NEW j \in VlmJob, _pool_run_and_release(g, j)
         PROVE  LaneTypes'
    <3>1. /\ pooled' = [pooled EXCEPT ![g] = @ \ {j}] /\ onPool' = [onPool EXCEPT ![g] = @ \ {j}]
          /\ UNCHANGED <<life, inline, inlineJob, feeder, slot, ops>>
      BY ONLY <2>13, Zenon DEF _pool_run_and_release
    <3>. QED
      BY ONLY <1>0, <3>1, g \in Host
  <2>. QED
    BY ONLY <1>3, <2>1, <2>2, <2>3, <2>4, <2>5, <2>6, <2>7, <2>8, <2>9, <2>10, <2>11, <2>12, <2>13, Zenon
    DEF HostStep
<1>. QED
  BY <1>1, <1>3, Zenon DEF FleetNext, LeaseReclaim, flag_stale_workers_holding_running_jobs,
    flag_unassignable_gpu_jobs, vars

(* The counters.  A slot is given back only by who holds one, so the       *)
(* counter of the pool never falls below zero.                             *)
LEMMA CountersTyped ==
  ASSUME FleetTypeOK, CounterTypes, \A h \in Host : HostInv(h), [FleetNext]_vars
  PROVE  CounterTypes'
<1> USE GpuFleetAssumption DEF CounterTypes, laneVars, cacheVars
<1>1. CASE UNCHANGED <<laneVars, cacheVars, topPar>>
  BY <1>1, Zenon
<1>2. ASSUME NEW g \in Host, HostStep(g)
      PROVE  CounterTypes'
  <2>1. /\ par[g] \in Nat /\ topPar[g] \in Nat /\ inflight[g] \in Nat /\ active[g] \in 0..1
        /\ Cardinality(pooled[g]) \in Nat
    BY HostNumbers, Zenon
  <2>2. CASE emit_once(g) \/ HeartbeatAges(g) \/ Park(g) \/ RefuseBlind(g) \/ stop(g) \/ Bounce(g)
    BY ONLY <1>1, <2>2, Zenon DEF emit_once, HeartbeatAges, Park, RefuseBlind, stop, Bounce
  <2>3. CASE set_worker_control(g) \/ _apply_hard_stop(g) \/ reap_idle_once(g)
    BY ONLY CounterTypes, <2>3, Zenon DEF set_worker_control, _apply_hard_stop, reap_idle_once
  <2>4. ASSUME NEW p \in Par, set_llm_config(g, p)
        PROVE  CounterTypes'
    <3>1. topPar[g] \in Int /\ p \in Int /\ p \in Nat
      BY <2>1
    <3>2. Max({topPar[g], p}) \in {topPar[g], p}
      BY <3>1, MaxPair, Zenon
    <3>3. topPar' = [topPar EXCEPT ![g] = Max({topPar[g], p})] /\ UNCHANGED <<laneVars, cacheVars>>
      BY ONLY <2>4, Zenon DEF set_llm_config
    <3>. QED
      BY ONLY CounterTypes, <2>1, <3>1, <3>2, <3>3
  <2>5. CASE Enter(g)
    BY ONLY CounterTypes, <2>1, <2>5, Zenon DEF Enter
  <2>6. CASE Exit(g) \/ Leave(g) \/ Crash(g)
    <3>1. Gone(g, "boot") \/ Gone(g, "dead")
      BY ONLY <2>6, Zenon DEF Exit, Leave, Crash
    <3>2. /\ inflight' = [inflight EXCEPT ![g] = 0] /\ feederPar' = [feederPar EXCEPT ![g] = 1]
          /\ poolMax' = [poolMax EXCEPT ![g] = 1] /\ active' = [active EXCEPT ![g] = 0]
          /\ topPar' = [topPar EXCEPT ![g] = par[g]]
      BY ONLY <3>1, Zenon DEF Gone
    <3>. QED
      BY ONLY CounterTypes, <2>1, <3>2
  <2>7. CASE InlineReserve(g) \/ require_model(g) \/ Loaded(g)
    <3>1. UNCHANGED <<inflight, feederPar, poolMax, active, topPar>>
      BY ONLY <2>7, Zenon DEF InlineReserve, require_model, Loaded
    <3>. QED
      BY ONLY CounterTypes, <3>1, Zenon
  <2>8. CASE InlineClaim(g)
    <3>1. active[g] = 0
      <4>1. inline[g] = "reserved" /\ CacheMarked(g)
        BY <2>8, Zenon DEF InlineClaim, HostInv
      <4>. QED
        BY ONLY <2>1, <4>1 DEF CacheMarked
    <3>2. /\ UNCHANGED active \/ active' = [active EXCEPT ![g] = @ + 1]
          /\ UNCHANGED <<inflight, feederPar, poolMax, topPar>>
      BY ONLY <2>8, Zenon DEF InlineClaim
    <3>. QED
      BY ONLY CounterTypes, <3>1, <3>2
  <2>9. CASE InlineFinish(g)
    <3>1. 0 \in Int /\ active[g] - 1 \in Int
      BY <2>1
    <3>2. Max({0, active[g] - 1}) \in {0, active[g] - 1} /\ Max({0, active[g] - 1}) >= 0
      BY <3>1, MaxPair, Zenon
    <3>3. /\ active' = [active EXCEPT ![g] = Max({0, active[g] - 1})]
          /\ UNCHANGED <<inflight, feederPar, poolMax, topPar>>
      BY ONLY <2>9, Zenon DEF InlineFinish
    <3>. QED
      BY ONLY CounterTypes, <2>1, <3>2, <3>3
  <2>10. CASE FeederTop(g) \/ FeederAsk(g) \/ FeederReserve(g)
    <3>1. /\ UNCHANGED feederPar \/ feederPar' = [feederPar EXCEPT ![g] = par[g]]
          /\ UNCHANGED poolMax \/ poolMax' = [poolMax EXCEPT ![g] = par[g]]
          /\ UNCHANGED inflight \/ inflight' = [inflight EXCEPT ![g] = @ + 1]
          /\ UNCHANGED <<active, topPar>>
      BY ONLY <2>10, Zenon DEF FeederTop, FeederAsk, FeederReserve
    <3>. QED
      BY ONLY CounterTypes, <2>1, <3>1
  <2>12. CASE FeederClaim(g) \/ SubmitFails(g)
    <3>1. inflight[g] - 1 \in Nat
      <4>1. feeder[g] = "claim" /\ SlotsCovered(g)
        BY <2>12, Zenon DEF FeederClaim, SubmitFails, HostInv
      <4>. QED
        BY ONLY <2>1, <4>1 DEF SlotsCovered, Claiming
    <3>2. /\ UNCHANGED inflight \/ inflight' = [inflight EXCEPT ![g] = @ - 1]
          /\ UNCHANGED <<feederPar, poolMax, active, topPar>>
      BY ONLY <2>12, Zenon DEF FeederClaim, SubmitFails
    <3>. QED
      BY ONLY CounterTypes, <3>1, <3>2
  <2>13. ASSUME NEW j \in VlmJob, _pool_run_and_release(g, j)
         PROVE  CounterTypes'
    <3>1. IsFiniteSet(pooled[g]) /\ inflight[g] >= Cardinality(pooled[g]) + Claiming(g) /\ j \in pooled[g]
      BY <2>13, Zenon DEF _pool_run_and_release, HostInv, SlotsCovered
    <3>2. Cardinality(pooled[g]) >= 1
      BY <3>1, PoolCounts, Zenon
    <3>3. inflight[g] - 1 \in Nat
      BY <2>1, <3>1, <3>2 DEF Claiming
    <3>. QED
      BY ONLY CounterTypes, <2>13, <3>3, Zenon DEF _pool_run_and_release
  <2>. QED
    BY ONLY <1>2, <2>2, <2>3, <2>4, <2>5, <2>6, <2>7, <2>8, <2>9, <2>10, <2>12, <2>13, Zenon
    DEF HostStep
<1>. QED
  BY <1>1, <1>2, Zenon DEF FleetNext, LeaseReclaim, flag_stale_workers_holding_running_jobs,
    flag_unassignable_gpu_jobs, vars

-----------------------------------------------------------------------------
(* The rows of pool jobs and the flags.                                    *)

(* A worker that is up keeps its rows: a hard stop re-queues only its own  *)
(* and ends it, and a lease lapses only for a job that nobody runs.        *)
LEMMA PoolOwnedStep ==
  ASSUME FleetInv, [FleetNext]_vars
  PROVE  PoolOwned'
<1>typed. /\ status \in [Job -> {"queued", "running", "done"}] /\ owner \in [Job -> Host \cup {None}]
          /\ life \in [Host -> {"boot", "parked", "up", "stopping", "exiting", "dead"}]
          /\ inlineJob \in [Host -> ModelJob \cup {None}]
          /\ pooled \in [Host -> SUBSET VlmJob]
  BY Zenon DEF FleetInv, FleetTypeOK
<1>owned. PoolOwned
  BY Zenon DEF FleetInv
<1> USE DEF PoolOwned, Job
<1>1. CASE UNCHANGED <<jobVars, pooled, life>>
  BY ONLY <1>owned, <1>1, Zenon DEF jobVars
<1>2. ASSUME NEW j \in Job, LeaseReclaim(j)
      PROVE  PoolOwned'
  BY ONLY <1>typed, <1>owned, <1>2 DEF LeaseReclaim, RunsOn, laneVars
<1>3. ASSUME NEW g \in Host, HostStep(g)
      PROVE  PoolOwned'
  <2>1. CASE \/ emit_once(g) \/ HeartbeatAges(g) \/ set_worker_control(g)
             \/ (\E p \in Par : set_llm_config(g, p)) \/ reap_idle_once(g)
    BY <1>1, <2>1, Zenon DEF emit_once, HeartbeatAges, set_worker_control, set_llm_config, reap_idle_once, laneVars
  <2>2. CASE \/ InlineReserve(g) \/ require_model(g) \/ Loaded(g)
             \/ FeederTop(g) \/ FeederAsk(g) \/ FeederReserve(g)
    BY <1>1, <2>2, Zenon DEF InlineReserve, require_model, Loaded, FeederTop, FeederAsk, FeederReserve
  <2>3. CASE Park(g) \/ RefuseBlind(g) \/ stop(g) \/ Bounce(g)
    BY ONLY <1>typed, <1>owned, <2>3 DEF Park, RefuseBlind, stop, Bounce, laneVars, jobVars
  <2>4. CASE Enter(g)
    <3>1. pooled[g] = {} /\ UNCHANGED <<pooled, jobVars>> /\ life' = [life EXCEPT ![g] = "up"]
      BY <2>4, Zenon DEF FleetInv, Enter, HostInv, Alive, Empty
    <3>. QED
      BY ONLY <1>typed, <1>owned, <3>1 DEF jobVars
  <2>5. CASE Exit(g) \/ Leave(g) \/ Crash(g)
    <3>1. Gone(g, "boot") \/ Gone(g, "dead")
      BY ONLY <2>5, Zenon DEF Exit, Leave, Crash
    <3>2. \E l \in {"boot", "dead"} :
            life' = [life EXCEPT ![g] = l] /\ pooled' = [pooled EXCEPT ![g] = {}] /\ UNCHANGED <<status, owner>>
      BY ONLY <3>1, Zenon DEF Gone, jobVars
    <3>. QED
      BY ONLY <1>typed, <1>owned, <3>2
  <2>6. CASE _apply_hard_stop(g)
    BY ONLY <1>typed, <1>owned, <2>6 DEF _apply_hard_stop, requeue_running_for_worker, laneVars
  <2>7. CASE InlineClaim(g)
    BY ONLY <1>typed, <1>owned, <2>7 DEF InlineClaim, jobVars
  <2>10. CASE SubmitFails(g)
    BY ONLY <1>typed, <1>owned, <2>10 DEF SubmitFails
  <2>8. CASE FeederClaim(g)
    BY ONLY <1>typed, <1>owned, <2>8 DEF FeederClaim, jobVars
  <2>9. CASE InlineFinish(g)
    BY ONLY <1>typed, <1>owned, <2>9 DEF InlineFinish
  <2>11. ASSUME NEW j \in VlmJob, _pool_run_and_release(g, j)
         PROVE  PoolOwned'
    BY ONLY <1>typed, <1>owned, <2>11 DEF _pool_run_and_release
  <2>. QED
    BY ONLY <1>3, <2>1, <2>2, <2>3, <2>4, <2>5, <2>6, <2>7, <2>8, <2>9, <2>10, <2>11, Zenon DEF HostStep
<1>. QED
  BY <1>1, <1>2, <1>3, Zenon DEF FleetNext, flag_stale_workers_holding_running_jobs, flag_unassignable_gpu_jobs,
    vars, laneVars

(* Every writer of a heartbeat clears the flag with it, and the sweep that *)
(* sets the flag reads the heartbeat in the same statement.                *)
LEMMA FlaggedStep ==
  ASSUME FleetTypeOK, FlaggedIsSilent, [FleetNext]_vars
  PROVE  FlaggedIsSilent'
<1> USE DEF FleetTypeOK, FlaggedIsSilent
<1>1. CASE UNCHANGED <<fresh, flaggedDead>>
  BY <1>1, Zenon
<1>2. ASSUME NEW g \in Host, NEW n, NEW models, upsert_worker_heartbeat(g, n, models)
      PROVE  FlaggedIsSilent'
  BY <1>2 DEF upsert_worker_heartbeat
<1>3. ASSUME NEW g \in Host, fresh' = [fresh EXCEPT ![g] = FALSE], UNCHANGED flaggedDead
      PROVE  FlaggedIsSilent'
  BY <1>3
<1>4. CASE flag_stale_workers_holding_running_jobs
  BY <1>4, Zenon DEF flag_stale_workers_holding_running_jobs
<1>5. ASSUME NEW g \in Host, HostStep(g)
      PROVE  FlaggedIsSilent'
  <2>1. CASE emit_once(g) \/ Enter(g)
    BY <1>2, <2>1, Zenon DEF emit_once, Enter
  <2>2. CASE require_model(g) \/ Loaded(g) \/ reap_idle_once(g)
    BY <1>1, <1>2, <2>2 DEF require_model, Loaded, reap_idle_once, _publish_current_model, rowVars
  <2>3. CASE HeartbeatAges(g) \/ _apply_hard_stop(g)
    BY <1>3, <2>3, Zenon DEF HeartbeatAges, _apply_hard_stop, clear_worker_current_model
  <2>4. CASE \/ Park(g) \/ RefuseBlind(g) \/ set_worker_control(g) \/ (\E p \in Par : set_llm_config(g, p))
             \/ stop(g) \/ Bounce(g) \/ Exit(g) \/ Leave(g) \/ Crash(g)
    BY <1>1, <2>4, Zenon DEF Park, RefuseBlind, set_worker_control, set_llm_config, stop, Bounce, Exit, Leave, Crash,
      Gone, rowVars
  <2>5. CASE \/ InlineReserve(g) \/ InlineClaim(g) \/ InlineFinish(g)
             \/ FeederTop(g) \/ FeederAsk(g) \/ FeederReserve(g) \/ FeederClaim(g) \/ SubmitFails(g)
             \/ \E j \in VlmJob : _pool_run_and_release(g, j)
    BY <1>1, <2>5, Zenon DEF InlineReserve, InlineClaim, InlineFinish, FeederTop, FeederAsk, FeederReserve,
      FeederClaim, SubmitFails, _pool_run_and_release, rowVars
  <2>. QED
    BY ONLY <1>5, <2>1, <2>2, <2>3, <2>4, <2>5, Zenon DEF HostStep
<1>. QED
  BY <1>1, <1>4, <1>5 DEF FleetNext, LeaseReclaim, flag_unassignable_gpu_jobs, vars, rowVars

-----------------------------------------------------------------------------
(* The invariant.                                                          *)

(* Workers that have not booted hold nothing.                              *)
LEMMA FleetInitInv == FleetInit => FleetInv
<1> SUFFICES ASSUME FleetInit
             PROVE  FleetInv
  OBVIOUS
<1> USE GpuFleetAssumption DEF FleetInit
<1>1. fresh \in [Host -> BOOLEAN]
  BY Zenon
<1>2. FleetTypeOK
  BY <1>1 DEF FleetTypeOK
<1>3. CounterTypes
  <2>1. topPar = ParAtStart /\ Par \subseteq Nat
    OBVIOUS
  <2>2. topPar \in [Host -> Nat]
    BY <2>1, Zenon
  <2>. QED
    BY <2>2 DEF CounterTypes
<1>4. ASSUME NEW h \in Host
      PROVE  HostInv(h)
  <2>1. Empty(h) /\ life[h] = "boot"
    BY Zenon DEF Empty
  <2>2. par[h] \in Nat \ {0} /\ topPar[h] = par[h] /\ poolMax[h] = 1
    BY Zenon
  <2>. QED
    BY <2>1, <2>2, FS_EmptySet DEF HostInv, Empty, WithinPar, SlotsCovered, CacheMarked, Busy, Claiming
<1>5. PoolOwned /\ FlaggedIsSilent
  BY Zenon DEF PoolOwned, FlaggedIsSilent
<1>. QED
  BY <1>2, <1>3, <1>4, <1>5 DEF FleetInv

(* Every step of a host, the operator and the sweeps keeps the invariant.  *)
LEMMA FleetInvStep == FleetInv /\ [FleetNext]_vars => FleetInv'
<1> SUFFICES ASSUME FleetInv, [FleetNext]_vars
             PROVE  FleetInv'
  OBVIOUS
<1>1. \A h \in Host : HostInv(h)'
  BY HostsStep, Zenon
<1>2. RowTypes' /\ JobTypes' /\ LaneTypes' /\ CounterTypes'
  BY RowsTyped, JobsTyped, LanesTyped, CountersTyped, Zenon DEF FleetInv, HostInv
<1>3. FleetTypeOK'
  <2>1. \A h \in Host : inflight'[h] \in Nat /\ active'[h] \in 0..1
    BY <1>2, Zenon DEF CounterTypes
  <2>. QED
    BY <1>2, <2>1, Zenon DEF FleetTypeOK, RowTypes, JobTypes, LaneTypes
<1>4. PoolOwned' /\ FlaggedIsSilent'
  BY PoolOwnedStep, FlaggedStep, Zenon DEF FleetInv
<1>. QED
  BY <1>1, <1>2, <1>3, <1>4, Zenon DEF FleetInv

(* The inductive invariant of the fleet: types, what the lanes, the cache  *)
(* and the executor of each host share, whose the pool's rows are, and the *)
(* flags of the orchestrator.                                              *)
THEOREM FleetInvariant == FleetSpec => []FleetInv
BY FleetInitInv, FleetInvStep, PTL DEF FleetSpec

(* run_once and _pool_budget share one cap: the jobs of both lanes never   *)
(* exceed the largest PAR the process has seen, for every order of reading *)
(* PAR, reserving a slot and an operator's change.                         *)
THEOREM JobsStayWithinPar == FleetSpec => []MachineWithinPar
<1>1. FleetInv => MachineWithinPar
  BY Zenon DEF FleetInv, HostInv, WithinPar, Busy, MachineWithinPar
<1>. QED
  BY <1>1, FleetInvariant, PTL

(* _pool_inflight counts the jobs on pool threads and the slot the feeder  *)
(* is filling, and the executor has a thread for each job it was given.    *)
THEOREM SlotsDoNotLeak == FleetSpec => []SlotsAreAccounted
<1>1. FleetInv => SlotsAreAccounted
  BY Zenon DEF FleetInv, HostInv, SlotsCovered, Claiming, SlotsAreAccounted
<1>. QED
  BY <1>1, FleetInvariant, PTL

(* reap_idle_once never drops the model of the job that is running on it.  *)
THEOREM ReaperSparesTheJob == FleetSpec => []ModelStaysLoaded
<1>1. FleetInv => ModelStaysLoaded
  BY Zenon DEF FleetInv, HostInv, CacheMarked, ModelStaysLoaded
<1>. QED
  BY <1>1, FleetInvariant, PTL

(* last_flagged_dead_at is set only while the heartbeat is silent,         *)
(* whichever of its writers wrote last.                                    *)
THEOREM FlagsAreTrue == FleetSpec => []FlaggedIsSilent
<1>1. FleetInv => FlaggedIsSilent
  BY Zenon DEF FleetInv
<1>. QED
  BY <1>1, FleetInvariant, PTL
=============================================================================
