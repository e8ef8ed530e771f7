-------------------------- MODULE SchedulerProofs ---------------------------
(***************************************************************************)
(* Proofs about Scheduler and IngestStore: next_fire_at computes the next  *)
(* instant for every schedule, the ticker forgets none it sleeps up to and *)
(* ticks none twice, and the ingest seam takes only steps of the storage   *)
(* port on either store.                                                   *)
(*                                                                         *)
(* The argument has three parts.  The arithmetic of hours and minutes      *)
(* shows that a planned sleep ends at the first instant of any entry, with *)
(* all the entries of that instant in the batch.  TickerInv carries this   *)
(* through the sleep: while the clock has not reached soonest, no entry    *)
(* fires before it and those that fire at it are due.  IngestInv adds to   *)
(* the row types that a worker only holds a row that was inserted, which   *)
(* is why the unguarded terminal write never touches an absent row.        *)
(***************************************************************************)
EXTENDS Scheduler, WellFoundedInduction, TLAPS

\* The instant t is one of the entry's.
FiresAt(m, hours, t) == t % MINUTES = m /\ HourOf(t) \in hours

\* What the ticker relies on between its steps.  The third conjunct is the
\* plan: up to soonest nothing fires but, at soonest, the entries of the batch.
TickerInv ==
  /\ clock \in Nat /\ soonest \in Nat /\ lastTick \in Int
  /\ phase \in {"boot", "plan", "sleep", "enqueue", "down"}
  /\ due \subseteq Entry /\ pending \subseteq Entry
  /\ owed \subseteq Entry \X Nat
  /\ lastTick <= clock
  /\ phase = "enqueue" => soonest <= clock
  /\ phase = "sleep" =>
       \A e \in Entry : \A t \in Nat :
         clock < t /\ t <= soonest /\ FiresAt(MinuteOf[e], HoursOf[e], t) => t = soonest /\ e \in due
  /\ OwedIsPending

\* The rows, and the worker's side of them.
IngestInv ==
  /\ IngestTypeOK
  /\ \A w \in Worker : current[w] # NoJob => current[w] <= inserted
-----------------------------------------------------------------------------
\* The least element of a non-empty set of numbers, which min() and the choice
\* of the first entry in list order compute.
LEMMA MinNat ==
  ASSUME NEW S \in SUBSET Nat, S # {}
  PROVE  Min(S) \in S /\ \A y \in S : Min(S) <= y
<1>1. PICK x \in S : \A y \in S : ~ (<<y, x>> \in OpToRel(<, Nat))
  BY NatLessThanWellFounded, WFMin, Zenon
<1>2. \A y \in S : ~ (y < x)
  BY <1>1, Zenon DEF OpToRel
<1>3. \A y \in S : x <= y
  BY <1>2
<1> QED
  BY <1>3, Zenon DEF Min

\* Splitting a time into hours and minutes.
LEMMA DivMod ==
  ASSUME NEW a \in Nat, NEW M \in Nat \ {0}
  PROVE  /\ a \div M \in Nat /\ a % M \in 0..M-1
         /\ a = M * (a \div M) + (a % M)
  OBVIOUS

\* Putting a time together from an hour and a minute.
LEMMA DivModUnique ==
  ASSUME NEW q \in Nat, NEW M \in Nat \ {0}, NEW r \in 0..M-1
  PROVE  /\ (M * q + r) \div M = q
         /\ (M * q + r) % M = r
  OBVIOUS

\* Whole hours are ordered like their numbers, at least an hour apart.
LEMMA HourApart ==
  ASSUME NEW M \in Nat \ {0}, NEW p \in Nat, NEW q \in Nat, p < q
  PROVE  M * p + M <= M * q
<1>1. PICK d \in Nat : q = p + 1 + d
  <2>1. q - p - 1 \in Nat /\ q = p + 1 + (q - p - 1)
    OBVIOUS
  <2> QED BY <2>1, Zenon
<1>2. M * q = M * p + M + M * d
  BY <1>1
<1>3. M * d >= 0
  OBVIOUS
<1> QED
  BY <1>2, <1>3

\* The first part of next_fire_at: the minute in the running hour, or in the
\* next one, is the first such minute after now.
LEMMA Candidate ==
  ASSUME NEW m \in 0..MINUTES-1, NEW now \in Nat
  PROVE  \E q \in Nat :
           /\ IF (now \div MINUTES) * MINUTES + m <= now
                THEN (now \div MINUTES) * MINUTES + m + MINUTES = MINUTES * q + m
                ELSE (now \div MINUTES) * MINUTES + m = MINUTES * q + m
           /\ now < MINUTES * q + m
           /\ \A p \in Nat : now < MINUTES * p + m => q <= p
<1> DEFINE a == now \div MINUTES
           r == now % MINUTES
<1>m. MINUTES \in Nat \ {0}
  BY SchedulerAssumption, Zenon
<1>1. a \in Nat /\ r \in 0..MINUTES-1 /\ now = MINUTES * a + r
  BY DivMod, <1>m, Zenon
<1>2. MINUTES * (a + 1) = MINUTES * a + MINUTES /\ a * MINUTES = MINUTES * a /\ MINUTES * a \in Nat
  BY <1>1, <1>m
<1> HIDE DEF a, r
<1>3. CASE m <= r
  <2>1. \A p \in Nat : now < MINUTES * p + m => a + 1 <= p
    <3> SUFFICES ASSUME NEW p \in Nat, p <= a PROVE MINUTES * p + m <= now
      BY <1>1, <1>m
    <3>1. MINUTES * p <= MINUTES * a
      BY HourApart, <1>1, <1>m
    <3> QED
      BY <3>1, <1>1, <1>2, <1>3, <1>m
  <2>2. now < MINUTES * (a + 1) + m /\ a * MINUTES + m <= now
        /\ a * MINUTES + m + MINUTES = MINUTES * (a + 1) + m /\ a + 1 \in Nat
    BY <1>1, <1>2, <1>3, <1>m
  <2> QED
    BY <2>1, <2>2, Zenon DEF a
<1>4. CASE r < m
  <2>1. \A p \in Nat : now < MINUTES * p + m => a <= p
    <3> SUFFICES ASSUME NEW p \in Nat, p < a PROVE MINUTES * p + m <= now
      BY <1>1, <1>m
    <3>1. MINUTES * p + MINUTES <= MINUTES * a
      BY HourApart, <1>1, <1>m, Zenon
    <3> QED
      BY <3>1, <1>1, <1>2, <1>4, <1>m
  <2>2. now < MINUTES * a + m /\ ~ (a * MINUTES + m <= now) /\ a * MINUTES + m = MINUTES * a + m
    BY <1>1, <1>2, <1>4, <1>m
  <2> QED
    BY <2>1, <2>2, <1>1, Zenon DEF a
<1> QED
  BY <1>1, <1>3, <1>4, <1>m

\* Every hour of the day comes up within a day.
LEMMA HourComes ==
  ASSUME NEW q \in Nat, NEW h \in 0..HOURS-1
  PROVE  \E k \in 0..HOURS-1 : (q + k) % HOURS = h
<1> DEFINE a == q \div HOURS
           r == q % HOURS
<1>m. HOURS \in Nat \ {0}
  BY SchedulerAssumption, Zenon
<1>1. a \in Nat /\ r \in 0..HOURS-1 /\ q = HOURS * a + r
  BY DivMod, <1>m, Zenon
<1> HIDE DEF a, r
<1>2. CASE r <= h
  <2>1. h - r \in 0..HOURS-1 /\ q + (h - r) = HOURS * a + h
    BY <1>1, <1>2, <1>m
  <2>2. (HOURS * a + h) % HOURS = h
    BY DivModUnique, <1>1, <1>m, Zenon
  <2> QED
    BY <2>1, <2>2, Zenon
<1>3. CASE h < r
  <2>1. h - r + HOURS \in 0..HOURS-1 /\ q + (h - r + HOURS) = HOURS * (a + 1) + h /\ a + 1 \in Nat
    BY <1>1, <1>3, <1>m
  <2>2. (HOURS * (a + 1) + h) % HOURS = h
    BY DivModUnique, <2>1, <1>m
  <2> QED
    BY <2>1, <2>2, Zenon
<1> QED
  BY <1>1, <1>2, <1>3, <1>m

\* The hour and the minute of an instant that is on the minute.
LEMMA HourAndMinute ==
  ASSUME NEW q \in Nat, NEW m \in 0..MINUTES-1
  PROVE  HourOf(MINUTES * q + m) = q % HOURS /\ (MINUTES * q + m) % MINUTES = m
  BY DivModUnique, SchedulerAssumption, Zenon DEF HourOf

\* next_fire_at as an hour count: q is the hour of the candidate and s the
\* number of hours the loop over hours adds, a whole day if it finds none.
HourCount(m, hours, now, q, s) ==
  /\ next_fire_at(m, hours, now) = MINUTES * (q + s) + m
  /\ now < MINUTES * q + m
  /\ \A p \in Nat : now < MINUTES * p + m => q <= p
  /\ hours # {} => (q + s) % HOURS \in hours
  /\ \A k \in 0..HOURS-1 : (q + k) % HOURS \in hours => s <= k

\* The hour count of every call of next_fire_at.
LEMMA NextFireForm ==
  ASSUME NEW m \in 0..MINUTES-1, NEW hours \in SUBSET (0..HOURS-1), NEW now \in Nat
  PROVE  \E q \in Nat : \E s \in 0..HOURS : HourCount(m, hours, now, q, s)
<1>m. MINUTES \in Nat \ {0} /\ HOURS \in Nat \ {0}
  BY SchedulerAssumption, Zenon
<1>1. PICK q \in Nat :
           /\ IF (now \div MINUTES) * MINUTES + m <= now
                THEN (now \div MINUTES) * MINUTES + m + MINUTES = MINUTES * q + m
                ELSE (now \div MINUTES) * MINUTES + m = MINUTES * q + m
           /\ now < MINUTES * q + m
           /\ \A p \in Nat : now < MINUTES * p + m => q <= p
  BY Candidate, Zenon
<1> DEFINE c == MINUTES * q + m
           steps == {k \in 0..HOURS-1 : HourOf(c + k * MINUTES) \in hours}
           s == IF steps = {} THEN HOURS ELSE Min(steps)
<1>2. next_fire_at(m, hours, now) = c + MINUTES * s
  BY <1>1, Zenon DEF next_fire_at
<1>3. \A k \in 0..HOURS-1 : HourOf(c + k * MINUTES) = (q + k) % HOURS
  <2> TAKE k \in 0..HOURS-1
  <2>1. c + k * MINUTES = MINUTES * (q + k) + m /\ q + k \in Nat
    BY <1>m
  <2> QED
    BY <2>1, HourAndMinute, Zenon
<1>4. steps = {k \in 0..HOURS-1 : (q + k) % HOURS \in hours}
  BY <1>3, Zenon
<1> HIDE DEF c, steps
<1>5. steps \in SUBSET Nat
  BY <1>4, <1>m
<1>6. CASE steps = {}
  <2>1. s = HOURS /\ HOURS \in 0..HOURS
    BY <1>6, <1>m
  <2>2. hours = {}
    BY <1>6, <1>4, HourComes, Zenon
  <2>3. c + MINUTES * HOURS = MINUTES * (q + HOURS) + m
    BY <1>m DEF c
  <2>4. \A k \in 0..HOURS-1 : ~ ((q + k) % HOURS \in hours)
    BY <2>2, Zenon
  <2>5. next_fire_at(m, hours, now) = MINUTES * (q + HOURS) + m
    BY <1>2, <2>1, <2>3, Zenon
  <2> QED
    BY <1>1, <2>1, <2>2, <2>4, <2>5, Zenon DEF HourCount
<1>7. CASE steps # {}
  <2>1. s = Min(steps) /\ Min(steps) \in steps /\ \A k \in steps : Min(steps) <= k
    BY <1>7, <1>5, MinNat, Zenon
  <2> DEFINE d == Min(steps)
  <2>2. d \in 0..HOURS-1 /\ (q + d) % HOURS \in hours /\ \A k \in 0..HOURS-1 : (q + k) % HOURS \in hours => d <= k
    BY <2>1, <1>4, Zenon
  <2>3. next_fire_at(m, hours, now) = c + MINUTES * d
    BY <1>2, <2>1, Zenon
  <2> HIDE DEF d
  <2>4. c + MINUTES * d = MINUTES * (q + d) + m /\ d \in 0..HOURS
    BY <2>2, <1>m DEF c
  <2> QED
    BY <1>1, <2>2, <2>3, <2>4, Zenon DEF HourCount
<1> QED
  BY <1>6, <1>7, Zenon

\* ScheduleEntry.next_fire_at never answers with the past or the present, and
\* no instant of the entry lies between now and its answer; with some hour
\* allowed the answer is itself such an instant.
LEMMA NextFireFact ==
  ASSUME NEW m \in 0..MINUTES-1, NEW hours \in SUBSET (0..HOURS-1), NEW now \in Nat
  PROVE  /\ next_fire_at(m, hours, now) \in Nat
         /\ next_fire_at(m, hours, now) > now
         /\ hours # {} => FiresAt(m, hours, next_fire_at(m, hours, now))
         /\ \A t \in Nat : now < t /\ FiresAt(m, hours, t) => next_fire_at(m, hours, now) <= t
<1>m. MINUTES \in Nat \ {0} /\ HOURS \in Nat \ {0}
  BY SchedulerAssumption, Zenon
<1>0. PICK q \in Nat, s \in 0..HOURS : HourCount(m, hours, now, q, s)
  BY NextFireForm, Zenon
<1>1. /\ next_fire_at(m, hours, now) = MINUTES * (q + s) + m
      /\ now < MINUTES * q + m
      /\ \A p \in Nat : now < MINUTES * p + m => q <= p
      /\ hours # {} => (q + s) % HOURS \in hours
      /\ \A k \in 0..HOURS-1 : (q + k) % HOURS \in hours => s <= k
  BY <1>0, Zenon DEF HourCount
<1>2. q + s \in Nat /\ MINUTES * (q + s) + m \in Nat /\ MINUTES * q + m <= MINUTES * (q + s) + m
  <2>1. q + s \in Nat /\ (s = 0 \/ q < q + s)
    BY <1>m
  <2>2. MINUTES * q <= MINUTES * (q + s)
    BY <2>1, HourApart, <1>m
  <2> QED
    BY <2>1, <2>2, <1>m
<1>3. hours # {} => FiresAt(m, hours, MINUTES * (q + s) + m)
  BY <1>1, <1>2, HourAndMinute, Zenon DEF FiresAt
<1>4. ASSUME NEW t \in Nat, now < t, FiresAt(m, hours, t)
      PROVE  MINUTES * (q + s) + m <= t
  <2> DEFINE p == t \div MINUTES
  <2>1. p \in Nat /\ t = MINUTES * p + m /\ p % HOURS \in hours
    BY <1>4, DivMod, <1>m, Zenon DEF FiresAt, HourOf
  <2> HIDE DEF p
  <2>2. q <= p
    BY <2>1, <1>1, <1>4, Zenon
  <2>3. q + s <= p
    <3>1. CASE p - q \in 0..HOURS-1
      <4>1. q + (p - q) = p
        BY <2>1
      <4> QED
        BY <4>1, <3>1, <2>1, <1>1
    <3>2. CASE p - q >= HOURS
      BY <3>2, <2>1, <1>m
    <3> QED
      BY <3>1, <3>2, <2>1, <2>2, <1>m
  <2>4. MINUTES * (q + s) <= MINUTES * p
    BY <2>3, <2>1, <1>2, <1>m, HourApart
  <2> QED
    BY <2>4, <2>1, <1>2, <1>m
<1>5. MINUTES * (q + s) + m > now
  BY <1>1, <1>2, <1>m
<1> QED
  BY <1>1, <1>2, <1>3, <1>4, <1>5, Zenon

\* _soonest and the batch computed with it: the plan lies in the future, and
\* until then nothing fires but, at that very instant, the entries of the batch.
LEMMA PlanFact ==
  ASSUME NEW now \in Nat, Entry # {}
  PROVE  /\ _soonest(now) \in Nat /\ _soonest(now) > now
         /\ \A e \in Entry : \A t \in Nat :
              now < t /\ t <= _soonest(now) /\ FiresAt(MinuteOf[e], HoursOf[e], t)
                => t = _soonest(now) /\ e \in _due(now)
<1> DEFINE F == {NextFire(e, now) : e \in Entry}
<1>1. \A e \in Entry : /\ NextFire(e, now) \in Nat /\ NextFire(e, now) > now
                       /\ \A t \in Nat : now < t /\ FiresAt(MinuteOf[e], HoursOf[e], t) => NextFire(e, now) <= t
  <2> TAKE e \in Entry
  <2>1. MinuteOf[e] \in 0..MINUTES-1 /\ HoursOf[e] \in SUBSET (0..HOURS-1)
    BY SchedulerAssumption, Zenon
  <2> QED
    BY <2>1, NextFireFact, Zenon DEF NextFire
<1>2. F \in SUBSET Nat /\ F # {}
  BY <1>1, Zenon
<1>3. Min(F) \in F /\ \A y \in F : Min(F) <= y
  BY <1>2, MinNat, Zenon
<1>4. _soonest(now) = Min(F)
  BY Zenon DEF _soonest
<1>5. _soonest(now) \in F /\ \A e \in Entry : _soonest(now) <= NextFire(e, now)
  BY <1>3, <1>4, Zenon
<1>6. _soonest(now) \in Nat /\ _soonest(now) > now
  BY <1>1, <1>5, Zenon
<1>7. ASSUME NEW e \in Entry, NEW t \in Nat,
             now < t, t <= _soonest(now), FiresAt(MinuteOf[e], HoursOf[e], t)
      PROVE  t = _soonest(now) /\ e \in _due(now)
  <2>1. NextFire(e, now) \in Nat /\ NextFire(e, now) <= t /\ _soonest(now) <= NextFire(e, now)
    BY <1>1, <1>5, <1>7, Zenon
  <2>2. t = _soonest(now) /\ NextFire(e, now) = _soonest(now)
    BY <2>1, <1>6, <1>7
  <2> QED
    BY <2>2, Zenon DEF _due
<1> QED
  BY <1>6, <1>7, Zenon
-----------------------------------------------------------------------------
\* The process starts in the boot kick, with nothing planned and nothing owed.
LEMMA TickerInitInv ==
  TickerInit => TickerInv
<1> SUFFICES ASSUME TickerInit PROVE TickerInv
  OBVIOUS
<1>1. clock \in Nat /\ soonest \in Nat /\ lastTick \in Int /\ lastTick <= clock
  BY SchedulerAssumption DEF TickerInit
<1>2. phase = "boot" /\ due = {} /\ pending = Entry \ Freshness /\ owed = {}
  BY Zenon DEF TickerInit, BootKick
<1>3. OwedIsPending
  BY <1>2, Zenon DEF OwedIsPending
<1> QED
  BY <1>1, <1>2, <1>3, Zenon DEF TickerInv

\* enqueue_due takes one entry off its list and pays what was owed for it.
LEMMA EnqueueNextTicker ==
  TickerInv /\ EnqueueNext => TickerInv'
<1> SUFFICES ASSUME TickerInv, EnqueueNext PROVE TickerInv'
  OBVIOUS
<1> USE DEF TickerInv
<1>1. /\ phase \in {"boot", "enqueue"} /\ pending # {}
      /\ clock' = clock /\ phase' = phase /\ soonest' = soonest /\ due' = due
      /\ pending' = pending \ {Min(pending)}
  BY Zenon DEF EnqueueNext
<1>2. CASE phase = "boot"
  <2>1. lastTick' = lastTick /\ owed' = owed
    BY <1>2, Zenon DEF EnqueueNext
  <2>2. owed = {}
    BY <1>2, Zenon DEF OwedIsPending
  <2>3. OwedIsPending'
    BY <2>1, <2>2, Zenon DEF OwedIsPending
  <2> QED
    BY <1>1, <1>2, <2>1, <2>3, Zenon
<1>3. CASE phase = "enqueue"
  <2>1. lastTick' = soonest /\ owed' = owed \ {<<Min(pending), soonest>>}
    BY <1>3, Zenon DEF EnqueueNext
  <2>2. \A o \in owed' : o[2] = soonest /\ o[1] \in pending'
    <3> TAKE o \in owed'
    <3>1. o \in Entry \X Nat /\ o[2] = soonest /\ o[1] \in pending /\ o # <<Min(pending), soonest>>
      BY <2>1, <1>3, Zenon DEF OwedIsPending
    <3>2. o = <<o[1], o[2]>>
      BY <3>1
    <3> QED
      BY <3>1, <3>2, <1>1, Zenon
  <2>3. OwedIsPending'
    BY <2>2, <1>1, <1>3, Zenon DEF OwedIsPending
  <2> QED
    BY <1>1, <1>3, <2>1, <2>3
<1> QED
  BY <1>1, <1>2, <1>3, Zenon

\* A batch is finished only when nothing is owed any more; a raise, a stop or a
\* restart forgets the plan together with what was owed under it.
LEMMA PlanEndsTicker ==
  TickerInv /\ (EnqueueRaises \/ EnqueueDone \/ Stop \/ Restart) => TickerInv'
<1> SUFFICES ASSUME TickerInv, EnqueueRaises \/ EnqueueDone \/ Stop \/ Restart PROVE TickerInv'
  OBVIOUS
<1> USE DEF TickerInv
<1>1. owed' = {}
  BY Zenon DEF EnqueueRaises, EnqueueDone, Stop, Restart, OwedIsPending
<1>2. clock' = clock /\ lastTick' = lastTick /\ soonest' \in Nat
      /\ phase' \in {"boot", "plan", "down"}
      /\ due' \subseteq Entry /\ pending' \subseteq Entry
  BY DEF EnqueueRaises, EnqueueDone, Stop, Restart, BootKick
<1>3. OwedIsPending'
  BY <1>1, Zenon DEF OwedIsPending
<1> QED
  BY <1>1, <1>2, <1>3, Zenon

\* The top of the loop establishes the plan.
LEMMA PlanTicker ==
  TickerInv /\ Plan => TickerInv' /\ soonest' > lastTick
<1> SUFFICES ASSUME TickerInv, Plan PROVE TickerInv' /\ soonest' > lastTick
  OBVIOUS
<1> USE DEF TickerInv
<1>1. /\ phase = "plan" /\ Entry # {} /\ phase' = "sleep"
      /\ soonest' = _soonest(clock) /\ due' = _due(clock)
      /\ clock' = clock /\ pending' = pending /\ owed' = owed /\ lastTick' = lastTick
  BY Zenon DEF Plan
<1>2. /\ soonest' \in Nat /\ soonest' > clock
      /\ \A e \in Entry : \A t \in Nat :
           clock < t /\ t <= soonest' /\ FiresAt(MinuteOf[e], HoursOf[e], t) => t = soonest' /\ e \in due'
  BY <1>1, PlanFact, Zenon
<1>3. owed' = {} /\ due' \subseteq Entry
  BY <1>1, Zenon DEF OwedIsPending, _due
<1>4. OwedIsPending'
  BY <1>3, Zenon DEF OwedIsPending
<1>5. \A e \in Entry : \A t \in Nat :
        clock' < t /\ t <= soonest' /\ FiresAt(MinuteOf[e], HoursOf[e], t)' => t = soonest' /\ e \in due'
  BY <1>1, <1>2, Zenon DEF FiresAt, HourOf
<1>6. soonest' > lastTick
  <2>1. clock \in Nat /\ lastTick \in Int /\ lastTick <= clock
    OBVIOUS
  <2> DEFINE n == soonest'
  <2>2. n \in Nat /\ n > clock
    BY <1>2, Zenon
  <2> HIDE DEF n
  <2>3. n > lastTick
    BY <2>1, <2>2
  <2> QED
    BY <2>3, Zenon DEF n
<1> QED
  BY <1>1, <1>2, <1>3, <1>4, <1>5, <1>6, Zenon

\* The sleep ends at soonest or later, and its batch is the one to enqueue.
LEMMA WakeTicker ==
  TickerInv /\ Wake => TickerInv'
<1> SUFFICES ASSUME TickerInv, Wake PROVE TickerInv'
  OBVIOUS
<1> USE DEF TickerInv
<1>1. /\ phase = "sleep" /\ clock >= soonest /\ phase' = "enqueue" /\ pending' = due /\ due' = {}
      /\ clock' = clock /\ soonest' = soonest /\ owed' = owed /\ lastTick' = lastTick
  BY Zenon DEF Wake
<1>2. OwedIsPending'
  BY <1>1, Zenon DEF OwedIsPending
<1> QED
  BY <1>1, <1>2, Zenon

\* A minute passes: what becomes owed in it is in the batch by the plan.
LEMMA ClockTickTicker ==
  TickerInv /\ ClockTick => TickerInv'
<1> SUFFICES ASSUME TickerInv, ClockTick PROVE TickerInv'
  OBVIOUS
<1> USE DEF TickerInv
<1> DEFINE n == clock + 1
           Now == {d \in Entry : n % MINUTES = MinuteOf[d] /\ HourOf(n) \in HoursOf[d]}
<1>1. /\ clock' = n /\ phase' = phase /\ soonest' = soonest /\ due' = due
      /\ pending' = pending /\ lastTick' = lastTick /\ n \in Nat /\ clock < n
  BY DEF ClockTick
<1>2. owed' = IF phase = "sleep" /\ soonest >= n THEN owed \cup {<<e, n>> : e \in Now} ELSE owed
  BY <1>1, Zenon DEF ClockTick
<1>3. ASSUME NEW o \in owed'
      PROVE  o \in Entry \X Nat /\ o[2] = soonest
             /\ ((phase = "sleep" /\ o[1] \in due) \/ (phase = "enqueue" /\ o[1] \in pending))
  <2>1. CASE o \in owed
    BY <2>1, Zenon DEF OwedIsPending
  <2>2. CASE o \notin owed
    <3>1. phase = "sleep" /\ soonest >= n /\ o \in {<<e, n>> : e \in Now}
      BY <1>2, <2>2, Zenon
    <3>2. PICK e \in Now : o = <<e, n>>
      BY <3>1, Zenon
    <3>3. e \in Entry /\ FiresAt(MinuteOf[e], HoursOf[e], n) /\ n <= soonest
      BY <3>1, <1>1, Zenon DEF FiresAt
    <3>4. n = soonest /\ e \in due
      BY <3>1, <3>3, <1>1, Zenon
    <3> QED
      BY <3>1, <3>2, <3>3, <3>4, <1>1, Zenon
  <2> QED
    BY <2>1, <2>2, Zenon
<1>4. OwedIsPending' /\ owed' \subseteq Entry \X Nat
  BY <1>1, <1>3, Zenon DEF OwedIsPending
<1>5. phase' = "sleep" =>
       \A e \in Entry : \A t \in Nat :
         clock' < t /\ t <= soonest' /\ FiresAt(MinuteOf[e], HoursOf[e], t)' => t = soonest' /\ e \in due'
  <2> SUFFICES ASSUME phase = "sleep", NEW e \in Entry, NEW t \in Nat, n < t, t <= soonest,
                      FiresAt(MinuteOf[e], HoursOf[e], t)
               PROVE  t = soonest /\ e \in due
    BY <1>1, Zenon DEF FiresAt, HourOf
  <2>1. clock < t
    BY <1>1
  <2> QED
    BY <2>1, Zenon
<1>6. lastTick <= n /\ (phase = "enqueue" => soonest <= n)
  BY <1>1
<1> QED
  BY <1>1, <1>4, <1>5, <1>6, Zenon

\* Every step of the ticker, and every step of the workers and hosts, which
\* leave it alone.
LEMMA TickerInvStep ==
  TickerInv /\ [SchedulerNext]_SchedulerVars => TickerInv'
<1> SUFFICES ASSUME TickerInv, [SchedulerNext]_SchedulerVars PROVE TickerInv'
  OBVIOUS
<1>1. CASE UNCHANGED tickerVars
  <2>1. OwedIsPending'
    BY <1>1, Zenon DEF tickerVars, TickerInv, OwedIsPending
  <2> QED
    BY <1>1, <2>1, Zenon DEF tickerVars, TickerInv, FiresAt, HourOf
<1>2. UNCHANGED SchedulerVars \/ HostEnqueue \/ (IngestNext /\ UNCHANGED tickerVars) => UNCHANGED tickerVars
  BY Zenon DEF SchedulerVars, HostEnqueue
<1> QED
  BY <1>1, <1>2, EnqueueNextTicker, PlanEndsTicker, PlanTicker, WakeTicker, ClockTickTicker, Zenon
     DEF SchedulerNext

\* The ticker's invariant holds throughout.
THEOREM TickerInvariant ==
  SchedulerSpec => []TickerInv
<1>1. SchedulerInit => TickerInv
  BY TickerInitInv, Zenon DEF SchedulerInit
<1> QED
  BY <1>1, TickerInvStep, PTL DEF SchedulerSpec

\* For every length of hour and day, every minute, every non-empty set of hours
\* and every time, next_fire_at answers with the first instant after now that
\* is on the minute and in an allowed hour.
THEOREM NextFireIsNext ==
  SchedulerSpec => []NextFireIsTheNextInstant
<1>1. TickerInv => NextFireIsTheNextInstant
  <2> SUFFICES ASSUME TickerInv, NEW m \in 0..MINUTES-1, NEW hours \in SUBSET (0..HOURS-1), hours # {}
               PROVE  /\ next_fire_at(m, hours, clock) > clock
                      /\ FiresAt(m, hours, next_fire_at(m, hours, clock))
                      /\ \A t \in (clock + 1)..(next_fire_at(m, hours, clock) - 1) : ~ FiresAt(m, hours, t)
    BY Zenon DEF NextFireIsTheNextInstant, FiresAt, HourOf
  <2> DEFINE fire == next_fire_at(m, hours, clock)
  <2>1. clock \in Nat
    BY Zenon DEF TickerInv
  <2>2. /\ fire \in Nat /\ fire > clock /\ FiresAt(m, hours, fire)
        /\ \A t \in Nat : clock < t /\ FiresAt(m, hours, t) => fire <= t
    BY <2>1, NextFireFact, Zenon
  <2> HIDE DEF fire
  <2>3. \A t \in (clock + 1)..(fire - 1) : ~ FiresAt(m, hours, t)
    <3> SUFFICES ASSUME NEW t \in (clock + 1)..(fire - 1), FiresAt(m, hours, t) PROVE FALSE
      OBVIOUS
    <3>1. t \in Nat /\ clock < t /\ ~ (fire <= t)
      BY <2>1, <2>2
    <3> QED
      BY <3>1, <2>2, Zenon
  <2> QED
    BY <2>2, <2>3, Zenon DEF fire
<1> QED
  BY <1>1, TickerInvariant, PTL

\* No instant the sleeping ticker reaches is forgotten, for every schedule and
\* however late it wakes: it is in the batch or in what enqueue_due still does.
THEOREM NoInstantIsForgotten ==
  SchedulerSpec => []OwedIsPending
<1>1. TickerInv => OwedIsPending
  BY Zenon DEF TickerInv
<1> QED
  BY <1>1, TickerInvariant, PTL

\* No instant is ticked twice or early, across restarts: run_forever plans
\* after every instant it enqueued for, and enqueues only for reached ones.
THEOREM InstantsAreTickedOnce ==
  SchedulerSpec => OneTickPerInstant
<1>1. TickerInv /\ [SchedulerNext]_SchedulerVars
        => [/\ phase = "plan" /\ phase' = "sleep" => soonest' > lastTick
            /\ lastTick' # lastTick => lastTick' <= clock]_SchedulerVars
  <2> SUFFICES ASSUME TickerInv, SchedulerNext
               PROVE  /\ phase = "plan" /\ phase' = "sleep" => soonest' > lastTick
                      /\ lastTick' # lastTick => lastTick' <= clock
    OBVIOUS
  <2>1. ASSUME phase = "plan", phase' = "sleep" PROVE soonest' > lastTick
    <3>1. Plan
      BY <2>1, Zenon DEF SchedulerNext, EnqueueNext, EnqueueRaises, EnqueueDone, Wake, Stop, Restart,
                  ClockTick, HostEnqueue, tickerVars
    <3> QED
      BY <3>1, PlanTicker, Zenon
  <2>2. ASSUME lastTick' # lastTick PROVE lastTick' <= clock
    <3>1. EnqueueNext
      BY <2>2, Zenon DEF SchedulerNext, Plan, EnqueueRaises, EnqueueDone, Wake, Stop, Restart,
                  ClockTick, HostEnqueue, tickerVars
    <3>2. phase = "enqueue" /\ lastTick' = soonest
      BY <3>1, <2>2, Zenon DEF EnqueueNext
    <3> QED
      BY <3>2, Zenon DEF TickerInv
  <2> QED
    BY <2>1, <2>2, Zenon
<1> QED
  BY <1>1, TickerInvariant, PTL DEF SchedulerSpec, OneTickPerInstant
-----------------------------------------------------------------------------
\* An empty table with idle workers.
LEMMA IngestInitInv ==
  IngestInit => IngestInv
  BY IngestAssumption DEF IngestInit, IngestInv, IngestTypeOK, Job, Done

\* enqueue_ingest_job inserts the next row.
LEMMA EnqueueIngest ==
  ASSUME IngestInv, NEW p \in IngestPriority, enqueue_ingest_job(p), UNCHANGED <<current, faults>>
  PROVE  IngestInv'
<1> USE DEF IngestInv, IngestTypeOK
<1> DEFINE j == inserted + 1
<1>1. /\ j \in Job /\ inserted' = j /\ status' = [status EXCEPT ![j] = "queued"]
      /\ priority' = [priority EXCEPT ![j] = StoredPriority(p)]
      /\ spi' = spi /\ claimedBy' = claimedBy /\ lapsed' = lapsed /\ current' = current /\ faults' = faults
  BY Zenon DEF enqueue_ingest_job
<1>2. StoredPriority(p) \in Int
  BY IngestAssumption DEF StoredPriority
<1>3. priority' \in [Job -> Int] /\ status' \in [Job -> {"absent", "queued", "running"} \cup Done]
  BY <1>1, <1>2, Zenon
<1>4. \A k \in Job : (status'[k] = "absent") = (k > inserted')
  <2> TAKE k \in Job
  <2>1. (status[k] = "absent") = (k > inserted) /\ k \in Int /\ inserted \in Int
    BY DEF Job
  <2>2. CASE k = j
    BY <2>2, <2>1, <1>1
  <2>3. CASE k # j
    <3>1. status'[k] = status[k] /\ (k > inserted' <=> k > inserted)
      BY <2>3, <2>1, <1>1
    <3> QED
      BY <3>1, <2>1
  <2> QED
    BY <2>2, <2>3, Zenon
<1>5. lapsed' \subseteq {k \in Job : status'[k] = "running"}
  <2> SUFFICES ASSUME NEW k \in lapsed PROVE k \in Job /\ status'[k] = "running"
    BY <1>1, Zenon
  <2>1. k \in Job /\ status[k] = "running" /\ status[j] = "absent"
    BY <1>1 DEF Job
  <2> QED
    BY <2>1, <1>1, Zenon
<1>6. inserted' \in 0..MaxJobs /\ \A w \in Worker : current'[w] # NoJob => current'[w] <= inserted'
  <2>1. \A w \in Worker : current[w] # NoJob => current[w] \in Int
    BY DEF Job
  <2> QED
    BY <2>1, <1>1 DEF Job
<1> QED
  BY <1>1, <1>3, <1>4, <1>5, <1>6, Zenon

\* A statement that moves rows between open and terminal states, and workers
\* that let go of their job, keep the invariant: no row appears or vanishes,
\* and only running rows have a lapsed lease.
LEMMA RowsMove ==
  ASSUME IngestInv,
         UNCHANGED <<spi, inserted>>,
         status' \in [Job -> {"absent", "queued", "running"} \cup Done],
         \A k \in Job : (status'[k] = "absent") = (status[k] = "absent"),
         priority' \in [Job -> Int], claimedBy' \in [Job -> Worker \cup {NoWorker}],
         lapsed' \subseteq {k \in Job : status'[k] = "running"},
         current' \in [Worker -> Job \cup {NoJob}],
         \A w \in Worker : current'[w] # NoJob => current'[w] = current[w] \/ status[current'[w]] # "absent",
         faults' \in 0..MaxFaults
  PROVE  IngestInv'
<1> USE DEF IngestInv, IngestTypeOK
<1>1. \A k \in Job : (status'[k] = "absent") = (k > inserted')
  OBVIOUS
<1>2. ASSUME NEW w \in Worker, current'[w] # NoJob PROVE current'[w] <= inserted'
  <2>1. current'[w] \in Job
    BY <1>2, Zenon
  <2> DEFINE k == current'[w]
  <2>2. k \in Job /\ (k = current[w] \/ status[k] # "absent") /\ k # NoJob
    BY <2>1, <1>2, Zenon
  <2>3. k <= inserted
    <3> HIDE DEF k
    <3>1. (status[k] = "absent") = (k > inserted) /\ k \in Int /\ inserted \in Int
      BY <2>2 DEF Job
    <3> QED
      BY <3>1, <2>2
  <2> QED
    BY <2>3, Zenon
<1> QED
  BY <1>1, <1>2, Zenon

\* The priority the port would show: the higher is claimed first.
PortPriority == [j \in Job |-> IF spi THEN priority[j] ELSE -priority[j]]

\* An insert, on either store, is the port's enqueue with the negated priority.
LEMMA EnqueueIsPortStep ==
  ASSUME IngestInv, NEW p \in IngestPriority, enqueue_ingest_job(p)
  PROVE  Contract!StorageNext
<1> DEFINE j == inserted + 1
<1>1. /\ j \in Job /\ status' = [status EXCEPT ![j] = "queued"]
      /\ priority' = [priority EXCEPT ![j] = IF spi THEN -p ELSE p]
      /\ spi' = spi /\ claimedBy' = claimedBy /\ lapsed' = lapsed
  BY Zenon DEF enqueue_ingest_job, StoredPriority
<1>2. status[j] = "absent" /\ priority \in [Job -> Int] /\ p \in Int
  BY <1>1, IngestAssumption DEF IngestInv, IngestTypeOK, Job
<1>3. PortPriority' = [PortPriority EXCEPT ![j] = -p]
  <2>1. \A k \in Job : PortPriority'[k] = IF k = j THEN -p ELSE PortPriority[k]
    BY <1>1, <1>2, Zenon DEF PortPriority
  <2>2. PortPriority' = [k \in Job |-> PortPriority'[k]]
    BY Zenon DEF PortPriority, Job
  <2>3. [PortPriority EXCEPT ![j] = -p] = [k \in Job |-> IF k = j THEN -p ELSE PortPriority[k]]
    BY <1>1, Zenon DEF PortPriority, Job
  <2> QED
    BY <2>1, <2>2, <2>3, Zenon
<1>4. Contract!enqueue(j, -p)
  BY <1>1, <1>2, <1>3, Zenon DEF Contract!enqueue, PortPriority, Job
<1>5. -p \in {-n : n \in IngestPriority} \cup {0}
  OBVIOUS
<1> QED
  BY <1>1, <1>4, <1>5, Zenon DEF Contract!StorageNext

\* A claim takes a row of the highest port priority on either store.
LEMMA ClaimStep ==
  ASSUME IngestInv, NEW w \in Worker, IngestClaim(w)
  PROVE  IngestInv' /\ Contract!StorageNext
<1>1. PICK j \in Job : claim_next_ingest_job(w, j) /\ current' = [current EXCEPT ![w] = j]
  BY Zenon DEF IngestClaim
<1>2. /\ status[j] = "queued" /\ status' = [status EXCEPT ![j] = "running"]
      /\ claimedBy' = [claimedBy EXCEPT ![j] = w]
      /\ spi' = spi /\ inserted' = inserted /\ priority' = priority /\ lapsed' = lapsed /\ faults' = faults
  BY <1>1, Zenon DEF claim_next_ingest_job, Queued, IngestClaim
<1>3. IngestInv'
  BY <1>1, <1>2, RowsMove, Zenon DEF IngestInv, IngestTypeOK
<1>4. \A k \in Job : status[k] = "queued" => PortPriority[k] <= PortPriority[j]
  <2> TAKE k \in Job
  <2> HAVE status[k] = "queued"
  <2>1. priority[k] \in Int /\ priority[j] \in Int
    BY Zenon DEF IngestInv, IngestTypeOK
  <2>2. IF spi THEN priority[k] <= priority[j] ELSE priority[k] >= priority[j]
    BY <1>1, <2>1 DEF claim_next_ingest_job, FirstMongo, FirstRelational, Queued
  <2> QED
    BY <2>1, <2>2 DEF PortPriority
<1>5. PortPriority' = PortPriority
  BY <1>2, Zenon DEF PortPriority, Job
<1>6. Contract!claim(j, w)
  BY <1>2, <1>4, <1>5, Zenon DEF Contract!claim, Contract!Queued, PortPriority, Job
<1> QED
  BY <1>3, <1>6, Zenon DEF Contract!StorageNext

\* A terminal write of a worker or a watchdog, which does not check the owner,
\* still finds an open row and so is the port's mark.
LEMMA MarkStep ==
  ASSUME IngestInv, NEW w \in Worker, current[w] # NoJob, NEW s \in Done, mark_ingest(current[w], s),
         current' = [current EXCEPT ![w] = NoJob], faults' = faults
  PROVE  IngestInv' /\ Contract!StorageNext
<1> DEFINE j == current[w]
<1>1. /\ status[j] \notin Done /\ status' = [status EXCEPT ![j] = s] /\ lapsed' = lapsed \ {j}
      /\ spi' = spi /\ inserted' = inserted /\ priority' = priority /\ claimedBy' = claimedBy
  BY Zenon DEF mark_ingest
<1>2. j \in Job /\ status[j] \in {"queued", "running"}
  <2>1. j \in Job /\ j <= inserted /\ inserted \in Int
    BY DEF IngestInv, IngestTypeOK
  <2>2. (status[j] = "absent") = (j > inserted) /\ status[j] \in {"absent", "queued", "running"} \cup Done
    BY <2>1, Zenon DEF IngestInv, IngestTypeOK
  <2> QED
    BY <2>1, <2>2, <1>1 DEF Job
<1> HIDE DEF j
<1>3. s \in {"completed", "failed"} /\ s # "absent" /\ s # "running"
  BY Zenon DEF Done
<1>4. IngestInv'
  <2>1. lapsed' \subseteq {k \in Job : status'[k] = "running"}
    BY <1>1, <1>2, Zenon DEF IngestInv, IngestTypeOK
  <2>2. \A k \in Job : (status'[k] = "absent") = (status[k] = "absent")
    BY <1>1, <1>2, <1>3, Zenon DEF IngestInv, IngestTypeOK
  <2>3. /\ status' \in [Job -> {"absent", "queued", "running"} \cup Done]
        /\ current' \in [Worker -> Job \cup {NoJob}]
        /\ \A v \in Worker : current'[v] # NoJob => current'[v] = current[v]
    BY <1>1, <1>2, Zenon DEF IngestInv, IngestTypeOK
  <2> QED
    BY <1>1, <2>1, <2>2, <2>3, RowsMove, Zenon DEF IngestInv, IngestTypeOK
<1>5. PortPriority' = PortPriority
  BY <1>1, Zenon DEF PortPriority, Job
<1>6. Contract!mark_terminal(j, s)
  BY <1>1, <1>2, <1>5, Zenon DEF Contract!mark_terminal, Contract!mark, Contract!Open, PortPriority, Job
<1> QED
  BY <1>2, <1>3, <1>4, <1>6, Zenon DEF Contract!StorageNext, Contract!TERMINAL_STATUSES

\* The renewer renews under the row's claim, as the port does.
LEMMA RenewStep ==
  ASSUME IngestInv, NEW w \in Worker, IngestRenew(w)
  PROVE  IngestInv' /\ Contract!StorageNext
<1> DEFINE j == current[w]
<1>1. /\ j # NoJob /\ status[j] = "running" /\ claimedBy[j] = w /\ lapsed' = lapsed \ {j}
      /\ spi' = spi /\ inserted' = inserted /\ status' = status /\ priority' = priority
      /\ claimedBy' = claimedBy /\ current' = current /\ faults' = faults
  BY Zenon DEF IngestRenew, renew_ingest_lease
<1>2. j \in Job
  BY <1>1, Zenon DEF IngestInv, IngestTypeOK
<1> HIDE DEF j
<1>3. IngestInv'
  BY <1>1, RowsMove, Zenon DEF IngestInv, IngestTypeOK
<1>4. PortPriority' = PortPriority
  BY <1>1, Zenon DEF PortPriority, Job
<1>5. Contract!renew_lease(j, w)
  BY <1>1, <1>4, Zenon DEF Contract!renew_lease, PortPriority, Job
<1> QED
  BY <1>2, <1>3, <1>5, Zenon DEF Contract!StorageNext

\* A worker that lets go of its job without a write (the row was terminal, the
\* write was lost, the process crashed), and a fault of the ticker, leave the
\* rows alone.
LEMMA LetGoStep ==
  ASSUME IngestInv, UNCHANGED storeVars, faults' \in 0..MaxFaults,
         \/ current' = current
         \/ \E w \in Worker : current' = [current EXCEPT ![w] = NoJob]
  PROVE  IngestInv' /\ UNCHANGED Contract!rows
<1>1. /\ spi' = spi /\ inserted' = inserted /\ status' = status /\ priority' = priority
      /\ claimedBy' = claimedBy /\ lapsed' = lapsed
  BY Zenon DEF storeVars
<1>2. /\ current' \in [Worker -> Job \cup {NoJob}]
      /\ \A v \in Worker : current'[v] # NoJob => current'[v] = current[v]
  BY Zenon DEF IngestInv, IngestTypeOK
<1>3. IngestInv'
  BY <1>1, <1>2, RowsMove, Zenon DEF IngestInv, IngestTypeOK
<1>4. PortPriority' = PortPriority
  BY <1>1, Zenon DEF PortPriority, Job
<1> QED
  BY <1>1, <1>3, <1>4, Zenon DEF Contract!rows, PortPriority, Job

\* A lease runs out on a running row.
LEMMA LapseStep ==
  ASSUME IngestInv, NEW j \in Job, LeaseLapse(j)
  PROVE  IngestInv' /\ Contract!StorageNext
<1>1. /\ status[j] = "running" /\ j \notin lapsed /\ lapsed' = lapsed \cup {j}
      /\ spi' = spi /\ inserted' = inserted /\ status' = status /\ priority' = priority
      /\ claimedBy' = claimedBy /\ current' = current
  BY Zenon DEF LeaseLapse
<1>2. faults' \in 0..MaxFaults
  BY IngestAssumption DEF LeaseLapse, IngestInv, IngestTypeOK
<1>3. IngestInv'
  BY <1>1, <1>2, RowsMove, Zenon DEF IngestInv, IngestTypeOK
<1>4. PortPriority' = PortPriority
  BY <1>1, Zenon DEF PortPriority, Job
<1>5. Contract!LeaseLapse(j)
  BY <1>1, <1>4, Zenon DEF Contract!LeaseLapse, PortPriority, Job
<1> QED
  BY <1>3, <1>5, Zenon DEF Contract!StorageNext

\* The sweep re-queues expired rows: all of them, moved to the front, on the
\* relational table, one of them on mongodb.  Either is the port's reclaim.
LEMMA SweepStep ==
  ASSUME IngestInv, SweepIngest
  PROVE  IngestInv' /\ Contract!StorageNext
<1>1. current' = current /\ faults' = faults
  BY Zenon DEF SweepIngest
<1>2. PICK S \in SUBSET lapsed :
        /\ S # {} /\ BackToQueue(S)
        /\ \/ spi /\ priority' = priority
           \/ /\ ~ spi
              /\ priority' = [j \in Job |-> IF j \in S /\ priority[j] > 10 THEN 10 ELSE priority[j]]
  <2>1. CASE spi
    <3>1. PICK j \in lapsed : BackToQueue({j}) /\ priority' = priority
      BY <2>1, Zenon DEF SweepIngest, reclaim_expired_ingest_leases, ReclaimMongo
    <3> QED
      BY <3>1, <2>1, Zenon
  <2>2. CASE ~ spi
    BY <2>2, Zenon DEF SweepIngest, reclaim_expired_ingest_leases, ReclaimRelational
  <2> QED
    BY <2>1, <2>2, Zenon
<1>3. /\ status' = [j \in Job |-> IF j \in S THEN "queued" ELSE status[j]]
      /\ claimedBy' = [j \in Job |-> IF j \in S THEN NoWorker ELSE claimedBy[j]]
      /\ lapsed' = lapsed \ S /\ spi' = spi /\ inserted' = inserted
  BY <1>2, Zenon DEF BackToQueue
<1>4. /\ S \subseteq Job /\ \A j \in S : status[j] = "running"
      /\ priority \in [Job -> Int] /\ priority' \in [Job -> Int]
  BY <1>2 DEF IngestInv, IngestTypeOK
<1>5. IngestInv'
  <2>1. /\ status' \in [Job -> {"absent", "queued", "running"} \cup Done]
        /\ claimedBy' \in [Job -> Worker \cup {NoWorker}]
        /\ \A k \in Job : (status'[k] = "absent") = (status[k] = "absent")
        /\ lapsed' \subseteq {k \in Job : status'[k] = "running"}
    BY <1>3, <1>4, Zenon DEF IngestInv, IngestTypeOK
  <2> QED
    BY <1>1, <1>3, <1>4, <2>1, RowsMove, Zenon DEF IngestInv, IngestTypeOK
<1>6. /\ \A j \in S : PortPriority'[j] >= PortPriority[j]
      /\ \A j \in Job \ S : PortPriority'[j] = PortPriority[j]
  BY <1>2, <1>3, <1>4 DEF PortPriority
<1>7. Contract!reclaim_expired(S)
  BY <1>2, <1>3, <1>6, Zenon DEF Contract!reclaim_expired, Contract!Requeue, PortPriority, Job
<1> QED
  BY <1>4, <1>5, <1>7, Zenon DEF Contract!StorageNext

\* Every step of the whole is a step of the port or leaves its rows alone.
LEMMA SeamStep ==
  IngestInv /\ [SchedulerNext]_SchedulerVars => IngestInv' /\ [Contract!StorageNext]_(Contract!rows)
<1> SUFFICES ASSUME IngestInv, [SchedulerNext]_SchedulerVars
             PROVE  IngestInv' /\ (Contract!StorageNext \/ UNCHANGED Contract!rows)
  BY Zenon
<1>f. faults \in 0..MaxFaults /\ MaxFaults \in Nat
  BY IngestAssumption, Zenon DEF IngestInv, IngestTypeOK
<1>1. ASSUME UNCHANGED ingestVars PROVE IngestInv' /\ UNCHANGED Contract!rows
  BY <1>1, <1>f, LetGoStep, Zenon DEF ingestVars
<1>2. ASSUME EnqueueNext PROVE IngestInv' /\ Contract!StorageNext
  <2>1. enqueue_ingest_job(100) /\ UNCHANGED <<current, faults>> /\ 100 \in IngestPriority
    BY <1>2, IngestAssumption, Zenon DEF EnqueueNext
  <2> QED
    BY <2>1, EnqueueIngest, EnqueueIsPortStep, Zenon
<1>3. ASSUME HostEnqueue PROVE IngestInv' /\ Contract!StorageNext
  <2>1. PICK p \in IngestPriority : enqueue_ingest_job(p) /\ UNCHANGED <<current, faults>>
    BY <1>3, Zenon DEF HostEnqueue
  <2> QED
    BY <2>1, EnqueueIngest, EnqueueIsPortStep, Zenon
<1>4. ASSUME EnqueueRaises \/ Stop PROVE IngestInv' /\ UNCHANGED Contract!rows
  <2>1. UNCHANGED storeVars /\ current' = current /\ faults' \in 0..MaxFaults
    BY <1>4, <1>f DEF EnqueueRaises, Stop
  <2> QED
    BY <2>1, LetGoStep, Zenon
<1>5. ASSUME NEW w \in Worker, execute_ingest_job(w) \/ WatchdogTrip(w)
      PROVE  IngestInv' /\ (Contract!StorageNext \/ UNCHANGED Contract!rows)
  <2>1. current[w] # NoJob /\ current' = [current EXCEPT ![w] = NoJob]
    BY <1>5, Zenon DEF execute_ingest_job, WatchdogTrip
  <2>2. \/ \E s \in Done : mark_ingest(current[w], s) /\ faults' = faults
        \/ UNCHANGED storeVars /\ faults' \in 0..MaxFaults
    BY <1>5, <1>f DEF execute_ingest_job, WatchdogTrip, Done
  <2> QED
    BY <2>1, <2>2, MarkStep, LetGoStep, Zenon
<1>6. ASSUME NEW w \in Worker, IngestCrash(w) PROVE IngestInv' /\ UNCHANGED Contract!rows
  <2>1. UNCHANGED storeVars /\ current' = [current EXCEPT ![w] = NoJob] /\ faults' \in 0..MaxFaults
    BY <1>6, <1>f DEF IngestCrash
  <2> QED
    BY <2>1, LetGoStep, Zenon
<1>7. ASSUME IngestNext PROVE IngestInv' /\ (Contract!StorageNext \/ UNCHANGED Contract!rows)
  BY <1>7, <1>5, <1>6, ClaimStep, RenewStep, LapseStep, SweepStep, Zenon DEF IngestNext
<1>8. UNCHANGED SchedulerVars \/ EnqueueDone \/ Plan \/ Wake \/ Restart \/ ClockTick => UNCHANGED ingestVars
  BY Zenon DEF SchedulerVars, EnqueueDone, Plan, Wake, Restart, ClockTick
<1> QED
  BY <1>1, <1>2, <1>3, <1>4, <1>7, <1>8, Zenon DEF SchedulerNext

\* The ingest rows behave, on either store, with any number of workers, jobs and
\* priorities and under the ticker's, the hosts' and the sweeps' steps in any
\* order, like the rows of the storage port: ingest_store's seam implements it.
THEOREM SeamImplementsThePort ==
  SchedulerSpec => SeamImplementsTheContract
<1>1. SchedulerInit => IngestInv
  BY IngestInitInv, Zenon DEF SchedulerInit
<1>2. SchedulerInit => Contract!StorageInit
  <2> SUFFICES ASSUME IngestInit PROVE Contract!StorageInit
    BY Zenon DEF SchedulerInit
  <2>0. \A j \in Job : (IF spi THEN priority[j] ELSE -priority[j]) = 0
    <3> TAKE j \in Job
    <3>1. priority[j] = 0
      BY Zenon DEF IngestInit
    <3>2. \A n \in Int : n >= 0 /\ n <= 0 => -n = n
      OBVIOUS
    <3>3. -priority[j] = priority[j]
      <4> DEFINE n == priority[j]
      <4>1. n \in Int /\ n >= 0 /\ n <= 0
        BY <3>1
      <4> QED
        BY <4>1, <3>2, Zenon
    <3> QED
      BY <3>1, <3>3, Zenon
  <2>1. [j \in Job |-> IF spi THEN priority[j] ELSE -priority[j]] = [j \in Job |-> 0]
    BY <2>0, Zenon
  <2> QED
    BY <2>1, Zenon DEF IngestInit, Contract!StorageInit, Job
<1> QED
  BY <1>1, <1>2, SeamStep, PTL DEF SchedulerSpec, SeamImplementsTheContract, Contract!StorageSpec
=============================================================================
