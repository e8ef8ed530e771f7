-------------------------- MODULE LlmServerProofs --------------------------
(***************************************************************************)
(* Proofs about the LLM server, for any number of threads, models and      *)
(* configurations, of edits, restarts and crashes.  The supervisor that is *)
(* in office watches the backend of the cache, and a request that was sent *)
(* through an older one has seen the row change: a rebuild needs an edit.  *)
(* Requests sent through the backend in the cache are counted by it, one   *)
(* each, which is what keeps the supervisor from stopping the server.      *)
(***************************************************************************)
EXTENDS LlmServer, FiniteSetTheorems, TLAPS

(* The factory: the backend of the cache is the last one built, all those  *)
(* before it were told to stop, and every rebuild was for another row.     *)
FactoryInv ==
  /\ config \in Config /\ snapshot \in [Gen -> Config \cup {None}]
  /\ built \in Nat /\ entry = built /\ told = 1..(built - 1)
  /\ edits \in 0..MaxEdits /\ built <= edits + 1
  /\ built > 0 /\ snapshot[built] # config => built <= edits

(* Only a backend that was built has a supervisor.                         *)
SupervisorInv ==
  /\ sup \in [Gen -> {"none", "asleep", "running", "stop"}]
  /\ \A b \in Gen : sup[b] # "none" => b <= built

Place == {"idle", "ready", "up", "health", "probe", "commit", "mark", "post"}

(* A request during which the row was not edited goes through the backend  *)
(* of the cache, and that one was built for the row.                       *)
RequestInv ==
  /\ pc \in [Client -> Place] /\ gen \in [Client -> Nat] /\ edited \in [Client -> BOOLEAN]
  /\ \A c \in Client : pc[c] = "idle" => gen[c] = 0
  /\ \A c \in Client : pc[c] # "idle" =>
       /\ gen[c] >= 1 /\ gen[c] <= built
       /\ ~ edited[c] => gen[c] = built /\ snapshot[built] = config

(* The threads between mark_request_start and mark_request_end of b.       *)
Posting(b) == {c \in Client : pc[c] = "post" /\ gen[c] = b}

(* The counter of a backend is the number of its requests.                 *)
BracketInv ==
  /\ inflight \in [Gen -> Nat]
  /\ \A b \in Gen : inflight[b] = Cardinality(Posting(b))

LlmInv == FactoryInv /\ SupervisorInv /\ RequestInv /\ BracketInv

-----------------------------------------------------------------------------
(* The factory.                                                            *)

(* The steps that leave the factory and the row alone.                     *)
LEMMA FactoryKept ==
  ASSUME [LlmNext]_vars, ~ \E c \in Client : get_backend(c), ~ \E s \in Config : set_llm_config(s),
         ~ stop, ~ Crash
  PROVE  UNCHANGED <<config, entry, built, snapshot, told, edits>>
<1>1. CASE \E c \in Client : ClientStep(c)
  BY <1>1, Zenon DEF ClientStep, ensure_ready, ensure_up_fn, _await_health, served_model_fn, Commit,
    mark_request_start, mark_request_end, factoryVars, supVars
<1>2. CASE \E b \in Gen : SupervisorStep(b) \/ IdleWindowPasses(b)
  BY <1>2, Zenon DEF SupervisorStep, reap_idle_once, Decide, Reap, IdleWindowPasses, factoryVars, supVars
<1>3. CASE Boot \/ _handle_notify \/ TtlPasses
  BY <1>3, Zenon DEF Boot, _handle_notify, TtlPasses, factoryVars, supVars
<1>4. CASE UNCHANGED vars
  BY <1>4, Zenon DEF vars, factoryVars, supVars
<1>. QED
  BY <1>1, <1>2, <1>3, <1>4, Zenon DEF LlmNext

(* _get_backend returns the backend of the cache, or rebuilds.             *)
LEMMA LookupCases ==
  ASSUME Lookup
  PROVE  \/ entry # 0 /\ UNCHANGED <<entry, built, snapshot, told, sup>>
         \/ (entry = 0 \/ snapshot[entry] # config) /\ Rebuild
BY Zenon DEF Lookup, factoryVars, supVars

(* What a rebuild writes; the number of the new backend is one of Gen.     *)
LEMMA RebuildWrites ==
  ASSUME FactoryInv, Rebuild, entry = 0 \/ snapshot[entry] # config
  PROVE  /\ built + 1 \in Gen /\ built + 1 <= edits + 1
         /\ built' = built + 1 /\ entry' = built + 1
         /\ snapshot' = [snapshot EXCEPT ![built + 1] = config]
         /\ sup' = [sup EXCEPT ![built + 1] = IF config \in Reaped THEN "asleep" ELSE "none"]
         /\ told' = 1..built
<1>1. /\ built' = built + 1 /\ entry' = built + 1
      /\ snapshot' = [snapshot EXCEPT ![built + 1] = config]
      /\ sup' = [sup EXCEPT ![built + 1] = IF config \in Reaped THEN "asleep" ELSE "none"]
      /\ IF entry = 0 THEN told' = told ELSE told' = told \cup {entry}
  BY Zenon DEF Rebuild, Arm
<1>2. /\ built \in Nat /\ entry = built /\ told = 1..(built - 1) /\ edits \in 0..MaxEdits
      /\ built > 0 => built <= edits
  BY DEF FactoryInv
<1>3. told' = 1..built
  <2>1. CASE built = 0
    BY ONLY <1>1, <1>2, <2>1
  <2>2. CASE built # 0
    <3>1. told' = told \cup {built}
      BY ONLY <1>1, <1>2, <2>2, Zenon
    <3>2. 1..built = 1..(built - 1) \cup {built}
      BY ONLY <1>2, <2>2
    <3>. QED
      BY ONLY <1>2, <3>1, <3>2, Zenon
  <2>. QED
    BY ONLY <2>1, <2>2, Zenon
<1>4. built + 1 \in Gen /\ built + 1 <= edits + 1
  BY ONLY <1>2, LlmAssumption DEF Gen
<1>. QED
  BY ONLY <1>1, <1>3, <1>4, Zenon

(* FactoryInv is kept by every step.                                       *)
LEMMA FactoryStep ==
  ASSUME FactoryInv, [LlmNext]_vars
  PROVE  FactoryInv'
<1>1. CASE UNCHANGED <<config, entry, built, snapshot, told, edits>>
  BY <1>1, Zenon DEF FactoryInv
<1>2. ASSUME NEW c \in Client, get_backend(c)
      PROVE  FactoryInv'
  <2>1. Lookup /\ UNCHANGED <<config, edits>>
    BY <1>2, Zenon DEF get_backend
  <2>2. CASE Rebuild /\ (entry = 0 \/ snapshot[entry] # config)
    <3>1. /\ built + 1 \in Gen /\ built + 1 <= edits + 1
          /\ built' = built + 1 /\ entry' = built + 1 /\ told' = 1..built
          /\ snapshot' = [snapshot EXCEPT ![built + 1] = config]
      BY <2>2, RebuildWrites, Zenon
    <3>2. built \in Nat /\ config \in Config /\ snapshot \in [Gen -> Config \cup {None}] /\ edits \in 0..MaxEdits
      BY Zenon DEF FactoryInv
    <3>3. snapshot' \in [Gen -> Config \cup {None}] /\ snapshot'[built'] = config'
      BY ONLY <2>1, <3>1, <3>2, Zenon
    <3>4. built' \in Nat /\ told' = 1..(built' - 1) /\ built' <= edits' + 1
      BY ONLY <2>1, <3>1, <3>2
    <3>. QED
      BY ONLY <2>1, <3>1, <3>2, <3>3, <3>4, Zenon DEF FactoryInv
  <2>. QED
    BY <1>1, <2>1, <2>2, LookupCases, Zenon
<1>3. ASSUME NEW s \in Config, set_llm_config(s)
      PROVE  FactoryInv'
  <2>1. /\ config' = s /\ edits < MaxEdits /\ edits' = edits + 1
        /\ UNCHANGED <<entry, built, snapshot, told>>
    BY <1>3, Zenon DEF set_llm_config, Op, factoryVars, supVars
  <2>. QED
    BY ONLY <1>3, <2>1, FactoryInv, LlmAssumption DEF FactoryInv
<1>4. CASE stop \/ Crash
  <2>1. Gone /\ (UNCHANGED edits \/ Op)
    BY <1>4, Zenon DEF stop, Crash
  <2>2. /\ entry' = 0 /\ built' = 0 /\ snapshot' = [b \in Gen |-> None] /\ told' = {} /\ config' = config
        /\ UNCHANGED edits \/ (edits < MaxEdits /\ edits' = edits + 1)
    BY <2>1, Zenon DEF Gone, Op
  <2>. QED
    BY ONLY <2>2, FactoryInv, LlmAssumption DEF FactoryInv
<1>. QED
  BY <1>1, <1>2, <1>3, <1>4, FactoryKept, Zenon

-----------------------------------------------------------------------------
(* The supervisors.                                                        *)

(* SupervisorInv is kept by every step.                                    *)
LEMMA SupervisorStepKeeps ==
  ASSUME FactoryInv, SupervisorInv, [LlmNext]_vars
  PROVE  SupervisorInv'
<1>1. sup \in [Gen -> {"none", "asleep", "running", "stop"}] /\ built \in Nat
  BY Zenon DEF SupervisorInv, FactoryInv
<1>2. CASE UNCHANGED <<sup, built>>
  BY <1>2, Zenon DEF SupervisorInv
<1>3. ASSUME NEW c \in Client, get_backend(c)
      PROVE  SupervisorInv'
  <2>1. Lookup
    BY <1>3, Zenon DEF get_backend
  <2>2. CASE Rebuild /\ (entry = 0 \/ snapshot[entry] # config)
    <3>1. /\ built + 1 \in Gen /\ built' = built + 1
          /\ \E p \in {"none", "asleep"} : sup' = [sup EXCEPT ![built + 1] = p]
      BY <2>2, RebuildWrites, Zenon
    <3>2. /\ sup' \in [Gen -> {"none", "asleep", "running", "stop"}]
          /\ \A b \in Gen : b # built + 1 => sup'[b] = sup[b]
      BY ONLY <1>1, <3>1, Zenon
    <3>3. ASSUME NEW b \in Gen, sup'[b] # "none"
          PROVE  b <= built'
      BY ONLY <1>1, <3>1, <3>2, <3>3, SupervisorInv DEF SupervisorInv, Gen
    <3>. QED
      BY ONLY <3>2, <3>3, Zenon DEF SupervisorInv
  <2>. QED
    BY <1>2, <2>1, <2>2, LookupCases, Zenon
<1>4. ASSUME NEW b \in Gen, SupervisorStep(b)
      PROVE  SupervisorInv'
  <2>1. /\ sup[b] # "none" /\ built' = built
        /\ \E p \in {"none", "asleep", "running", "stop"} : sup' = [sup EXCEPT ![b] = p]
    <3>1. Loop(b) => \E p \in {"none", "asleep", "running", "stop"} : sup' = [sup EXCEPT ![b] = p]
      BY Zenon DEF Loop
    <3>. QED
      BY <1>4, <3>1, Zenon DEF SupervisorStep, reap_idle_once, Decide, Reap, factoryVars
  <2>. QED
    BY ONLY <1>1, <2>1, SupervisorInv, Zenon DEF SupervisorInv
<1>5. CASE stop \/ Crash
  BY <1>5, Zenon DEF stop, Crash, Gone, SupervisorInv
<1>6. CASE \/ \E c \in Client : ClientStep(c)
           \/ \E b \in Gen : IdleWindowPasses(b)
           \/ \E s \in Config : set_llm_config(s)
  <2>1. UNCHANGED <<sup, built>>
    BY <1>6, Zenon DEF ClientStep, ensure_ready, ensure_up_fn, _await_health, served_model_fn, Commit,
      mark_request_start, mark_request_end, IdleWindowPasses, set_llm_config, factoryVars, supVars
  <2>. QED
    BY <1>2, <2>1, Zenon
<1>7. CASE Boot \/ _handle_notify \/ TtlPasses \/ UNCHANGED vars
  <2>1. UNCHANGED <<sup, built>>
    BY <1>7, Zenon DEF Boot, _handle_notify, TtlPasses, vars, factoryVars, supVars
  <2>. QED
    BY <1>2, <2>1, Zenon
<1>. QED
  BY <1>3, <1>4, <1>5, <1>6, <1>7, Zenon DEF LlmNext

-----------------------------------------------------------------------------
(* The requests.                                                           *)

(* A step of a request takes one thread to its next place, through the     *)
(* same backend, or ends the request.                                      *)
Moves(c) == \E p \in Place \ {"idle"} : Goto(c, p)

LEMMA ClientMoves ==
  ASSUME NEW c \in Client, ClientStep(c)
  PROVE  pc[c] # "idle" /\ (Moves(c) \/ Return(c))
BY Zenon DEF ClientStep, ensure_ready, ensure_up_fn, _await_health, served_model_fn, Commit,
  mark_request_start, mark_request_end, Moves, Place

(* RequestInv is kept by every step.                                       *)
LEMMA RequestStep ==
  ASSUME FactoryInv, RequestInv, [LlmNext]_vars
  PROVE  RequestInv'
<1>1. /\ built \in Nat /\ entry = built
      /\ pc \in [Client -> Place] /\ gen \in [Client -> Nat] /\ edited \in [Client -> BOOLEAN]
  BY Zenon DEF RequestInv, FactoryInv
<1>2. CASE UNCHANGED <<pc, gen, edited, built, snapshot, config>>
  BY <1>2, Zenon DEF RequestInv
<1>3. ASSUME NEW c \in Client, get_backend(c)
      PROVE  RequestInv'
  <2>1. /\ Lookup /\ pc[c] = "idle" /\ config' = config
        /\ pc' = [pc EXCEPT ![c] = "ready"] /\ gen' = [gen EXCEPT ![c] = entry']
        /\ edited' = [edited EXCEPT ![c] = config # snapshot'[entry']]
    BY <1>3, Zenon DEF get_backend
  <2>2. /\ built' \in Nat /\ built' >= 1 /\ entry' = built'
        /\ \A d \in Client : pc[d] # "idle" => gen[d] <= built'
        /\ \A d \in Client : pc[d] # "idle" /\ ~ edited[d] => built' = built /\ snapshot' = snapshot
    <3>1. CASE entry # 0 /\ UNCHANGED <<entry, built, snapshot, told, sup>>
      BY ONLY <1>1, <3>1, RequestInv DEF RequestInv
    <3>2. CASE Rebuild /\ (entry = 0 \/ snapshot[entry] # config)
      <4>1. built' = built + 1 /\ entry' = built + 1
        BY <3>2, RebuildWrites, Zenon
      <4>2. \A d \in Client : pc[d] # "idle" => edited[d]
        BY ONLY <1>1, <3>2, RequestInv DEF RequestInv
      <4>. QED
        BY ONLY <1>1, <4>1, <4>2, RequestInv DEF RequestInv
    <3>. QED
      BY <2>1, <3>1, <3>2, LookupCases, Zenon
  <2>3. pc' \in [Client -> Place] /\ gen' \in [Client -> Nat] /\ edited' \in [Client -> BOOLEAN]
    BY ONLY <1>1, <2>1, <2>2, Zenon DEF Place
  <2>4. ASSUME NEW d \in Client
        PROVE  /\ pc'[d] = "idle" => gen'[d] = 0
               /\ pc'[d] # "idle" => /\ gen'[d] >= 1 /\ gen'[d] <= built'
                                     /\ ~ edited'[d] => gen'[d] = built' /\ snapshot'[built'] = config'
    <3>1. CASE d = c
      <4>1. pc'[d] = "ready" /\ gen'[d] = built' /\ edited'[d] = (config # snapshot'[built'])
        BY ONLY <1>1, <2>1, <2>2, <3>1, Zenon
      <4>2. pc'[d] # "idle" /\ gen'[d] >= 1 /\ gen'[d] <= built'
        BY ONLY <2>2, <4>1
      <4>3. edited'[d] \/ snapshot'[built'] = config'
        BY ONLY <2>1, <4>1, Zenon
      <4>. QED
        BY ONLY <4>1, <4>2, <4>3, Zenon
    <3>2. CASE d # c
      <4>1. pc'[d] = pc[d] /\ gen'[d] = gen[d] /\ edited'[d] = edited[d]
        BY ONLY <1>1, <2>1, <3>2, Zenon
      <4>2. /\ pc[d] = "idle" => gen[d] = 0
            /\ pc[d] # "idle" => /\ gen[d] >= 1
                                 /\ ~ edited[d] => gen[d] = built /\ snapshot[built] = config
        BY Zenon DEF RequestInv
      <4>3. /\ config' = config
            /\ pc[d] # "idle" => gen[d] <= built' /\ (~ edited[d] => built' = built /\ snapshot' = snapshot)
        BY ONLY <2>1, <2>2, Zenon
      <4>4. CASE pc[d] = "idle"
        <5>1. pc'[d] = "idle" /\ gen'[d] = 0
          BY ONLY <4>1, <4>2, <4>4, Zenon
        <5>. QED
          BY ONLY <5>1, Zenon
      <4>5. CASE pc[d] # "idle" /\ edited[d]
        BY ONLY <4>1, <4>2, <4>3, <4>5, Zenon
      <4>6. CASE pc[d] # "idle" /\ ~ edited[d]
        <5>1. gen[d] >= 1 /\ gen[d] <= built' /\ gen[d] = built' /\ snapshot'[built'] = config'
          BY ONLY <4>2, <4>3, <4>6, Zenon
        <5>. QED
          BY ONLY <4>1, <4>6, <5>1, Zenon
      <4>. QED
        BY ONLY <4>4, <4>5, <4>6, Zenon
    <3>. QED
      BY ONLY <3>1, <3>2, Zenon
  <2>. QED
    BY ONLY <2>3, <2>4, Zenon DEF RequestInv
<1>4. ASSUME NEW c \in Client, ClientStep(c)
      PROVE  RequestInv'
  <2>1. UNCHANGED <<built, snapshot, config>>
    BY <1>4, Zenon DEF ClientStep, ensure_ready, ensure_up_fn, _await_health, served_model_fn, Commit,
      mark_request_start, mark_request_end, factoryVars
  <2>2. CASE Moves(c)
    <3>1. PICK p \in Place \ {"idle"} : pc' = [pc EXCEPT ![c] = p] /\ UNCHANGED <<gen, edited>>
      BY <2>2, Zenon DEF Moves, Goto
    <3>. QED
      BY ONLY <1>1, <1>4, <2>1, <3>1, ClientMoves, RequestInv, Zenon DEF RequestInv
  <2>3. CASE Return(c)
    BY ONLY <1>1, <2>1, <2>3, RequestInv, Zenon DEF RequestInv, Return, Place
  <2>. QED
    BY <1>4, <2>2, <2>3, ClientMoves, Zenon
<1>5. ASSUME NEW s \in Config, set_llm_config(s)
      PROVE  RequestInv'
  <2>1. /\ edited' = [c \in Client |-> edited[c] \/ pc[c] # "idle"]
        /\ UNCHANGED <<pc, gen, built>>
    BY <1>5, Zenon DEF set_llm_config, factoryVars
  <2>. QED
    BY ONLY <1>1, <2>1, RequestInv, Zenon DEF RequestInv
<1>6. CASE stop \/ Crash
  <2>1. Gone
    BY <1>6, Zenon DEF stop, Crash
  <2>. QED
    BY ONLY <2>1, Zenon DEF Gone, RequestInv, Place
<1>7. CASE \E b \in Gen : SupervisorStep(b) \/ IdleWindowPasses(b)
  <2>1. UNCHANGED <<pc, gen, edited, built, snapshot, config>>
    BY <1>7, Zenon DEF SupervisorStep, reap_idle_once, Decide, Reap, IdleWindowPasses, factoryVars, clientVars
  <2>. QED
    BY <1>2, <2>1, Zenon
<1>8. CASE Boot \/ _handle_notify \/ TtlPasses \/ UNCHANGED vars
  <2>1. UNCHANGED <<pc, gen, edited, built, snapshot, config>>
    BY <1>8, Zenon DEF Boot, _handle_notify, TtlPasses, vars, factoryVars, clientVars
  <2>. QED
    BY <1>2, <2>1, Zenon
<1>. QED
  BY <1>3, <1>4, <1>5, <1>6, <1>7, <1>8, Zenon DEF LlmNext

-----------------------------------------------------------------------------
(* The request bracket.                                                    *)

(* A thread enters and leaves the requests of one backend at a time.       *)
LEMMA PostingFinite ==
  ASSUME NEW b
  PROVE  IsFiniteSet(Posting(b)) /\ Cardinality(Posting(b)) \in Nat
         /\ Cardinality(Posting(b)) <= Cardinality(Client)
<1>1. Posting(b) \in SUBSET Client
  BY Zenon DEF Posting
<1>. QED
  BY <1>1, LlmAssumption, FS_Subset, FS_CardinalityType, Zenon

(* A step after which the same threads post through the same backends, the *)
(* counters untouched.                                                     *)
LEMMA BracketKept ==
  ASSUME BracketInv, inflight' = inflight,
         \A c \in Client : \/ pc'[c] = pc[c] /\ gen'[c] = gen[c]
                           \/ pc[c] # "post" /\ pc'[c] # "post"
  PROVE  BracketInv'
<1>1. \A b \in Gen : Posting(b)' = Posting(b)
  BY Zenon DEF Posting
<1>. QED
  BY <1>1, Zenon DEF BracketInv

(* BracketInv is kept by every step.  The counter is above zero whenever   *)
(* mark_request_end counts it down.                                        *)
LEMMA BracketStep ==
  ASSUME FactoryInv, RequestInv, BracketInv, [LlmNext]_vars
  PROVE  BracketInv'
<1>1. /\ pc \in [Client -> Place] /\ gen \in [Client -> Nat]
      /\ inflight \in [Gen -> Nat] /\ \A b \in Gen : inflight[b] = Cardinality(Posting(b))
  BY Zenon DEF RequestInv, BracketInv
<1>2. ASSUME NEW c \in Client, mark_request_start(c) \/ mark_request_end(c)
      PROVE  gen[c] \in Gen
  <2>1. pc[c] # "idle"
    BY <1>2, Zenon DEF mark_request_start, mark_request_end
  <2>2. gen[c] >= 1 /\ gen[c] <= built
    BY <2>1, Zenon DEF RequestInv
  <2>3. built \in Nat /\ built <= edits + 1 /\ edits \in 0..MaxEdits
    BY Zenon DEF FactoryInv
  <2>. QED
    BY ONLY <1>1, <2>2, <2>3, LlmAssumption DEF Gen
<1>3. ASSUME NEW c \in Client, mark_request_start(c)
      PROVE  BracketInv'
  <2>1. /\ pc[c] = "mark" /\ pc' = [pc EXCEPT ![c] = "post"] /\ gen' = gen
        /\ inflight' = [inflight EXCEPT ![gen[c]] = @ + 1]
    BY <1>3, Zenon DEF mark_request_start, Goto
  <2>2. gen[c] \in Gen
    BY <1>2, <1>3, Zenon
  <2>3. /\ Posting(gen[c])' = Posting(gen[c]) \cup {c} /\ c \notin Posting(gen[c])
        /\ \A b \in Gen : b # gen[c] => Posting(b)' = Posting(b)
    BY ONLY <1>1, <2>1, Zenon DEF Posting
  <2>4. Cardinality(Posting(gen[c])') = Cardinality(Posting(gen[c])) + 1
    <3>1. IsFiniteSet(Posting(gen[c]))
      BY PostingFinite, Zenon
    <3>2. Cardinality(Posting(gen[c]) \cup {c}) = Cardinality(Posting(gen[c])) + 1
      BY ONLY <2>3, <3>1, FS_AddElement, Zenon
    <3>. QED
      BY ONLY <2>3, <3>2, Zenon
  <2>5. \A b \in Gen : inflight'[b] = Cardinality(Posting(b)')
    BY ONLY <1>1, <2>1, <2>2, <2>3, <2>4, Zenon
  <2>6. inflight' \in [Gen -> Nat]
    BY ONLY <1>1, <2>1, <2>2
  <2>. QED
    BY ONLY <2>5, <2>6, Zenon DEF BracketInv
<1>4. ASSUME NEW c \in Client, mark_request_end(c)
      PROVE  BracketInv'
  <2>1. PICK g \in Gen : g = gen[c]
    BY <1>2, <1>4, Zenon
  <2>2. /\ pc[c] = "post" /\ pc' = [pc EXCEPT ![c] = "idle"] /\ gen' = [gen EXCEPT ![c] = 0]
        /\ inflight' = [inflight EXCEPT ![g] = IF inflight[g] > 0 THEN inflight[g] - 1 ELSE 0]
    BY <1>4, <2>1, Zenon DEF mark_request_end, Return
  <2>3. /\ Posting(g)' = Posting(g) \ {c} /\ c \in Posting(g)
        /\ \A b \in Gen : b # g => Posting(b)' = Posting(b)
    BY ONLY <1>1, <2>1, <2>2, Zenon DEF Posting
  <2>4. Cardinality(Posting(g)') = Cardinality(Posting(g)) - 1 /\ Cardinality(Posting(g)) # 0
    <3>1. IsFiniteSet(Posting(g)) /\ Posting(g) # {}
      BY <2>3, PostingFinite, Zenon
    <3>2. Cardinality(Posting(g) \ {c}) = Cardinality(Posting(g)) - 1
      BY ONLY <2>3, <3>1, FS_RemoveElement, Zenon
    <3>3. Cardinality(Posting(g)) # 0
      BY ONLY <3>1, FS_EmptySet, Zenon
    <3>. QED
      BY ONLY <2>3, <3>2, <3>3, Zenon
  <2>5. \A b \in Gen : inflight'[b] = Cardinality(Posting(b)')
    <3>1. inflight'[g] = inflight[g] - 1
      <4>1. inflight[g] \in Nat /\ inflight[g] # 0
        BY ONLY <1>1, <2>4, g \in Gen, Zenon
      <4>2. inflight[g] > 0
        BY ONLY <4>1
      <4>. QED
        BY ONLY <1>1, <2>2, <4>2, g \in Gen, Zenon
    <3>2. \A b \in Gen : b # g => inflight'[b] = inflight[b]
      BY ONLY <1>1, <2>2, g \in Gen, Zenon
    <3>. QED
      BY ONLY <1>1, <2>3, <2>4, <3>1, <3>2, Zenon
  <2>6. inflight' \in [Gen -> Nat]
    BY ONLY <1>1, <2>2
  <2>. QED
    BY ONLY <2>5, <2>6, Zenon DEF BracketInv
<1>5. ASSUME NEW c \in Client,
             \/ get_backend(c) \/ ensure_ready(c) \/ ensure_up_fn(c) \/ _await_health(c)
             \/ served_model_fn(c) \/ Commit(c)
      PROVE  BracketInv'
  <2>1. /\ pc[c] # "post" /\ inflight' = inflight
        /\ \E p \in Place \ {"post"} : pc' = [pc EXCEPT ![c] = p]
        /\ gen' = gen \/ \E g : gen' = [gen EXCEPT ![c] = g]
    BY <1>5, Zenon DEF get_backend, ensure_ready, ensure_up_fn, _await_health, served_model_fn, Commit,
      Goto, Return, backendVars, Place
  <2>2. \A d \in Client : \/ pc'[d] = pc[d] /\ gen'[d] = gen[d]
                          \/ pc[d] # "post" /\ pc'[d] # "post"
    BY ONLY <1>1, <2>1, Zenon
  <2>. QED
    BY <2>1, <2>2, BracketKept, Zenon
<1>6. CASE stop \/ Crash
  <2>1. Gone
    BY <1>6, Zenon DEF stop, Crash
  <2>2. inflight' = [b \in Gen |-> 0] /\ pc' = [c \in Client |-> "idle"]
    BY <2>1, Zenon DEF Gone
  <2>3. \A b \in Gen : Posting(b)' = {}
    BY ONLY <2>2, Zenon DEF Posting
  <2>. QED
    BY ONLY <2>2, <2>3, FS_EmptySet, Zenon DEF BracketInv
<1>7. CASE \/ \E b \in Gen : SupervisorStep(b) \/ IdleWindowPasses(b)
           \/ \E s \in Config : set_llm_config(s)
  <2>1. UNCHANGED <<pc, gen, inflight>>
    BY <1>7, Zenon DEF SupervisorStep, reap_idle_once, Decide, Reap, IdleWindowPasses, set_llm_config,
      backendVars, clientVars
  <2>. QED
    BY <2>1, BracketKept, Zenon
<1>8. CASE Boot \/ _handle_notify \/ TtlPasses \/ UNCHANGED vars
  <2>1. UNCHANGED <<pc, gen, inflight>>
    BY <1>8, Zenon DEF Boot, _handle_notify, TtlPasses, vars, backendVars, clientVars
  <2>. QED
    BY <2>1, BracketKept, Zenon
<1>. QED
  BY <1>3, <1>4, <1>5, <1>6, <1>7, <1>8, Zenon DEF LlmNext, ClientStep

-----------------------------------------------------------------------------
(* The invariant.                                                          *)

(* A worker that starts has built nothing and sends nothing.               *)
LEMMA LlmInitInv == LlmInit => LlmInv
<1> SUFFICES ASSUME LlmInit
             PROVE  LlmInv
  OBVIOUS
<1>1. FactoryInv
  <2>1. /\ config \in Config /\ snapshot = [b \in Gen |-> None]
        /\ built = 0 /\ entry = 0 /\ told = {} /\ edits = 0
    BY Zenon DEF LlmInit
  <2>. QED
    BY ONLY <2>1, LlmAssumption DEF FactoryInv
<1>2. SupervisorInv
  BY Zenon DEF LlmInit, SupervisorInv
<1>3. RequestInv
  BY Zenon DEF LlmInit, RequestInv, Place
<1>4. BracketInv
  <2>1. inflight = [b \in Gen |-> 0] /\ pc = [c \in Client |-> "idle"]
    BY Zenon DEF LlmInit
  <2>2. \A b \in Gen : Posting(b) = {}
    BY ONLY <2>1, Zenon DEF Posting
  <2>. QED
    BY ONLY <2>1, <2>2, FS_EmptySet, Zenon DEF BracketInv
<1>. QED
  BY <1>1, <1>2, <1>3, <1>4, Zenon DEF LlmInv

(* Factory, supervisors, requests and brackets of a worker fit together in *)
(* every reachable state.                                                  *)
THEOREM LlmInvariant == LlmSpec => []LlmInv
<1>1. LlmInv /\ [LlmNext]_vars => LlmInv'
  BY FactoryStep, SupervisorStepKeeps, RequestStep, BracketStep, Zenon DEF LlmInv
<1>. QED
  BY <1>1, LlmInitInv, PTL DEF LlmSpec

(* mark_request_start and mark_request_end bracket: the counter that the   *)
(* supervisor reads is, for every backend ever built, the number of        *)
(* threads that are sending a request through it.                          *)
THEOREM InflightCountsRequests == LlmSpec => []BracketInv
<1>1. LlmInv => BracketInv
  BY Zenon DEF LlmInv
<1>. QED
  BY <1>1, LlmInvariant, PTL

-----------------------------------------------------------------------------
(* What a supervisor may decide.                                           *)

(* A supervisor comes to "stop" only by its own decision, on a counter     *)
(* that it has just read.                                                  *)
LEMMA StopIsDecided ==
  ASSUME FactoryInv, SupervisorInv, [LlmNext]_vars,
         NEW b \in Gen, sup[b] = "running", sup'[b] = "stop"
  PROVE  inflight[b] = 0
<1>1. sup \in [Gen -> {"none", "asleep", "running", "stop"}]
  BY Zenon DEF SupervisorInv
<1>2. CASE UNCHANGED sup
  BY <1>2, Zenon
<1>3. ASSUME NEW d \in Gen, SupervisorStep(d)
      PROVE  inflight[b] = 0
  <2>1. CASE reap_idle_once(d)
    BY ONLY <1>1, <2>1, sup[b] = "running", sup'[b] = "stop", b \in Gen, d \in Gen, Zenon DEF reap_idle_once, Loop
  <2>2. CASE Decide(d)
    BY ONLY <1>1, <2>2, sup[b] = "running", sup'[b] = "stop", b \in Gen, d \in Gen, Zenon
    DEF Decide, Loop, vllm_should_stop
  <2>3. CASE Reap(d)
    BY ONLY <1>1, <2>3, sup[b] = "running", sup'[b] = "stop", b \in Gen, d \in Gen, Zenon DEF Reap, Loop
  <2>. QED
    BY ONLY <1>3, <2>1, <2>2, <2>3, Zenon DEF SupervisorStep
<1>4. ASSUME NEW c \in Client, get_backend(c)
      PROVE  inflight[b] = 0
  <2>1. CASE UNCHANGED sup
    BY ONLY <1>2, <2>1, Zenon
  <2>2. CASE (entry = 0 \/ snapshot[entry] # config) /\ Rebuild
    <3>1. sup' = [sup EXCEPT ![built + 1] = IF config \in Reaped THEN "asleep" ELSE "none"]
      BY <2>2, RebuildWrites, Zenon
    <3>. QED
      BY ONLY <1>1, <3>1, sup[b] = "running", sup'[b] = "stop", b \in Gen, Zenon
  <2>3. Lookup
    BY ONLY <1>4, Zenon DEF get_backend
  <2>. QED
    BY <2>1, <2>2, <2>3, LookupCases, Zenon
<1>5. CASE stop \/ Crash
  BY <1>5, Zenon DEF stop, Crash, Gone
<1>6. CASE \E c \in Client : ClientStep(c)
  BY ONLY <1>2, <1>6, Zenon DEF ClientStep, ensure_ready, ensure_up_fn, _await_health, served_model_fn, Commit,
    mark_request_start, mark_request_end, supVars
<1>7. CASE \/ (\E d \in Gen : IdleWindowPasses(d)) \/ (\E s \in Config : set_llm_config(s))
           \/ Boot \/ _handle_notify \/ TtlPasses \/ UNCHANGED vars
  BY ONLY <1>2, <1>7, Zenon DEF IdleWindowPasses, set_llm_config, Boot, _handle_notify, TtlPasses, supVars, vars
<1>. QED
  BY <1>3, <1>4, <1>5, <1>6, <1>7, Zenon DEF LlmNext

(* As long as the operator edits nothing, no supervisor in office decides  *)
(* to stop a server that is answering a request: the only backend whose    *)
(* supervisor is in office is the one of the cache, and a request without  *)
(* an edit is counted there.                                               *)
THEOREM IdleStopSpares == LlmSpec => IdleStopSparesRequests
<1>1. ASSUME LlmInv, [LlmNext]_vars, NEW b \in Gen \ told, sup[b] = "running", sup'[b] = "stop",
             NEW c \in Client, pc[c] = "post", ~ edited[c]
      PROVE  FALSE
  <2>1. inflight[b] = 0 /\ inflight[b] = Cardinality(Posting(b))
    BY <1>1, StopIsDecided, Zenon DEF LlmInv, BracketInv
  <2>2. b \in Nat /\ b >= 1 /\ b <= built /\ b \notin 1..(built - 1) /\ built \in Nat
    <3>1. b \in Gen /\ b \notin told /\ b <= built /\ told = 1..(built - 1) /\ built \in Nat
      BY <1>1, Zenon DEF LlmInv, SupervisorInv, FactoryInv
    <3>. QED
      BY ONLY <3>1, LlmAssumption DEF Gen
  <2>3. b = built
    BY ONLY <2>2
  <2>4. gen[c] = built
    BY <1>1, Zenon DEF LlmInv, RequestInv
  <2>5. c \in Posting(b)
    BY <1>1, <2>3, <2>4, Zenon DEF Posting
  <2>6. IsFiniteSet(Posting(b)) /\ Posting(b) # {}
    BY <2>5, PostingFinite, Zenon
  <2>. QED
    BY <2>1, <2>6, FS_EmptySet, Zenon
<1>2. LlmInv /\ [LlmNext]_vars =>
        [\A b \in Gen \ told :
           sup[b] = "running" /\ sup'[b] = "stop" =>
             \A c \in Client : pc[c] = "post" /\ snapshot[gen[c]] \in Vllm => c \in cut \/ edited[c]]_vars
  BY <1>1, Zenon
<1>. QED
  BY <1>2, LlmInvariant, PTL DEF LlmSpec, IdleStopSparesRequests
-----------------------------------------------------------------------------
(* Types.                                                                  *)

(* The sidecar, and what the backends and the clients believe about it.    *)
SidecarTypes ==
  serves \in Model \cup {None} /\ boots \in Model \cup {None} /\ (serves = None \/ boots = None)
BeliefTypes ==
  /\ state \in [Gen -> {"dead", "loading", "serving"}] /\ served \in [Gen -> Model \cup {None}]
  /\ seen \in [Client -> Model \cup {None}]
FlagTypes == notified \in BOOLEAN /\ fresh \in BOOLEAN
ServerTypes == SidecarTypes /\ BeliefTypes /\ FlagTypes

(* What stop_server writes, whatever its hook says.                        *)
LEMMA StopWrites ==
  ASSUME NEW b, stop_server(b)
  PROVE  /\ \/ UNCHANGED <<state, served>>
            \/ state' = [state EXCEPT ![b] = "dead"] /\ served' = [served EXCEPT ![b] = None]
         /\ UNCHANGED sidecar \/ (serves' = None /\ boots' = None)
BY Zenon DEF stop_server, _do_stop_locked, kill_fn, Down

(* get_backend touches the sidecar only to stop it for the next backend.   *)
LEMMA LookupWrites ==
  ASSUME NEW c, get_backend(c)
  PROVE  /\ \/ UNCHANGED <<state, served>>
            \/ \E b : state' = [state EXCEPT ![b] = "dead"] /\ served' = [served EXCEPT ![b] = None]
         /\ UNCHANGED sidecar \/ (serves' = None /\ boots' = None)
         /\ UNCHANGED <<seen, notified>> /\ (UNCHANGED fresh \/ fresh' = TRUE)
<1>1. Lookup /\ UNCHANGED <<seen, notified>>
  BY Zenon DEF get_backend
<1>2. \/ UNCHANGED <<state, served, sidecar>>
      \/ stop_server(entry)
  BY ONLY <1>1, Zenon DEF Lookup, Rebuild
<1>3. UNCHANGED fresh \/ fresh' = TRUE
  BY ONLY <1>1, Zenon DEF Lookup, factoryVars
<1>. QED
  BY <1>1, <1>2, <1>3, StopWrites, Zenon

(* The sidecar starts with a model, serves what it started with, or is     *)
(* down.                                                                   *)
LEMMA SidecarStep ==
  ASSUME SidecarTypes, [LlmNext]_vars
  PROVE  SidecarTypes'
<1>1. ASSUME \/ UNCHANGED sidecar
             \/ serves' = None /\ boots' \in Model \cup {None}
             \/ serves' = boots /\ boots' = None
      PROVE  SidecarTypes'
  BY <1>1, Zenon DEF SidecarTypes, sidecar
<1>2. ASSUME NEW c \in Client, ClientStep(c)
      PROVE  SidecarTypes'
  <2>1. CASE ensure_ready(c)
    BY ONLY <1>1, <2>1, Zenon DEF ensure_ready, kill_fn, Down
  <2>2. CASE ensure_up_fn(c)
    <3>1. ModelOf[c] \in Model
      BY ONLY c \in Client, LlmAssumption, Zenon
    <3>. QED
      BY ONLY <1>1, <2>2, <3>1, Zenon DEF ensure_up_fn
  <2>3. CASE _await_health(c) \/ served_model_fn(c) \/ Commit(c) \/ mark_request_start(c) \/ mark_request_end(c)
    BY ONLY <1>1, <2>3, Zenon DEF _await_health, served_model_fn, Commit, mark_request_start, mark_request_end
  <2>. QED
    BY ONLY <1>2, <2>1, <2>2, <2>3, Zenon DEF ClientStep
<1>3. ASSUME NEW c \in Client, get_backend(c)
      PROVE  SidecarTypes'
  BY ONLY <1>1, <1>3, LookupWrites, Zenon
<1>4. ASSUME NEW b \in Gen, SupervisorStep(b) \/ IdleWindowPasses(b)
      PROVE  SidecarTypes'
  BY ONLY <1>1, <1>4, StopWrites, Zenon DEF SupervisorStep, reap_idle_once, Decide, Reap, IdleWindowPasses
<1>5. CASE \/ (\E s \in Config : set_llm_config(s)) \/ _handle_notify \/ TtlPasses \/ UNCHANGED vars
  BY ONLY <1>1, <1>5, Zenon DEF set_llm_config, _handle_notify, TtlPasses, vars
<1>6. CASE Boot \/ stop \/ Crash
  BY ONLY <1>1, <1>6, Zenon DEF Boot, stop, Crash
<1>. QED
  BY <1>2, <1>3, <1>4, <1>5, <1>6, Zenon DEF LlmNext

(* A probe sees a model, and what was seen is what is stored.              *)
LEMMA BeliefStep ==
  ASSUME SidecarTypes, BeliefTypes, [LlmNext]_vars
  PROVE  BeliefTypes'
<1>0. /\ state \in [Gen -> {"dead", "loading", "serving"}] /\ served \in [Gen -> Model \cup {None}]
      /\ seen \in [Client -> Model \cup {None}]
  BY Zenon DEF BeliefTypes
<1>1. CASE UNCHANGED <<state, served, seen>>
  BY <1>1, Zenon DEF BeliefTypes
<1>2. ASSUME NEW b, state' = [state EXCEPT ![b] = "dead"], served' = [served EXCEPT ![b] = None],
             UNCHANGED seen
      PROVE  BeliefTypes'
  BY ONLY <1>0, <1>2, Zenon DEF BeliefTypes
<1>3. ASSUME NEW c \in Client, ClientStep(c)
      PROVE  BeliefTypes'
  <2>1. CASE ensure_ready(c)
    <3>1. /\ UNCHANGED state \/ \E v \in {"loading", "serving"} : state' = [state EXCEPT ![gen[c]] = v]
          /\ UNCHANGED served \/ served' = [served EXCEPT ![gen[c]] = None]
          /\ UNCHANGED seen
      BY ONLY <2>1, Zenon DEF ensure_ready
    <3>. QED
      BY ONLY <1>0, <3>1, Zenon DEF BeliefTypes
  <2>2. CASE served_model_fn(c)
    <3>1. serves \in Model \cup {None} /\ ModelOf[c] \in Model
      BY LlmAssumption, Zenon DEF SidecarTypes
    <3>2. /\ \E m \in {serves, ModelOf[c]} : seen' = [seen EXCEPT ![c] = m]
          /\ UNCHANGED <<state, served>>
      BY ONLY <2>2, Zenon DEF served_model_fn, backendVars
    <3>. QED
      BY ONLY <1>0, <3>1, <3>2 DEF BeliefTypes
  <2>3. CASE Commit(c)
    <3>1. /\ state' = [state EXCEPT ![gen[c]] = "serving"] /\ served' = [served EXCEPT ![gen[c]] = seen[c]]
          /\ seen' = [seen EXCEPT ![c] = None] /\ c \in Client
      BY <2>3, Zenon DEF Commit
    <3>. QED
      BY ONLY <1>0, <3>1, Zenon DEF BeliefTypes
  <2>4. CASE ensure_up_fn(c) \/ _await_health(c) \/ mark_request_start(c) \/ mark_request_end(c)
    BY ONLY <1>1, <2>4, Zenon DEF ensure_up_fn, _await_health, mark_request_start, mark_request_end, backendVars
  <2>. QED
    BY ONLY <1>3, <2>1, <2>2, <2>3, <2>4, Zenon DEF ClientStep
<1>4. ASSUME NEW c \in Client, get_backend(c)
      PROVE  BeliefTypes'
  BY ONLY <1>1, <1>2, <1>4, LookupWrites, Zenon
<1>5. ASSUME NEW b \in Gen, SupervisorStep(b) \/ IdleWindowPasses(b)
      PROVE  BeliefTypes'
  <2>1. CASE reap_idle_once(b) \/ Decide(b) \/ IdleWindowPasses(b)
    BY ONLY <1>1, <2>1, Zenon DEF reap_idle_once, Decide, IdleWindowPasses, backendVars, clientVars
  <2>2. CASE Reap(b)
    BY ONLY <1>1, <1>2, <2>2, StopWrites, Zenon DEF Reap
  <2>. QED
    BY ONLY <1>5, <2>1, <2>2, Zenon DEF SupervisorStep
<1>6. CASE \/ (\E s \in Config : set_llm_config(s)) \/ Boot \/ _handle_notify \/ TtlPasses \/ UNCHANGED vars
  BY ONLY <1>1, <1>6, Zenon DEF set_llm_config, Boot, _handle_notify, TtlPasses, vars, backendVars, clientVars
<1>7. CASE stop \/ Crash
  <2>1. /\ state' = [b \in Gen |-> "dead"] /\ served' = [b \in Gen |-> None]
        /\ seen' = [c \in Client |-> None]
    BY ONLY <1>7, Zenon DEF stop, Crash, Gone
  <2>. QED
    BY ONLY <2>1, Zenon DEF BeliefTypes
<1>. QED
  BY <1>3, <1>4, <1>5, <1>6, <1>7, Zenon DEF LlmNext

(* The two flags.                                                          *)
LEMMA FlagStep ==
  ASSUME FlagTypes, [LlmNext]_vars
  PROVE  FlagTypes'
<1>1. ASSUME UNCHANGED notified \/ notified' \in {TRUE, FALSE}, UNCHANGED fresh \/ fresh' \in {TRUE, FALSE}
      PROVE  FlagTypes'
  BY <1>1, Zenon DEF FlagTypes
<1>2. CASE \E c \in Client : ClientStep(c)
  BY ONLY <1>1, <1>2, Zenon DEF ClientStep, ensure_ready, ensure_up_fn, _await_health, served_model_fn, Commit,
    mark_request_start, mark_request_end, factoryVars
<1>3. CASE \E c \in Client : get_backend(c)
  BY ONLY <1>1, <1>3, LookupWrites, Zenon
<1>4. CASE \E b \in Gen : SupervisorStep(b) \/ IdleWindowPasses(b)
  BY ONLY <1>1, <1>4, Zenon DEF SupervisorStep, reap_idle_once, Decide, Reap, IdleWindowPasses, factoryVars
<1>5. CASE (\E s \in Config : set_llm_config(s)) \/ Boot \/ UNCHANGED vars
  BY ONLY <1>1, <1>5, Zenon DEF set_llm_config, Boot, vars, factoryVars
<1>6. CASE _handle_notify \/ TtlPasses \/ stop \/ Crash
  BY ONLY <1>1, <1>6, Zenon DEF _handle_notify, TtlPasses, stop, Crash, Gone
<1>. QED
  BY <1>2, <1>3, <1>4, <1>5, <1>6, Zenon DEF LlmNext

(* Type correctness, with the two bounds that LlmInv gives: a counter      *)
(* never exceeds the threads, and no more backends are built than edits    *)
(* account for.                                                            *)
THEOREM LlmTypeCorrect == LlmSpec => []LlmTypeOK
<1>1. LlmInit => ServerTypes
  <2> SUFFICES ASSUME LlmInit
               PROVE  ServerTypes
    OBVIOUS
  <2>1. SidecarTypes /\ FlagTypes
    BY Zenon DEF LlmInit, SidecarTypes, FlagTypes
  <2>2. BeliefTypes
    BY Zenon DEF LlmInit, BeliefTypes
  <2>. QED
    BY <2>1, <2>2, Zenon DEF ServerTypes
<1>2. ServerTypes /\ [LlmNext]_vars => ServerTypes'
  BY SidecarStep, BeliefStep, FlagStep, Zenon DEF ServerTypes
<1>3. LlmInv /\ ServerTypes => LlmTypeOK
  <2> SUFFICES ASSUME LlmInv, ServerTypes
               PROVE  LlmTypeOK
    OBVIOUS
  <2>1. /\ config \in Config /\ notified \in BOOLEAN /\ fresh \in BOOLEAN
        /\ state \in [Gen -> {"dead", "loading", "serving"}] /\ served \in [Gen -> Model \cup {None}]
        /\ sup \in [Gen -> {"none", "asleep", "running", "stop"}]
        /\ {serves, boots} \subseteq Model \cup {None} /\ (serves = None \/ boots = None)
    BY Zenon DEF LlmInv, ServerTypes, SidecarTypes, BeliefTypes, FlagTypes, FactoryInv, SupervisorInv
  <2>2. /\ entry = built /\ built \in Nat /\ told = 1..(built - 1) /\ edits \in 0..MaxEdits /\ built <= edits + 1
    BY Zenon DEF LlmInv, FactoryInv
  <2>3. Cardinality(Gen) = MaxEdits + 1
    <3>1. MaxEdits \in Nat /\ 1 \in Int /\ MaxEdits + 1 \in Int /\ ~ (1 > MaxEdits + 1)
      BY ONLY LlmAssumption
    <3>2. Cardinality(1..(MaxEdits + 1)) = (MaxEdits + 1) - 1 + 1
      BY ONLY <3>1, FS_Interval, Zenon
    <3>. QED
      BY ONLY <3>1, <3>2 DEF Gen
  <2>4. entry \in 0..built /\ built \in 0..Cardinality(Gen) /\ told \subseteq Gen
    BY ONLY <2>2, <2>3, LlmAssumption DEF Gen
  <2>5. ASSUME NEW b \in Gen
        PROVE  inflight[b] \in 0..Cardinality(Client)
    <3>1. inflight[b] = Cardinality(Posting(b))
      BY Zenon DEF LlmInv, BracketInv
    <3>2. Cardinality(Client) \in Nat
      BY LlmAssumption, FS_CardinalityType, Zenon
    <3>3. Cardinality(Posting(b)) \in Nat /\ Cardinality(Posting(b)) <= Cardinality(Client)
      BY PostingFinite, Zenon
    <3>. QED
      BY ONLY <3>1, <3>2, <3>3
  <2>6. /\ pc \in [Client -> {"idle", "ready", "up", "health", "probe", "commit", "mark", "post"}]
        /\ gen \in [Client -> Nat]
        /\ \A c \in Client : (pc[c] = "idle" => gen[c] = 0) /\ (pc[c] # "idle" => gen[c] <= built)
    BY Zenon DEF LlmInv, RequestInv, Place
  <2>7. gen \in [Client -> 0..built]
    BY ONLY <2>2, <2>6
  <2>. QED
    BY ONLY <2>1, <2>4, <2>5, <2>6, <2>7, Zenon DEF LlmTypeOK
<1>. QED
  BY <1>1, <1>2, <1>3, LlmInvariant, PTL DEF LlmSpec

=============================================================================
