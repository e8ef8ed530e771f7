----------------------------- MODULE LlmServer -----------------------------
(***************************************************************************)
(* One machine's LLM server, as the worker's threads share it: the factory *)
(* that caches a backend per configuration (llm_backends/factory.py), the  *)
(* request bracket of base.py, the vLLM state machine of vllm.py, and the  *)
(* supervisor thread that stops an idle sidecar (supervisor.py).           *)
(*                                                                         *)
(* Every rebuild makes a backend of its own, numbered here; all of them    *)
(* speak to the same sidecar.  The sidecar, its start and stop hooks       *)
(* (config.py: vllm_start_fn, vllm_stop_fn) and the node that brackets its *)
(* POST are the host's, taken from how the backends use them.              *)
(***************************************************************************)
EXTENDS Integers, FiniteSets

CONSTANTS
  Client,     \* threads of the worker that send LLM requests
  Model, ModelOf,   \* the model each of them asks for
  Config,     \* the snapshots an operator may configure
  Vllm,       \* those with server_type vllm; the others are ollama
  Reaped,     \* those of Vllm with a positive vllm_idle_ttl_s
  MaxEdits,   \* bound on the operator's edits and restarts
  MaxFaults,  \* bound on crashes and failing stop hooks
  None

ASSUME LlmAssumption ==
  /\ IsFiniteSet(Client) /\ ModelOf \in [Client -> Model]
  /\ Vllm \subseteq Config /\ Reaped \subseteq Vllm
  /\ MaxEdits \in Nat /\ MaxFaults \in Nat /\ None \notin Model

Gen == 1..(MaxEdits + 1)     \* a rebuild needs an edit

VARIABLES
  config, notified,      \* the worker_controls row; a NOTIFY on its way
  entry, fresh,          \* the factory's slot: its backend (0: none); within the
                         \* TTL of its last check and not invalid
  built, snapshot,       \* how many backends were built, and for what
  state, served,         \* VLLMBackend._state, _served_model
  inflight, quiet,       \* LLMBackend._inflight; the idle window has passed
  sup, told,             \* where each supervisor is; those with _stop set
  serves, boots,         \* the sidecar: the model it serves or starts with
  pc, gen, seen,         \* each client: its place, backend, probe
  cut,                   \* clients whose POST has no server to answer it
  edited,                \* history: the row has differed from the request's backend
  edits, faults

factoryVars == <<entry, fresh, built, snapshot>>
backendVars == <<state, served, inflight, quiet>>
supVars == <<sup, told>>
sidecar == <<serves, boots>>
clientVars == <<pc, gen, seen, cut, edited>>
vars == <<config, notified, factoryVars, backendVars, supVars, sidecar, clientVars, edits, faults>>

LlmInit ==
  /\ config \in Config /\ notified = FALSE
  /\ entry = 0 /\ fresh = FALSE /\ built = 0
  /\ snapshot = [b \in Gen |-> None]
  /\ state = [b \in Gen |-> "dead"] /\ served = [b \in Gen |-> None]
  /\ inflight = [b \in Gen |-> 0] /\ quiet = [b \in Gen |-> FALSE]
  /\ sup = [b \in Gen |-> "none"] /\ told = {}
  /\ serves = None /\ boots = None
  /\ pc = [c \in Client |-> "idle"] /\ gen = [c \in Client |-> 0]
  /\ seen = [c \in Client |-> None]
  /\ cut = {}
  /\ edited = [c \in Client |-> FALSE]
  /\ edits = 0 /\ faults = 0

Fault == faults < MaxFaults /\ faults' = faults + 1
Op == edits < MaxEdits /\ edits' = edits + 1
IsVllm(b) == snapshot[b] \in Vllm
-----------------------------------------------------------------------------
\* The sidecar.

is_running == serves # None

\* A POST that was being answered is answered no more.
Down == /\ serves' = None /\ boots' = None
        /\ cut' = cut \cup {c \in Client : pc[c] = "post" /\ IsVllm(gen[c])}

\* kill_fn: the hook stops the sidecar, or fails to.
kill_fn == \/ Down /\ UNCHANGED faults
           \/ Fault /\ UNCHANGED <<sidecar, cut>>

\* The state is reset whatever the hook said.
_do_stop_locked(b) ==
  /\ kill_fn
  /\ state' = [state EXCEPT ![b] = "dead"] /\ served' = [served EXCEPT ![b] = None]

StopOnlyWhatIWarmed(b) ==
  IF IsVllm(b) /\ state[b] # "dead"
    THEN _do_stop_locked(b)
    ELSE UNCHANGED <<state, served, sidecar, cut, faults>>

stop_server(b) ==
  IF IsVllm(b) /\ (state[b] # "dead" \/ is_running)
    THEN _do_stop_locked(b)
    ELSE UNCHANGED <<state, served, sidecar, cut, faults>>

Boot ==
  /\ boots # None
  /\ serves' = boots /\ boots' = None
  /\ UNCHANGED <<config, notified, factoryVars, backendVars, supVars, clientVars, edits, faults>>
-----------------------------------------------------------------------------
\* The factory.

Arm(b, s) ==
  /\ snapshot' = [snapshot EXCEPT ![b] = s]
  /\ sup' = [sup EXCEPT ![b] = IF s \in Reaped THEN "asleep" ELSE "none"]

\* Tell the supervisor (the bounded join may end before it does), shut the
\* backend down, build the next one: all under the factory's lock.
Rebuild ==
  /\ built' = built + 1 /\ entry' = built + 1
  /\ Arm(built + 1, config)
  /\ IF entry = 0
       THEN UNCHANGED <<told, state, served, sidecar, cut, faults>>
       ELSE told' = told \cup {entry} /\ stop_server(entry)

LookupKeepingEntry ==
  /\ fresh' = TRUE
  /\ IF entry # 0
       THEN UNCHANGED <<entry, built, snapshot, supVars, state, served, sidecar, cut, faults>>
       ELSE Rebuild

\* Within the TTL and not invalidated: no read.  Otherwise read the row, keep the
\* backend if it was built for it, or rebuild.
Lookup ==
  \/ /\ entry # 0 /\ fresh
     /\ UNCHANGED <<factoryVars, supVars, state, served, sidecar, cut, faults>>
  \/ /\ entry = 0 \/ ~fresh
     /\ fresh' = TRUE
     /\ IF entry # 0 /\ snapshot[entry] = config
          THEN UNCHANGED <<entry, built, snapshot, supVars, state, served, sidecar, cut, faults>>
          ELSE Rebuild

get_backend(c) ==
  /\ pc[c] = "idle"
  /\ Lookup
  /\ pc' = [pc EXCEPT ![c] = "ready"] /\ gen' = [gen EXCEPT ![c] = entry']
  /\ edited' = [edited EXCEPT ![c] = config # snapshot'[entry']]
  /\ UNCHANGED <<config, notified, inflight, quiet, seen, edits>>

\* The listener may be disconnected: nothing makes this happen.
_handle_notify ==
  /\ notified /\ notified' = FALSE
  /\ fresh' = FALSE
  /\ UNCHANGED <<config, entry, built, snapshot, backendVars, supVars, sidecar,
                 clientVars, edits, faults>>

TtlPasses ==
  /\ entry # 0 /\ fresh /\ fresh' = FALSE
  /\ UNCHANGED <<config, notified, entry, built, snapshot, backendVars, supVars,
                 sidecar, clientVars, edits, faults>>

\* The operator edits the row; its trigger notifies.
set_llm_config(s) ==
  /\ s # config /\ Op
  /\ config' = s /\ notified' = TRUE
  /\ edited' = [c \in Client |-> edited[c] \/ pc[c] # "idle"]
  /\ UNCHANGED <<factoryVars, backendVars, supVars, sidecar, pc, gen, seen, cut,
                 faults>>

\* The process is gone with its threads and objects.
Gone ==
  /\ entry' = 0 /\ fresh' = FALSE /\ notified' = FALSE
  /\ built' = 0 /\ snapshot' = [b \in Gen |-> None]
  /\ state' = [b \in Gen |-> "dead"] /\ served' = [b \in Gen |-> None]
  /\ inflight' = [b \in Gen |-> 0] /\ quiet' = [b \in Gen |-> FALSE]
  /\ sup' = [b \in Gen |-> "none"] /\ told' = {}
  /\ pc' = [c \in Client |-> "idle"] /\ gen' = [c \in Client |-> 0]
  /\ seen' = [c \in Client |-> None]
  /\ cut' = {} /\ edited' = [c \in Client |-> FALSE]
  /\ UNCHANGED config

\* The worker's teardown, its lanes at rest: release the backend, then exit.
stop ==
  /\ entry # 0 /\ \A c \in Client : pc[c] = "idle"
  /\ Gone /\ Op
  /\ IF IsVllm(entry) /\ (state[entry] # "dead" \/ is_running)
       THEN serves' = None /\ boots' = None
       ELSE UNCHANGED sidecar
  /\ UNCHANGED faults

\* A crash or a watchdog's exit releases nothing: the sidecar stays up.
Crash == entry # 0 /\ Gone /\ Fault /\ UNCHANGED <<sidecar, edits>>
-----------------------------------------------------------------------------
\* A request: get_backend, ensure_ready, the bracket around the POST.

Goto(c, place) == pc' = [pc EXCEPT ![c] = place] /\ UNCHANGED <<gen, edited>>
Return(c) ==
  /\ pc' = [pc EXCEPT ![c] = "idle"] /\ gen' = [gen EXCEPT ![c] = 0]
  /\ edited' = [edited EXCEPT ![c] = FALSE]

\* Under the backend's lock: a warm hit, or stop what serves another model, and
\* in any case but the first go on to the start hook without the lock.
ensure_ready(c) ==
  LET b == gen[c]
  IN  /\ pc[c] = "ready"
      /\ \/ /\ ~IsVllm(b)
            /\ Goto(c, "mark") /\ UNCHANGED <<state, served, sidecar, cut, faults>>
         \/ /\ IsVllm(b) /\ is_running /\ served[b] = ModelOf[c]
            /\ Goto(c, "mark") /\ state' = [state EXCEPT ![b] = "serving"]
            /\ UNCHANGED <<served, sidecar, cut, faults>>
         \/ /\ IsVllm(b) /\ is_running /\ served[b] # ModelOf[c]
            /\ Goto(c, "up") /\ kill_fn
            /\ state' = [state EXCEPT ![b] = "loading"] /\ served' = [served EXCEPT ![b] = None]
         \/ /\ IsVllm(b) /\ ~is_running
            /\ Goto(c, "up") /\ state' = [state EXCEPT ![b] = "loading"]
            /\ UNCHANGED <<served, sidecar, cut, faults>>
      /\ UNCHANGED <<config, notified, factoryVars, inflight, quiet, supVars, seen,
                     edits>>

\* The start hook: starts the sidecar with the model; one that is up or starting
\* is restarted or, for all the backend knows, left as it is.
ensure_up_fn(c) ==
  /\ pc[c] = "up" /\ Goto(c, "health")
  /\ \/ /\ serves' = None /\ boots' = ModelOf[c]
        /\ cut' = cut \cup {d \in Client : pc[d] = "post" /\ IsVllm(gen[d])}
     \/ /\ serves # None \/ boots # None
        /\ UNCHANGED <<sidecar, cut>>
  /\ UNCHANGED <<config, notified, factoryVars, backendVars, supVars, seen, edits, faults>>

\* Poll until the server is up, or raise TimeoutError.
_await_health(c) ==
  /\ pc[c] = "health"
  /\ IF is_running THEN Goto(c, "probe") ELSE Return(c)
  /\ UNCHANGED <<config, notified, factoryVars, backendVars, supVars, sidecar, seen, cut,
                 edits, faults>>

\* /v1/models, without the lock; nothing served counts as what was asked for.
served_model_fn(c) ==
  /\ pc[c] = "probe" /\ Goto(c, "commit")
  /\ seen' = [seen EXCEPT ![c] = IF is_running THEN serves ELSE ModelOf[c]]
  /\ UNCHANGED <<config, notified, factoryVars, backendVars, supVars, sidecar, cut, edits, faults>>

\* Store what was seen, and raise if it is another model.
Commit(c) ==
  /\ pc[c] = "commit"
  /\ served' = [served EXCEPT ![gen[c]] = seen[c]]
  /\ state' = [state EXCEPT ![gen[c]] = "serving"]
  /\ IF seen[c] = ModelOf[c] THEN Goto(c, "mark") ELSE Return(c)
  /\ seen' = [seen EXCEPT ![c] = None]
  /\ UNCHANGED <<config, notified, factoryVars, inflight, quiet, supVars, sidecar, cut,
                 edits, faults>>

mark_request_start(c) ==
  LET b == gen[c]
  IN  /\ pc[c] = "mark" /\ Goto(c, "post")
      /\ inflight' = [inflight EXCEPT ![b] = @ + 1] /\ quiet' = [quiet EXCEPT ![b] = FALSE]
      /\ cut' = IF IsVllm(b) /\ ~is_running THEN cut \cup {c} ELSE cut
      /\ UNCHANGED <<config, notified, factoryVars, state, served, supVars, sidecar, seen,
                     edits, faults>>

EndClearsInflight(c) ==
  LET b == gen[c]
  IN  /\ pc[c] = "post" /\ Return(c)
      /\ inflight' = [inflight EXCEPT ![b] = 0] /\ quiet' = [quiet EXCEPT ![b] = FALSE]
      /\ cut' = cut \ {c}
      /\ UNCHANGED <<config, notified, factoryVars, state, served, supVars, sidecar, seen,
                     edits, faults>>

\* In a finally: whether the POST was answered or cut.
mark_request_end(c) ==
  LET b == gen[c]
  IN  /\ pc[c] = "post" /\ Return(c)
      /\ inflight' = [inflight EXCEPT ![b] = IF @ > 0 THEN @ - 1 ELSE 0]
      /\ quiet' = [quiet EXCEPT ![b] = FALSE]
      /\ cut' = cut \ {c}
      /\ UNCHANGED <<config, notified, factoryVars, state, served, supVars, sidecar, seen,
                     edits, faults>>
-----------------------------------------------------------------------------
\* The supervisor of backend b.

\* The loop looks at _stop before it sleeps, not after.
Loop(b) == sup' = [sup EXCEPT ![b] = IF b \in told THEN "none" ELSE "asleep"]

reap_idle_once(b) ==
  /\ sup[b] = "asleep"
  /\ IF is_running THEN sup' = [sup EXCEPT ![b] = "running"] ELSE Loop(b)
  /\ UNCHANGED <<config, notified, factoryVars, backendVars, told, sidecar, clientVars, edits, faults>>

vllm_should_stop(b) == inflight[b] = 0 /\ quiet[b]

Decide(b) ==
  /\ sup[b] = "running"
  /\ IF vllm_should_stop(b) THEN sup' = [sup EXCEPT ![b] = "stop"] ELSE Loop(b)
  /\ UNCHANGED <<config, notified, factoryVars, backendVars, told, sidecar, clientVars, edits, faults>>

Reap(b) ==
  /\ sup[b] = "stop" /\ stop_server(b) /\ Loop(b)
  /\ UNCHANGED <<config, notified, factoryVars, inflight, quiet, told, pc, gen, seen,
                 edited, edits>>

IdleWindowPasses(b) ==
  /\ sup[b] # "none" /\ inflight[b] = 0 /\ ~quiet[b]
  /\ quiet' = [quiet EXCEPT ![b] = TRUE]
  /\ UNCHANGED <<config, notified, factoryVars, state, served, inflight, supVars, sidecar,
                 clientVars, edits, faults>>

ClientStep(c) ==
  \/ ensure_ready(c) \/ ensure_up_fn(c) \/ _await_health(c) \/ served_model_fn(c)
  \/ Commit(c) \/ mark_request_start(c) \/ mark_request_end(c)
SupervisorStep(b) == reap_idle_once(b) \/ Decide(b) \/ Reap(b)

LlmNext ==
  \/ \E c \in Client : get_backend(c)
  \/ \E c \in Client : ClientStep(c)
  \/ \E b \in Gen : SupervisorStep(b) \/ IdleWindowPasses(b)
  \/ \E s \in Config : set_llm_config(s)
  \/ Boot \/ _handle_notify \/ TtlPasses \/ stop \/ Crash

\* The supervisors keep running and time passes.  Nothing makes a client send a
\* request or end it.
LlmFairness ==
  /\ \A b \in Gen : WF_vars(SupervisorStep(b)) /\ WF_vars(IdleWindowPasses(b))
  /\ WF_vars(TtlPasses)

LlmSpec == LlmInit /\ [][LlmNext]_vars /\ LlmFairness
-----------------------------------------------------------------------------
\* Type correctness: the factory's entry, the backends and the sidecar.
LlmTypeOK ==
  /\ config \in Config /\ notified \in BOOLEAN
  /\ entry \in 0..built /\ built \in 0..Cardinality(Gen)
  /\ fresh \in BOOLEAN
  /\ state \in [Gen -> {"dead", "loading", "serving"}]
  /\ served \in [Gen -> Model \cup {None}]
  /\ \A b \in Gen : inflight[b] \in 0..Cardinality(Client)
  /\ sup \in [Gen -> {"none", "asleep", "running", "stop"}] /\ told \subseteq Gen
  /\ {serves, boots} \subseteq Model \cup {None} /\ (serves = None \/ boots = None)
  /\ pc \in [Client -> {"idle", "ready", "up", "health", "probe", "commit", "mark", "post"}]
  /\ gen \in [Client -> 0..built]

\* The idle window is one of the server, not of a backend object: as long as the
\* operator edits nothing, re-reading the configuration keeps the counters, and
\* no supervisor in office decides to stop a server that is answering a request.
IdleStopSparesRequests ==
  [][\A b \in Gen \ told :
       sup[b] = "running" /\ sup'[b] = "stop" =>
         \A c \in Client : pc[c] = "post" /\ snapshot[gen[c]] \in Vllm => c \in cut \/ edited[c]]_vars

\* VRAM comes back: a sidecar that no thread uses is stopped, whatever path
\* brought it up, while a backend with an idle window is in the cache.
IdleServerIsStopped ==
  (serves # None /\ entry # 0 /\ snapshot[IF entry = 0 THEN 1 ELSE entry] \in Reaped)
    ~> \/ serves = None \/ entry = 0
       \/ snapshot[IF entry = 0 THEN 1 ELSE entry] \notin Reaped
       \/ \E c \in Client : pc[c] # "idle"

\* If requests keep coming, an edit takes effect, also when its NOTIFY is lost.
ConfigTakesEffect ==
  []<><<\E c \in Client : get_backend(c)>>_vars =>
    \A s \in Config : config = s ~> (config # s \/ (entry # 0 /\ snapshot[entry] = s))
=============================================================================
