---------------------------- MODULE MCDispatcher ----------------------------
(* Small workflows: an input node after a skipped one and before what      *)
(* depends on it, or a chain of an input node, a node and a broken one.    *)
(* Bounded: lapsing leases, mishaps; workers do not re-queue.              *)
EXTENDS Dispatcher, FiniteSetsExt, TLC

CONSTANTS a, b, c, ask, h1, MaxRows, MaxMishaps, MayCancel

ChainNodes == {a, b}
Chain == a :> {} @@ b :> {a}
JustC == {c}
JustAsk == {ask}
AskThenNodes == {ask, b, c}
AskThen == ask :> {} @@ b :> {ask} @@ c :> {b}
SkipNodes == {a, ask, b}
SkipThenAsk == a :> {} @@ ask :> {a} @@ b :> {ask}
JustA == {a}
Nothing == {}
OneHost == {h1}

\* Leases stop lapsing once MaxRows rows were inserted: a reclaim while the run
\* is queued makes reconcile_run insert the row again.  A run that is cancelled
\* meets no mishap.
MCBound ==
  /\ mishaps' <= MaxMishaps
  /\ cancelled' => MayCancel /\ mishaps' = 0
  /\ \A n \in Node : retries'[n] = 0
  /\ (\E n \in Node : lease'[n] = "lapsed" /\ lease[n] # "lapsed")
       => MapThenSumSet(LAMBDA n : rowId[n], Node) < MaxRows
MCNext == DispatcherNext /\ MCBound
MCSpec == DispatcherInit /\ [][MCNext]_dispatcherVars

\* For liveness, no worker parks a row that is parked or finished already.
MCLiveNext == MCNext /\ (outbox' \subseteq outbox \/ status' # status)
MCFairSpec == DispatcherInit /\ [][MCLiveNext]_dispatcherVars /\ DispatcherFairness
=============================================================================
