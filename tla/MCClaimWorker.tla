--------------------------- MODULE MCClaimWorker ---------------------------
(* Two worker processes over one row, or over a node and an input node.     *)
(* MaxRows bounds the rows the environment inserts; an input row, which is  *)
(* only parked, counts twice.                                               *)
EXTENDS ClaimWorker, FiniteSetsExt, TLC

CONSTANTS n1, ask, h1, h2, e1, e2, MaxRows

OneNode == {n1}
NoNode == {}
TwoNodes == {n1, ask}
InputNode == {ask}
TwoHosts == {h1, h2}
TwoLanes == {e1, e2}
OnePerHost == e1 :> h1 @@ e2 :> h2
NoLane == {}

\* Exchanging the two processes exchanges the lanes with their hosts.
ProcessSymmetry == {e1 :> e2 @@ e2 :> e1 @@ h1 :> h2 @@ h2 :> h1}

\* The statements tell apart a running parent, a cancelled or failed one, and
\* the others: three run statuses stand for the five.
MCNext ==
  /\ Next
  /\ MapThenSumSet(LAMBDA n : IF n \in Input THEN 2 * rowId'[n] ELSE rowId'[n], Node)
       <= MaxRows
  /\ run' \in {"queued", "running", "cancelled"}

MCSpec == Init /\ [][MCNext]_vars
MCFairSpec == MCSpec /\ Fairness
=============================================================================
