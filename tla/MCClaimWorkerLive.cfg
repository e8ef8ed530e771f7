SPECIFICATION MCFairSpec
CONSTANTS
  n1 = n1
  ask = ask
  h1 = h1
  h2 = h2
  e1 = e1
  e2 = e2
  NoHost = NoHost
  Node <- TwoNodes
  Input <- InputNode
  Host <- TwoHosts
  Lane <- TwoLanes
  HostOf <- OnePerHost
  Pool <- NoLane
  Cap = 0
  MaxBlind = 0
  MaxRows = 2
INVARIANT HeldRowsWereClaimed
PROPERTIES DisplacedLaneStops StrandedRowIsRecovered NodeQueueSpec
