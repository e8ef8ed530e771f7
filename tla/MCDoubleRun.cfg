SPECIFICATION MCSpec
CONSTANTS
  n1 = n1
  ask = ask
  h1 = h1
  h2 = h2
  e1 = e1
  e2 = e2
  NoHost = NoHost
  Node <- OneNode
  Input <- NoNode
  Host <- TwoHosts
  Lane <- TwoLanes
  HostOf <- OnePerHost
  Pool <- NoLane
  Cap = 1
  MaxBlind = 0
  MaxRows = 1
INVARIANT OneRunnerPerRow
