CONSTANTS
  Host = {1, 2}
  v1 = v1
  v2 = v2
  d1 = d1
  sdxl = sdxl
  VlmJob = {v1}
  ModelJob = {}
  Model = {sdxl}
  ModelOf <- MCModelOf
  FitsOf <- MCFitsOf
  Par = {1, 2}
  ParAtStart <- MCParAtStart
  MaxOps = 1
  None = None
SPECIFICATION FleetSpec
PROPERTIES  OffParksTheWorker
CHECK_DEADLOCK FALSE
