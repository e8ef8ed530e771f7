CONSTANTS
  BUDGET = 5
  TIMEOUT = 3
  SAMPLES = 2
  INTERVAL = 4
  GRACE = 6
  MaxRam = 2
  RAM_DELTA = 1
  Longest = 8
  None = None
SPECIFICATION WatchdogSpec
INVARIANTS  BusyGpuIsSpared SteadyJobIsSpared
