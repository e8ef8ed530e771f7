CONSTANTS
  MaxJobs = 3
  IngestPriority = {5, 100}
  Worker = {w1}
  MaxFaults = 1
  NoWorker = NoWorker
  NoJob = NoJob
  HOURS = 2
  MINUTES = 2
  Entry = {1, 2, 3}
  MinuteOf <- MCMinuteOf
  HoursOf <- MCHoursOf
  Freshness = {2, 3}
  MaxClock = 5
SPECIFICATION SchedulerSpec
INVARIANTS NextFireIsTheNextInstant 
PROPERTIES SeamImplementsTheContract OneTickPerInstant EveryIngestJobEnds
CHECK_DEADLOCK FALSE
