CONSTANTS
  a = a
  b = b
  c = c
  w1 = w1
  w2 = w2
  q1 = q1
  q2 = q2
  Job = {a, b, c}
  Worker = {w1, w2}
  Queue = {q1, q2}
  QueueOf <- MCQueueOf
  PriorityOf <- MCPriorityOf
  Serves <- MCServes
  MaxFaults = 1
  NoWorker = NoWorker
  NoTask = NoTask
SPECIFICATION PoolSpec
INVARIANTS NoTaskIsLost CountersMatchRows OneRunOneEnd
PROPERTIES ScriptsFollowTheContract EverySubmitterIsAnswered
CHECK_DEADLOCK FALSE
