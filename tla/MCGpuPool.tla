----------------------------- MODULE MCGpuPool ------------------------------
EXTENDS GpuPool
CONSTANTS a, b, c, w1, w2, q1, q2

MCQueueOf == [j \in {a, b, c} |-> IF j = c THEN q2 ELSE q1]
MCPriorityOf == [j \in {a, b, c} |-> IF j = b THEN 1 ELSE 0]
MCServes == [w \in {w1, w2} |-> IF w = w1 THEN <<q1>> ELSE <<q2, q1>>]
=============================================================================
