----------------------------- MODULE MCGpuFleet -----------------------------
EXTENDS GpuFleet
CONSTANTS v1, v2, d1, sdxl

\* Only the first host has the memory for the model; it may start with the
\* larger PAR, so that the second one defers to it.
MCModelOf == [j \in ModelJob |-> sdxl]
MCFitsOf == [h \in Host |-> IF h = 1 THEN {sdxl} ELSE {}]
MCParAtStart == [h \in Host |-> IF h = 1 THEN Max(Par) ELSE 1]
=============================================================================
