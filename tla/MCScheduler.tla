---------------------------- MODULE MCScheduler -----------------------------
\* Three entries: one on the hour, one a minute later, one at that minute of
\* every second hour only.
EXTENDS Scheduler

MCMinuteOf == [e \in 1..3 |-> IF e = 1 THEN 0 ELSE 1]
MCHoursOf == [e \in 1..3 |-> IF e = 3 THEN {1} ELSE {0, 1}]
=============================================================================
