---------------------------- MODULE MCWatchdogs ----------------------------
\* The watchdogs with windows of a few units, in the code's proportions: the
\* grace is the longest, then the budget and the interval, then the timeout.
EXTENDS Watchdogs
=============================================================================
