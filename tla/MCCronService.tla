---------------------------- MODULE MCCronService ----------------------------
(* CronService for TLC.                                                        *)
EXTENDS CronService

\* interval_s as the tool accepts it: it is not checked, so 0 is possible.
SomeIntervals == {0, 2}
OneEpoch == {2}
==============================================================================
