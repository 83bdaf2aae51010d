\* Every pair of failures, a signal at any time.  The program exits: no deadlock check.
SPECIFICATION FairSpec
CONSTANT MaxFaults = 2
INVARIANTS UsesLive NothingLeft
 
CHECK_DEADLOCK FALSE
