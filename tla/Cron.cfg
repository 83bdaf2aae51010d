\* Three jobs of either kind in a table of two, a queue of one message, three
\* seconds of clock.
SPECIFICATION FairSpec
CONSTANTS
    MAX_JOBS = 2
    QUEUE_LEN = 1
    MaxId = 3
    MaxTime = 3
    Intervals <- SomeIntervals
    Epochs <- OneEpoch
INVARIANTS IdsNameJobs ScanMissesNothing
PROPERTIES NeverAfterRemoval ImplementsSchedule WaitsEnd OneShotEnds
