\* Two producers of three messages each, one that frees a refused message and one that
\* does not and is cancelled, one consumer, two slots.  A cancelled thread may keep
\* the mutex for ever, so the system can stop.
CONSTANTS
    cli = cli
    cron = cron
    voice = voice
    agent = agent
    Producers <- McPair
    Consumers <- McConsumers
    QUEUE_LEN = 2
    MaxMsgs = 3
    FreesOnFailure = {voice}
    Cancelable = {cli}
    NoMsg = NoMsg
    NoThread = NoThread
SPECIFICATION FairSpec
INVARIANTS OneOwner NoLostWakeup
PROPERTIES ImplementsFifo PushReturns Delivered ShutdownElseCompletes
CHECK_DEADLOCK FALSE
