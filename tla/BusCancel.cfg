\* The CLI reader cancelled inside push.
CONSTANTS
    cli = cli
    cron = cron
    voice = voice
    agent = agent
    Producers <- McProducers
    Consumers <- McConsumers
    QUEUE_LEN = 1
    MaxMsgs = 2
    FreesOnFailure = {voice}
    Cancelable = {cli}
    NoMsg = NoMsg
    NoThread = NoThread
SPECIFICATION FairSpec
PROPERTY
    ShutdownCompletes
CHECK_DEADLOCK FALSE
