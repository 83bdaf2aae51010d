\* Small buffers (the ring holds one chunk, the socket one message, an answer has
\* three chunks).  With the device gone both processes may stand still (AudioStuck):
\* no deadlock check.
SPECIFICATION FairSpec
CONSTANTS
    MaxChunks = 3
    RING = 2
    SockCap = 1
    Days <- TalkAndFaults
INVARIANTS SoundIntact HalfDuplex
PROPERTIES AckIsOwn PlayReturns
CHECK_DEADLOCK FALSE
