\* Expected to fail: with the device gone, PLAY_FLUSH waits behind the writer it
\* is to free (both processes then stand still: no deadlock check).
SPECIFICATION FairSpec
CONSTANTS
    MaxChunks = 3
    RING = 2
    SockCap = 2
    Days <- DeviceAndLate
PROPERTIES FlushUnblocks
CHECK_DEADLOCK FALSE
