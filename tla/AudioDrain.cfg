\* Expected to fail: the playback thread ends with chunks left in the ring.
SPECIFICATION Spec
CONSTANTS
    MaxChunks = 2
    RING = 3
    SockCap = 2
    Days <- OnePrompt
PROPERTIES DrainEmptiesRing
