\* Three texts, one too long for the buffer and one without an id, and two pictures; a
\* ring of two ids; at most two faults.
\* A tick is a minute; the margins are 5 and 10 minutes scaled down.
SPECIFICATION FairSpec
CONSTANTS
    e1 = e1
    e3 = e3
    pic1 = pic1
    pic2 = pic2
    anon = anon
    NoEvent = NoEvent
    Events = {e1, e3, pic1, pic2, anon}
    Text = {e1, e3, anon}
    Long = {e3}
    Unnamed = {anon}
    DEDUP_SIZE = 2
    HTTP_TIMEOUT = 1
    MARGIN = 3
    PROACTIVE = 2
    Days <- MCDays
    WireLen = 1
    MaxPush = 2
INVARIANTS PushedOnce AckMeansHandled SentFresh
PROPERTIES TextHandled StopReturns
CHECK_DEADLOCK FALSE
