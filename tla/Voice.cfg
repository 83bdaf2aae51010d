\* Two presses or the wake word (each two rounds), and a message nobody asked for:
\* answers late, lost or unasked for, the audio process dying and the program
\* stopping at any point.
SPECIFICATION FairSpec
CONSTANTS
    MaxTriggers = 2
    MaxCron = 1
    PcmCap = 2
    MinFrames = 2
INVARIANTS NeverSleepsOnWork NothingStaleSpoken
PROPERTIES PressInterrupts PressAnswered StopReturns
