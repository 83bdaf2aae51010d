\* Expected to fail: an answer that comes after the 30 s is spoken as the answer
\* to the next question.
SPECIFICATION Spec
CONSTANTS
    MaxTriggers = 2
    MaxCron = 0
    PcmCap = 2
    MinFrames = 2
INVARIANTS RightAnswer
