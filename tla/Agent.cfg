\* Three messages in two chats, a window of two lines, two rounds of tools, queues
\* of two messages; the process is killed at most twice.
SPECIFICATION FairSpec
CONSTANTS
    Chats = {c1, c2}
    MAX_HISTORY = 2
    MAX_TOOL_ITER = 2
    QUEUE_LEN = 2
    MaxMsgs = 3
    MaxCrashes = 2
INVARIANTS AskedOnce ContextAlternates AnswersFollow RepliesRecorded RepliesInOrder
PROPERTIES TurnEnds
CHECK_DEADLOCK FALSE
