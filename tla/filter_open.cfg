SPECIFICATION FairSpec
CONSTANTS
    MaxChunks = 2
    Limit = 1
    Answers <- NeverStop
    WithTrailers <- BothDirs
    EarlyResponse = TRUE
    LocalReplies = TRUE
    NestedReplies = TRUE
    EarlyResets = TRUE
INVARIANTS
    PassedOnIntact
    ReadingDisabledOnlyWhenFull
    WaitingReplyIsWoken
PROPERTIES
    ReadingResumes
\* A stream ends: once it is destroyed and its handlers are done, nothing is left to do.
CHECK_DEADLOCK FALSE
