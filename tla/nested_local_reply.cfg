SPECIFICATION Spec
CONSTANTS
    MaxChunks = 2
    Limit = 3
    Answers <- AllAnswers
    WithTrailers <- NoDir
    EarlyResponse = FALSE
    LocalReplies = TRUE
    NestedReplies = TRUE
    EarlyResets = FALSE
INVARIANTS
    NormalMeansIdle
\* A stream ends: once it is destroyed and its handlers are done, nothing is left to do.
CHECK_DEADLOCK FALSE
