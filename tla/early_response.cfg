SPECIFICATION Spec
CONSTANTS
    MaxChunks = 2
    Limit = 3
    Answers <- AllAnswers
    WithTrailers <- NoDir
    EarlyResponse = TRUE
    LocalReplies = TRUE
    NestedReplies = FALSE
    EarlyResets = FALSE
INVARIANTS
    GoSerialized
\* A stream ends: once it is destroyed and its handlers are done, nothing is left to do.
CHECK_DEADLOCK FALSE
