SPECIFICATION FairSpec
CONSTANTS
    MaxChunks = 2
    Limit = 3
    Answers <- AllAnswers
    WithTrailers <- NoDir
    EarlyResponse = FALSE
    LocalReplies = TRUE
    NestedReplies = FALSE
    EarlyResets = FALSE
INVARIANTS
    TypeOK
    GoSerialized
    AnswerFitsState
    NormalMeansIdle
    NoCrash
    PassedOnIntact
    ShownInOrder
    PassedAfterShown
    HeaderApiIsSafe
    WaitingReplyIsWoken
    StreamInv
PROPERTIES
    NoDecodeCallAfterEncode
    Delivered
\* A stream ends: once it is destroyed and its handlers are done, nothing is left to do.
CHECK_DEADLOCK FALSE
