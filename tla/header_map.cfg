SPECIFICATION HeaderSpec
CONSTANTS
    MaxChunks = 0
    Limit = 1
    Answers <- Buffering
    WithTrailers <- Dir
    EarlyResponse = FALSE
    LocalReplies = TRUE
    NestedReplies = FALSE
    EarlyResets = FALSE
    Key = {"a", "b"}
    Value = {1, 2}
    Fields <- SameName
    Rules <- AllRules
    MaxOps = 3
INVARIANTS
    CopyFits
    HeaderApiIsSafe
PROPERTIES
    MapsAreStores
    PassedMapsStay
CHECK_DEADLOCK FALSE
