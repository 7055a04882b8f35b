SPECIFICATION FairPluginSpec
CONSTANTS
    MaxChunks = 2
    Limit = 2
    Answers <- AllAnswers
    WithTrailers <- Dir
    EarlyResponse = FALSE
    LocalReplies = TRUE
    NestedReplies = FALSE
    EarlyResets = FALSE
    Plugins <- AllPlugins
INVARIANTS
    OnlySamplesDie
    MosnPassesOnHeadersOnly
    EchoedRequestStays
PROPERTIES
    PluginsAreHandlers
    AdapterHandsOverWhole
    PluginsDeliver
CHECK_DEADLOCK FALSE
