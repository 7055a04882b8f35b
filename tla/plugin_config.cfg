SPECIFICATION Spec
CONSTANTS
    Workers <- TwoWorkers
    Filters <- OneFilter
    Routes <- TwoRoutes
    Streams <- Nested
    WithParser = TRUE
INVARIANTS
    TypeOK
    HandlerGetsItsConfig
    CreatedOncePerWorker
    IdsFit
