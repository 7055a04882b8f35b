SPECIFICATION Spec
CONSTANTS
    Workers <- TwoWorkers
    Filters <- TwoFilters
    Routes <- TwoRoutes
    Streams <- Shared
    WithParser = TRUE
INVARIANTS
    HandlerGetsItsConfig
