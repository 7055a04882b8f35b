SPECIFICATION FairSpec
CONSTANTS
    Goroutines <- TwoGoroutines
    MaxCalls = 2
PROPERTIES
    WakeOnDestroy
\* A stream ends: once its request is freed, nothing is left to do.
CHECK_DEADLOCK FALSE
