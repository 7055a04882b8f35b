SPECIFICATION FairSpec
CONSTANTS
    Goroutines <- TwoGoroutines
    MaxCalls = 3
INVARIANTS
    TypeOK
    FreedWhenUnused
    ReadsOwnValue
    FreedIsUnregistered
    SemaphoreIsBalanced
    CallProtocol
PROPERTIES
    LoneCallReturns
\* A stream ends: once its request is freed, nothing is left to do.
CHECK_DEADLOCK FALSE
