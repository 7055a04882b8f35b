SPECIFICATION Spec
CONSTANTS
    Frame <- Frames
    String <- Strings
    Address = {a1, a2, a3}
    MaxShown = 3
    MaxLength = 3
    Word = 16
    Rules = {"TouchOldest", "ReadFirst", "ChangedIsPassed", "TrailersAlone", "OwnBuffer", "FitsWord"}
INVARIANT CounterIsReliable
PROPERTY DataIsKept
CHECK_DEADLOCK FALSE
SYMMETRY AnyAddress
