SPECIFICATION Spec
CONSTANTS
    Chosen = {"transfer", "chat", "attention", "experts", "sd", "flux", "speech", "codec",
             "luxtts", "weights", "cache", "startup", "kernels", "gpu"}
    other = other
    tui = tui
    Off = Off
    Param <- Small
CHECK_DEADLOCK FALSE
INVARIANT PartsTypeOK
INVARIANT CacheSound
INVARIANT ChatPlaced
INVARIANT Whole
INVARIANT CursorFits
INVARIANT Attended
INVARIANT Mixed
INVARIANT Rendered
INVARIANT OneAtATime
INVARIANT Conditioned
INVARIANT Seamless
 
INVARIANT Faithful
INVARIANT Healed
INVARIANT Started
INVARIANT Decided
INVARIANT Computed
INVARIANT Current
PROPERTY Delivered
PROPERTY SetupEnds
PROPERTY Answered
