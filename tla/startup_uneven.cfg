SPECIFICATION Spec
CONSTANTS
    Chosen = {"startup"}
    other = other
    tui = tui
    Off = Off
    Param <- Uneven
CHECK_DEADLOCK FALSE
INVARIANT Decided
