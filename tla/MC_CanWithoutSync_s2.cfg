CONSTANTS
    NumMsgs = 10
    EagerTimeouts = FALSE

SPECIFICATION Spec

CHECK_DEADLOCK FALSE

INVARIANT S2Expected
