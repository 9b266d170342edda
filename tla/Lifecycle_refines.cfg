CONSTANTS
    EagerTimeouts = TRUE
    AppCalls = {"Pause", "Continue", "Stop"}
    MaxAppCalls = 2
    ThrowingHandlers = {"Stop", "Shutdown"}

SPECIFICATION Spec

\* The test ends once its body has run; nothing is left to do.
CHECK_DEADLOCK FALSE

PROPERTY LifecycleRefines
