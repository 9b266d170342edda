CONSTANTS
    EagerTimeouts = TRUE
    AppCalls = {}
    MaxAppCalls = 0
    ThrowingHandlers = {}

SPECIFICATION Spec

\* The test ends once its body has run; nothing is left to do.
CHECK_DEADLOCK FALSE

INVARIANT TypeOK
INVARIANT ObservedIsS1Prefix
INVARIANT NoPromiseSetTwice
PROPERTY FinalStateShutdown
