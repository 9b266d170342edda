CONSTANTS
    EagerTimeouts = FALSE
    AppCalls = {"ReportError"}
    MaxAppCalls = 1
    ThrowingHandlers = {}

SPECIFICATION Spec

\* The test ends once its body has run; nothing is left to do.
CHECK_DEADLOCK FALSE

PROPERTY LifecycleRefines
