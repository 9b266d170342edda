CONSTANTS
    NumMsgs = 10
    EagerTimeouts = TRUE

SPECIFICATION Spec

\* The test process ends once both threads are joined.
CHECK_DEADLOCK FALSE

INVARIANT TypeOK
INVARIANT NoException
PROPERTY TestTerminates
