CONSTANTS
    Node <- MCNode
    TxBuffers <- MCTxBuffers
    WakeupChannel = "A"
    ReconfigureStep = 3
    InitBusState <- MCInitBusState
    StartupDelay <- DelayedStartupDelay
    MaxSteps = 5

SPECIFICATION Spec

INVARIANT NoUnconfiguredTxBuffer
