CONSTANTS
    Node <- MCNode
    TxBuffers <- MCTxBuffers
    InitBusState <- MCInitBusState
    StartupDelay <- MCStartupDelay
    WakeupChannel = "A"
    ReconfigureStep = 3
    MaxSteps = 5

SPECIFICATION Spec

INVARIANT TypeOK
INVARIANT NoUnconfiguredTxBuffer
PROPERTY TimeSyncRefines
