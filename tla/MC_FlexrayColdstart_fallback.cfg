CONSTANTS
    Node <- MCNode
    TxBuffers <- MCTxBuffers
    WakeupChannel = "A"
    ReconfigureStep = 3
    InitBusState <- MCInitBusState
    StartupDelay <- MCStartupDelay
    MaxSteps = 5

SPECIFICATION Spec

PROPERTY NormalActiveIsStable
