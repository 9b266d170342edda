CONSTANTS
    Node <- MCNode
    TxBuffers <- MCTxBuffers
    InitBusState <- SingleInitBusState
    StartupDelay <- SingleStartupDelay
    WakeupChannel = "A"
    ReconfigureStep = 3
    MaxSteps = 5

SPECIFICATION Spec

INVARIANT PocFollowsColdstartPath
PROPERTY WakeupEnds
PROPERTY ColdstartSettles
