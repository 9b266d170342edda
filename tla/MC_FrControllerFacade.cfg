\* Two frames from the trivially simulating peer, so that one can be in
\* flight on each side of the switch; one from the simulator; two handlers,
\* so that one can be registered before and one after the switch; two
\* networks and two link kinds for IsRelevantNetwork.
CONSTANTS
    h1 = h1
    h2 = h2
    t1 = t1
    t2 = t2
    n1 = n1
    Handler <- MCHandler
    TFrame <- MCTFrame
    NFrame <- MCNFrame
    Net = "FR1"
    OtherNet = "FR2"
    MaxSends = 1
SPECIFICATION Spec
\* The peers and the user stop once their frames and sends are done.
CHECK_DEADLOCK FALSE
INVARIANTS
    TypeOK
    
PROPERTIES
    SimulatorFramesViaProxy
