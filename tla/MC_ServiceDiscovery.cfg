\* Two participants; the CAN controller name and the two networks of
\* Test_Participant.cpp's duplicate-controller tests.
CONSTANTS
    P1 = P1
    P2 = P2
    Participant <- MCParticipant
    Network = {"CAN1", "CAN2"}
    CanName = {"CAN1"}
    MaxRemovals = 1
    CreatedKinds = {"SystemMonitor"}
SYMMETRY ParticipantSymmetry
SPECIFICATION Spec
\* A participant stops after creating its services.
CHECK_DEADLOCK FALSE
INVARIANTS
    TypeOK
    CreatedOnce
    NoSpuriousRemoval
    Converged
