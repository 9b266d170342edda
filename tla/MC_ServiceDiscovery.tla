------------------------- MODULE MC_ServiceDiscovery -------------------------
(* Two participants as model values; they are interchangeable, so the    *)
(* state space is reduced by their permutations.                         *)
EXTENDS ServiceDiscovery, TLC

CONSTANTS P1, P2

MCParticipant == {P1, P2}

ParticipantSymmetry == Permutations(MCParticipant)
====
