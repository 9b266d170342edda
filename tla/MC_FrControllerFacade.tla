------------------------ MODULE MC_FrControllerFacade ------------------------
(* Two handlers, two frames of T and one of N, one send of the user.      *)
EXTENDS FrControllerFacade

CONSTANTS h1, h2, t1, t2, n1

MCHandler == {h1, h2}
MCTFrame == {t1, t2}
MCNFrame == {n1}
====
