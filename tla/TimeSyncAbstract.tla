--------------------------- MODULE TimeSyncAbstract ---------------------------
(***************************************************************************)
(* What the time synchronisation service promises (spec 4.9), in its       *)
(* master-grant form: a central time master grants a participant its next  *)
(* step once no participant is behind it, and the participant's clock      *)
(* advances by one step when its simulation task has run.  Spec 4.9 states *)
(* that a distributed all-to-all barrier is observably equivalent to this  *)
(* model; a detailed specification shows it by implementing Spec.          *)
(***************************************************************************)
EXTENDS Naturals

CONSTANT Participant    \* the synchronized participants

VARIABLE now            \* now[p]: the steps p has completed (its clock)

Init == now = [p \in Participant |-> 0]

\* The master grants p the step at its clock once every participant has
\* reached that clock; p runs its task and advances.
Grant(p) ==
    /\ \A q \in Participant : now[q] >= now[p]
    /\ now' = [now EXCEPT ![p] = @ + 1]

Next == \E p \in Participant : Grant(p)

Spec == Init /\ [][Next]_now
====
