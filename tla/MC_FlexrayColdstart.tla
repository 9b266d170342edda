------------------------- MODULE MC_FlexrayColdstart -------------------------
(* The FlexRay demo's two-node setup: Node0 and Node1 both start with       *)
(* busState PerformWakeup and startup delay 0, wakeup channel A, and three  *)
(* TX buffers on channels AB, A and B (FlexrayDemo.cpp main()).             *)
EXTENDS FlexrayColdstart

MCNode == {"Node0", "Node1"}
MCTxBuffers == [n \in MCNode |-> <<"AB", "A", "B">>]
MCInitBusState == [n \in MCNode |-> "PerformWakeup"]
MCStartupDelay == [n \in MCNode |-> 0]

(* A single waking node: Node1 keeps FlexrayNode's default busState Ignore  *)
(* and Node0 starts one step late (SetStartupDelay), so Node1 is configured *)
(* before the first WUS.                                                    *)
SingleInitBusState == [n \in MCNode |-> IF n = "Node0" THEN "PerformWakeup" ELSE "Ignore"]
SingleStartupDelay == [n \in MCNode |-> IF n = "Node0" THEN 1 ELSE 0]

(* The demo with Node1 given a startup delay of one step.                   *)
DelayedStartupDelay == [n \in MCNode |-> IF n = "Node1" THEN 1 ELSE 0]
=============================================================================
