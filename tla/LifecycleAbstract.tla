--------------------------- MODULE LifecycleAbstract ---------------------------
(***************************************************************************)
(* What the lifecycle of one participant promises (spec 4.8 and property   *)
(* 8.3): its state moves only along the authorized edges of the lifecycle  *)
(* graph.  The state names are those of ParticipantState in the            *)
(* IntegrationBus sources (Idle, Initializing, Initialized for the spec's  *)
(* ServicesCreated, CommunicationInitializing, CommunicationInitialized);  *)
(* the integration test expects Running straight after Initialized.        *)
(* Reinitialization and AbortSimulation are left out.                      *)
(***************************************************************************)

VARIABLE state

LifecycleState ==
    {"Invalid", "Idle", "Initializing", "Initialized", "Running", "Paused",
     "Stopping", "Stopped", "ShuttingDown", "Shutdown", "Error"}

\* The authorized transitions; any state may go to Error.
Edge ==
    {<<"Invalid", "Idle">>, <<"Idle", "Initializing">>,
     <<"Initializing", "Initialized">>, <<"Initialized", "Running">>,
     <<"Running", "Paused">>, <<"Paused", "Running">>,
     <<"Running", "Stopping">>, <<"Stopping", "Stopped">>,
     <<"Stopped", "ShuttingDown">>, <<"ShuttingDown", "Shutdown">>}
    \cup {<<s, "Error">> : s \in LifecycleState \ {"Error"}}

Init == state = "Invalid"

Next == \E s \in LifecycleState : <<state, s>> \in Edge /\ state' = s

Spec == Init /\ [][Next]_state
====
