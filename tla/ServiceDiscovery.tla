---------------------------- MODULE ServiceDiscovery ----------------------------
(***************************************************************************)
(* Service creation on a participant and its discovery by the others.      *)
(*                                                                         *)
(* A participant creates services: at most one system monitor, system      *)
(* controller and lifecycle service, and CAN controllers unique per        *)
(* (name, network) (SilKit/source/core/participant/Test_Participant.cpp).  *)
(* Each creation calls ServiceDiscovery::NotifyServiceCreated, which       *)
(* rebuilds the participant's announcement, the full list of its services, *)
(* and sends it to every peer                                              *)
(* (IntegrationBus/source/mw/service/ServiceDiscovery.hpp, spec 4.5).  A   *)
(* receiver keeps, per originator, the previous announcement               *)
(* (_announcedServices), diffs the new one against it and fires            *)
(* ServiceCreated / ServiceRemoved.  NotifyServiceRemoved retracts one     *)
(* service and rebroadcasts the announcement without it (the header's      *)
(* "Publish a participant-local service removal to all other               *)
(* participants").  A participant that leaves tears its                    *)
(* links down; its peers then remove all its services (spec 4.4, 4.5).     *)
(***************************************************************************)
EXTENDS Integers, Sequences, FiniteSets, Functions

CONSTANTS
    Participant,    \* participant names
    Network,        \* network names
    CanName,        \* CAN controller names
    MaxRemovals,    \* bound on the NotifyServiceRemoved calls of each participant
    CreatedKinds    \* the singleton kinds the participants create

SingletonKind == {"SystemMonitor", "SystemController", "LifecycleService"}

ASSUME CreatedKinds \subseteq SingletonKind

\* ServiceDescription, without the participant (the originator of the
\* announcement) and the endpoint id.
Desc == [kind : SingletonKind, name : {""}, net : {""}]
        \cup [kind : {"CanController"}, name : CanName, net : Network]

Msg == [type : {"announce"}, services : SUBSET Desc] \cup [type : {"departed"}]

\* The services the participants create: CAN controllers and the chosen
\* singletons, which Test_Participant.cpp treats alike.
Creatable == {d \in Desc : d.kind \in CreatedKinds \cup {"CanController"}}

Link == {l \in Participant \X Participant : l[1] # l[2]}

VARIABLES
    alive,      \* the participant exists and is connected
    services,   \* services[p]: the services created on p (_announcement)
    link,       \* link[<<p, q>>]: announcements from p to q in flight (FIFO)
    cache,      \* cache[q][p]: q's _announcedServices entry for p
    created,    \* created[q][p][d]: ServiceCreated events fired at q
    removed,    \* removed[q][p][d]: ServiceRemoved events fired at q
    retracted   \* retracted[p][d]: p's NotifyServiceRemoved calls for d (history)

vars == <<alive, services, link, cache, created, removed, retracted>>

-----------------------------------------------------------------------------
Init ==
    /\ alive = [p \in Participant |-> TRUE]
    /\ services = [p \in Participant |-> {}]
    /\ link = [l \in Link |-> <<>>]
    /\ cache = [q \in Participant |-> [p \in Participant |-> {}]]
    /\ created = [q \in Participant |-> [p \in Participant |-> [d \in Desc |-> 0]]]
    /\ removed = [q \in Participant |-> [p \in Participant |-> [d \in Desc |-> 0]]]
    /\ retracted = [p \in Participant |-> [d \in Desc |-> 0]]

\* Creating d fails (and changes nothing) when p already has a service of
\* the same identity: a second system monitor, system controller or
\* lifecycle service throws std::runtime_error, a second CAN controller
\* with the same name on the same network throws ConfigurationError.
CreateFails(p, d) == \E s \in services[p] : s.kind = d.kind /\ s.name = d.name /\ s.net = d.net

\* Mutant: the announcement carries only the new service.
AnnouncementDelta(p, d) == {d}

\* NotifyServiceCreated: the announcement is rebuilt from all of p's services.
Announcement(p, d) == services[p] \cup {d}

\* p sends its announcement `svcs` to every connected peer.
Broadcast(p, svcs) ==
    link' = [l \in Link |->
               IF l[1] = p /\ alive[l[2]]
               THEN Append(link[l], [type |-> "announce", services |-> svcs])
               ELSE link[l]]

\* Create a service on p and announce it to every connected peer.
CreateService(p, d) ==
    /\ alive[p]
    /\ ~CreateFails(p, d)
    /\ services' = [services EXCEPT ![p] = @ \cup {d}]
    /\ Broadcast(p, Announcement(p, d))
    /\ UNCHANGED <<alive, cache, created, removed, retracted>>

\* NotifyServiceRemoved: p retracts one of its services; the announcement
\* without it goes to every connected peer.
RemoveService(p, d) ==
    /\ alive[p]
    /\ d \in services[p]
    /\ FoldFunction(+, 0, retracted[p]) < MaxRemovals
    /\ services' = [services EXCEPT ![p] = @ \ {d}]
    /\ retracted' = [retracted EXCEPT ![p][d] = @ + 1]
    /\ Broadcast(p, services[p] \ {d})
    /\ UNCHANGED <<alive, cache, created, removed>>

\* Mutant: p's record is replaced by the new events only.
FireOnly(events, q, p, S) ==
    [events EXCEPT ![q][p] = [d \in S |-> @[d] + 1]]

\* Fire one event per descriptor of S at q for originator p.
Fire(events, q, p, S) ==
    [events EXCEPT ![q][p] = [d \in Desc |-> IF d \in S THEN @[d] + 1 ELSE @[d]]]

\* Mutant: the previous announcement is not looked up.
PreviousNone(q, p) == {}

\* The previous announcement of p that q keeps.
Previous(q, p) == cache[q][p]

\* ReceiveIbMessage(ServiceAnnouncement) on q's I/O thread: diff against the
\* previous announcement, fire the handlers, keep the new one.
ReceiveAnnouncement(q, p) ==
    /\ alive[q]
    /\ link[<<p, q>>] # <<>>
    /\ Head(link[<<p, q>>]).type = "announce"
    /\ LET new == Head(link[<<p, q>>]).services
           old == Previous(q, p)
       IN /\ created' = Fire(created, q, p, new \ old)
          /\ removed' = Fire(removed, q, p, old \ new)
          /\ cache' = [cache EXCEPT ![q][p] = new]
    /\ link' = [link EXCEPT ![<<p, q>>] = Tail(@)]
    /\ UNCHANGED <<alive, services, retracted>>

\* p leaves: its links are torn down, in-flight announcements are lost, and
\* each peer is left a departure event.
Depart(p) ==
    /\ alive[p]
    /\ alive' = [alive EXCEPT ![p] = FALSE]
    /\ link' = [l \in Link |->
                  CASE l[1] = p -> IF alive[l[2]] THEN <<[type |-> "departed"]>> ELSE <<>>
                    [] l[2] = p -> <<>>
                    [] OTHER    -> link[l]]
    /\ UNCHANGED <<services, cache, created, removed, retracted>>

\* Mutant: the departed participant's entry is kept.
ForgetKeep(q, p) == cache

\* The departed participant's entry is dropped from _announcedServices.
Forget(q, p) == [cache EXCEPT ![q][p] = {}]

\* The peer-departure event on q: every service of p is removed.
ReceiveDeparture(q, p) ==
    /\ alive[q]
    /\ link[<<p, q>>] # <<>>
    /\ Head(link[<<p, q>>]).type = "departed"
    /\ removed' = Fire(removed, q, p, cache[q][p])
    /\ cache' = Forget(q, p)
    /\ link' = [link EXCEPT ![<<p, q>>] = Tail(@)]
    /\ UNCHANGED <<alive, services, created, retracted>>

Next ==
    \/ \E p \in Participant, d \in Creatable : CreateService(p, d) \/ RemoveService(p, d)
    \/ \E q, p \in Participant : q # p /\ ReceiveAnnouncement(q, p)
    \/ \E q, p \in Participant : q # p /\ ReceiveDeparture(q, p)
    \/ \E p \in Participant : Depart(p)

Spec == Init /\ [][Next]_vars

-----------------------------------------------------------------------------
TypeOK ==
    /\ alive \in [Participant -> BOOLEAN]
    /\ services \in [Participant -> SUBSET Desc]
    /\ link \in [Link -> Seq(Msg)]
    /\ cache \in [Participant -> [Participant -> SUBSET Desc]]
    /\ created \in [Participant -> [Participant -> [Desc -> Nat]]]
    /\ removed \in [Participant -> [Participant -> [Desc -> Nat]]]
    /\ retracted \in [Participant -> [Desc -> 0..MaxRemovals]]

\* Spec S4: a peer's handlers see a service created once per creation.
\* Every creation and removal rebroadcasts the whole announcement, so each
\* service reaches a peer again and again; the diff against the cached
\* announcement must turn every repetition into no event, so that at each
\* peer ServiceCreated and ServiceRemoved of a service alternate, starting
\* with ServiceCreated.
CreatedOnce ==
    \A q, p \in Participant, d \in Desc :
        removed[q][p][d] <= created[q][p][d] /\ created[q][p][d] <= removed[q][p][d] + 1

\* A peer fires ServiceRemoved for a service of p only for a cause: p's
\* NotifyServiceRemoved of it, or p's departure, never because a later
\* announcement of a connected p left it out, whatever announcements of p
\* are still in flight.
NoSpuriousRemoval ==
    \A q, p \in Participant, d \in Desc :
        removed[q][p][d] <= retracted[p][d] + (IF alive[p] THEN 0 ELSE 1)

\* Discovery converges (property 8.2): once no announcement or departure is
\* in flight, every connected participant's view of each peer is exactly
\* that peer's services, and empty for a peer that left.
Quiescent == \A l \in Link : link[l] = <<>>

Converged ==
    Quiescent =>
        \A q, p \in Participant :
            (alive[q] /\ q # p) => cache[q][p] = IF alive[p] THEN services[p] ELSE {}
====
