--------------------------- MODULE FrControllerFacade ---------------------------
(***************************************************************************)
(* The FlexRay controller facade of participant F                          *)
(* (IntegrationBus/source/sim/fr/FrControllerFacade.hpp, spec 4.6 and      *)
(* property 8.5), with its two peers on the same network: T, a participant *)
(* whose controller simulates trivially and sends frames straight to F,    *)
(* and N, a network simulator that announces its links through service     *)
(* discovery and sends simulated frames.                                   *)
(*                                                                         *)
(* F's I/O thread processes the links from T and N in order.  An           *)
(* announcement from N is diffed against F's cache of N (spec 4.5); for a  *)
(* created service that IsRelevantNetwork, the facade sets                 *)
(* _simulatedLinkDetected and _simulatedLink and switches                  *)
(* _currentController to the proxy.  Inbound frames go to the proxy when   *)
(* AllowForwardToProxy(from), to the trivial backend while the network is  *)
(* not simulated, and are dropped otherwise.  The user registers handlers  *)
(* and sends from its own thread; a send reads _currentController and     *)
(* then calls it.  The header declares no mutex for the pointer (spec 5    *)
(* asks for one), so the read races the switch: it sees the old or the new *)
(* pointer, and the call uses what it read.                                *)
(***************************************************************************)
EXTENDS Integers, Sequences

CONSTANTS
    Net,        \* the facade's FlexRay network (cfg::FlexRayController network)
    OtherNet,   \* another network the simulator may own
    Handler,    \* handlers the user registers
    TFrame,     \* frames T sends
    NFrame,     \* frames N simulates
    MaxSends    \* sends the user makes

Backend == {"trivial", "proxy"}
Frame == TFrame \cup NFrame

\* Link services a network simulator announces.
LinkDesc == [kind : {"FrLink", "CanLink"}, net : {Net, OtherNet}]
NoLink == [kind |-> "none", net |-> "none"]

NMsg == [type : {"announce"}, services : SUBSET LinkDesc] \cup [type : {"frame"}, frame : NFrame]

VARIABLES
    simAnnounced,   \* N's announcement: the links it owns
    nSent,          \* frames N has sent
    tSent,          \* frames T has sent
    fromN,          \* link N -> F (FIFO): announcements and frames
    fromT,          \* link T -> F (FIFO): frames
    cacheN,         \* F's _announcedServices entry for N
    detected,       \* _simulatedLinkDetected
    simulatedLink,  \* _simulatedLink
    current,        \* _currentController
    reg,            \* reg[h]: "no", "half" (one backend has h) or "yes"
    attached,       \* attached[b]: handlers backend b calls
    sendPc,         \* "idle", or the backend a send in progress took as snapshot
    sends,          \* sends started so far
    deliveredBy,    \* deliveredBy[f]: the backend that delivered f, or "none"
    got,            \* got[h][f]: copies of f handler h received
    expected,       \* expected[h][f]: deliveries of f after h's registration returned
    during          \* during[h][f]: deliveries of f while h's registration ran

vars == <<simAnnounced, nSent, tSent, fromN, fromT, cacheN, detected, simulatedLink,
          current, reg, attached, sendPc, sends, deliveredBy, got, expected, during>>

-----------------------------------------------------------------------------
Init ==
    /\ simAnnounced = {} /\ nSent = {} /\ tSent = {}
    /\ fromN = <<>> /\ fromT = <<>>
    /\ cacheN = {}
    /\ detected = FALSE
    /\ simulatedLink = NoLink
    /\ current = "trivial"
    /\ reg = [h \in Handler |-> "no"]
    /\ attached = [b \in Backend |-> {}]
    /\ sendPc = "idle" /\ sends = 0
    /\ deliveredBy = [f \in Frame |-> "none"]
    /\ got = [h \in Handler |-> [f \in Frame |-> 0]]
    /\ expected = [h \in Handler |-> [f \in Frame |-> 0]]
    /\ during = [h \in Handler |-> [f \in Frame |-> 0]]

\* ---- the peers ----

\* N creates a link service and announces its whole announcement.
NAnnounce(d) ==
    /\ d \notin simAnnounced
    /\ simAnnounced' = simAnnounced \cup {d}
    /\ fromN' = Append(fromN, [type |-> "announce", services |-> simAnnounced \cup {d}])
    /\ UNCHANGED <<nSent, tSent, fromT, cacheN, detected, simulatedLink, current,
                   reg, attached, sendPc, sends, deliveredBy, got, expected, during>>

\* N sends a simulated frame on the FlexRay link it owns for Net.
NSendFrame(f) ==
    /\ f \notin nSent
    /\ [kind |-> "FrLink", net |-> Net] \in simAnnounced
    /\ nSent' = nSent \cup {f}
    /\ fromN' = Append(fromN, [type |-> "frame", frame |-> f])
    /\ UNCHANGED <<simAnnounced, tSent, fromT, cacheN, detected, simulatedLink, current,
                   reg, attached, sendPc, sends, deliveredBy, got, expected, during>>

TSendFrame(f) ==
    /\ f \notin tSent
    /\ tSent' = tSent \cup {f}
    /\ fromT' = Append(fromT, f)
    /\ UNCHANGED <<simAnnounced, nSent, fromN, cacheN, detected, simulatedLink, current,
                   reg, attached, sendPc, sends, deliveredBy, got, expected, during>>

\* ---- the facade ----

RegisterRebuildCurrent(h, b) == [x \in {current} |-> attached[x] \cup {h}]

\* Backend b's Register*Handler keeps h.
Register(h, b) == [attached EXCEPT ![b] = @ \cup {h}]

\* Register*Handler hands h to one backend and then to the other, on the
\* user's thread; the I/O thread may switch and deliver in between.
RegisterOrder == <<"trivial", "proxy">>

RegisterBegin(h) ==
    /\ reg[h] = "no"
    /\ reg' = [reg EXCEPT ![h] = "half"]
    /\ attached' = Register(h, RegisterOrder[1])
    /\ UNCHANGED <<simAnnounced, nSent, tSent, fromN, fromT, cacheN, detected,
                   simulatedLink, current, sendPc, sends, deliveredBy, got, expected, during>>

RegisterEnd(h) ==
    /\ reg[h] = "half"
    /\ reg' = [reg EXCEPT ![h] = "yes"]
    /\ attached' = Register(h, RegisterOrder[2])
    /\ UNCHANGED <<simAnnounced, nSent, tSent, fromN, fromT, cacheN, detected,
                   simulatedLink, current, sendPc, sends, deliveredBy, got, expected, during>>

\* Mutant: the kind of link is taken from the CAN facade.
IsRelevantNetworkWrongKind(d) == d.kind = "CanLink" /\ d.net = Net

\* A FlexRay link of the simulator for the facade's own network.
IsRelevantNetwork(d) == d.kind = "FrLink" /\ d.net = Net

IsNetworkSimulated == detected

AllowForwardToProxy(from) == IsNetworkSimulated /\ from = "N"

AllowForwardToDefault(from) == ~IsNetworkSimulated

\* The facade's discovery handler, run for the services an announcement
\* created: on the first relevant link it switches to the proxy.
OnServiceDiscovery(created) ==
    IF ~detected /\ \E d \in created : IsRelevantNetwork(d)
    THEN /\ detected' = TRUE
         /\ simulatedLink' = CHOOSE d \in created : IsRelevantNetwork(d)
         /\ current' = "proxy"
    ELSE UNCHANGED <<detected, simulatedLink, current>>

\* ServiceDiscovery::ReceiveIbMessage on F's I/O thread.
ReceiveAnnouncement ==
    /\ fromN # <<>>
    /\ Head(fromN).type = "announce"
    /\ OnServiceDiscovery(Head(fromN).services \ cacheN)
    /\ cacheN' = Head(fromN).services
    /\ fromN' = Tail(fromN)
    /\ UNCHANGED <<simAnnounced, nSent, tSent, fromT, reg, attached, sendPc,
                   sends, deliveredBy, got, expected, during>>

\* Backend b delivers f to the handlers it keeps.
Deliver(f, b) ==
    /\ deliveredBy' = [deliveredBy EXCEPT ![f] = b]
    /\ got' = [h \in Handler |-> [got[h] EXCEPT ![f] = @ + IF h \in attached[b] THEN 1 ELSE 0]]
    /\ expected' = [h \in Handler |-> [expected[h] EXCEPT ![f] = @ + IF reg[h] = "yes" THEN 1 ELSE 0]]
    /\ during' = [h \in Handler |-> [during[h] EXCEPT ![f] = @ + IF reg[h] = "half" THEN 1 ELSE 0]]

\* FrControllerFacade::ReceiveIbMessage for a frame from peer `from`.
ReceiveFrame(f, from) ==
    CASE AllowForwardToProxy(from)   -> Deliver(f, "proxy")
      [] AllowForwardToDefault(from) -> Deliver(f, "trivial")
      [] OTHER                       -> UNCHANGED <<deliveredBy, got, expected, during>>

ReceiveFromN ==
    /\ fromN # <<>>
    /\ Head(fromN).type = "frame"
    /\ ReceiveFrame(Head(fromN).frame, "N")
    /\ fromN' = Tail(fromN)
    /\ UNCHANGED <<simAnnounced, nSent, tSent, fromT, cacheN, detected, simulatedLink,
                   current, reg, attached, sendPc, sends>>

ReceiveFromT ==
    /\ fromT # <<>>
    /\ ReceiveFrame(Head(fromT), "T")
    /\ fromT' = Tail(fromT)
    /\ UNCHANGED <<simAnnounced, nSent, tSent, fromN, cacheN, detected, simulatedLink,
                   current, reg, attached, sendPc, sends>>

\* UpdateTxBuffer on the user's thread: snapshot _currentController ...
SendBegin ==
    /\ sendPc = "idle"
    /\ sends < MaxSends
    /\ sendPc' = current
    /\ sends' = sends + 1
    /\ UNCHANGED <<simAnnounced, nSent, tSent, fromN, fromT, cacheN, detected,
                   simulatedLink, current, reg, attached, deliveredBy, got, expected, during>>

\* ... and send through the snapshot.
SendComplete ==
    /\ sendPc # "idle"
    /\ sendPc' = "idle"
    /\ UNCHANGED <<simAnnounced, nSent, tSent, fromN, fromT, cacheN, detected,
                   simulatedLink, current, reg, attached, sends, deliveredBy, got, expected, during>>

Next ==
    \/ \E d \in LinkDesc : NAnnounce(d)
    \/ \E f \in NFrame : NSendFrame(f)
    \/ \E f \in TFrame : TSendFrame(f)
    \/ \E h \in Handler : RegisterBegin(h) \/ RegisterEnd(h)
    \/ ReceiveAnnouncement \/ ReceiveFromN \/ ReceiveFromT
    \/ SendBegin \/ SendComplete

\* F's I/O thread keeps processing its links; a started send or
\* registration completes.
\* The peers and the user act or not.
Fairness ==
    /\ WF_vars(ReceiveAnnouncement \/ ReceiveFromN \/ ReceiveFromT)
    /\ WF_vars(SendComplete)
    /\ \A h \in Handler : WF_vars(RegisterEnd(h))

Spec == Init /\ [][Next]_vars /\ Fairness

-----------------------------------------------------------------------------
TypeOK ==
    /\ simAnnounced \in SUBSET LinkDesc
    /\ nSent \in SUBSET NFrame /\ tSent \in SUBSET TFrame
    /\ fromN \in Seq(NMsg) /\ fromT \in Seq(TFrame)
    /\ cacheN \in SUBSET LinkDesc
    /\ detected \in BOOLEAN
    /\ simulatedLink \in LinkDesc \cup {NoLink}
    /\ current \in Backend
    /\ reg \in [Handler -> {"no", "half", "yes"}]
    /\ attached \in [Backend -> SUBSET Handler]
    /\ sendPc \in {"idle"} \cup Backend
    /\ sends \in 0..MaxSends
    /\ deliveredBy \in [Frame -> {"none"} \cup Backend]
    /\ got \in [Handler -> [Frame -> Nat]]
    /\ expected \in [Handler -> [Frame -> Nat]]
    /\ during \in [Handler -> [Frame -> Nat]]

SimulatorFramesViaProxy ==
    \A f \in NFrame : f \in nSent ~> deliveredBy[f] = "proxy"
====
