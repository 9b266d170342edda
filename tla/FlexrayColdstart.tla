--------------------------- MODULE FlexrayColdstart ---------------------------
(***************************************************************************)
(* FlexRay coldstart of the demo (Demos/Flexray/FlexrayDemo.cpp) running   *)
(* on the trivial, in-process FlexRay simulation                           *)
(* (IntegrationBus/source/sim/fr/FrController.cpp), with the distributed  *)
(* time synchronisation (NextSimTask barrier) that runs the demo's         *)
(* simulation task.                                                        *)
(*                                                                         *)
(* Each participant has one I/O thread.  It handles, one at a time, the    *)
(* bus messages of its peers, the NextSimTask announcements of its peers   *)
(* and the system Run command; the simulation task runs synchronously on   *)
(* that thread as soon as the barrier lets it.  Controller callbacks       *)
(* (PocStatusHandler, WakeupHandler) run synchronously inside the          *)
(* controller call that raises them, so they are part of that action.      *)
(*                                                                         *)
(* Messages travel on one FIFO link per ordered pair of participants       *)
(* (spec 5: FIFO per sender->receiver link, no order across senders).     *)
(***************************************************************************)
EXTENDS Integers, Sequences, FiniteSets, SequencesExt

CONSTANTS
    Node,           \* the FlexRay participants ("Node0", "Node1")
    WakeupChannel,  \* nodeParams.pWakeupChannel (MakeNodeParams)
    TxBuffers,      \* [Node -> Seq(Channel)]: channels of the demo's bufferConfigs
    InitBusState,   \* [Node -> MasterState]: frNode.busState set in main()
    StartupDelay,   \* [Node -> Nat]: frNode.SetStartupDelay, in steps
    ReconfigureStep,\* the step of "now == 100ms + startupDelay", in steps
    MaxSteps        \* bound on the simulation steps each node executes

Channel      == {"A", "B", "AB"}
PocState     == {"DefaultConfig", "Ready", "Wakeup", "NormalActive",
                 "Config", "Startup", "NormalPassive", "Halt"}
MasterState  == {"Ignore", "PerformWakeup", "WaitForWakeup", "WakeupDone"}
SymbolPattern == {"CasMts", "Wus", "Wudop"}

\* The messages of the FlexRay trivial simulation and of the time sync.
\* Payloads, headers and timestamps are left out: no step reads them.
Msg ==
    [kind : {"Frame", "FrameAck"}, ch : {"A", "B"}]
    \cup [kind : {"Symbol", "SymbolAck"}, pattern : SymbolPattern, ch : {"A", "B"}]
    \cup [kind : {"NextSimTask"}, now : 0..MaxSteps]

Link == {l \in Node \X Node : l[1] # l[2]}

VARIABLES
    node,           \* [Node -> [poc, bus]]: FlexrayNode::oldPocStatus.state, busState
    configureCalled,\* FlexrayNode::_configureCalled
    nodeBuffers,    \* FlexrayNode::controllerConfig.bufferConfigs (channels)
    msgNumber,      \* the static msgNumber of FlexrayNode::txBufferUpdate
    ctrlBuffers,    \* FrController::_bufferConfigs (channels), <<>> until Configure
    running,        \* the lifecycle of the node has entered Running
    now,            \* the node's next simulation step (virtual time / step size)
    nextTask,       \* nextTask[n][m]: time of the last NextSimTask n received from m
    failed,         \* the simulation task threw; the lifecycle is in Error
    q,              \* q[<<s, r>>]: messages in flight from s to r
    pocTrace        \* history: oldPocStatus, then every status PocStatusHandler saw

vars == <<node, configureCalled, nodeBuffers, msgNumber, ctrlBuffers, running,
          now, nextTask, failed, q, pocTrace>>

-----------------------------------------------------------------------------
(* Message constructors and the message layer (IComAdapter::SendIbMessage) *)

Sym(p, c)      == [kind |-> "Symbol", pattern |-> p, ch |-> c]
\* Mutant: the ack leaves its pattern default-initialised (CasMts).
SymAckDefaultPattern(m) == [kind |-> "SymbolAck", pattern |-> "CasMts", ch |-> m.ch]
SymAck(m)      == [kind |-> "SymbolAck", pattern |-> m.pattern, ch |-> m.ch]
FrameMsg(c)    == [kind |-> "Frame", ch |-> c]
FrameAck(m)    == [kind |-> "FrameAck", ch |-> m.ch]
NextSimTask(t) == [kind |-> "NextSimTask", now |-> t]

\* SendIbMessage delivers to every other controller on the network, in send
\* order.  A copy delivered back to the sender would hit the early return
\* "if (from == _endpointAddr) return;" of every ReceiveIbMessage, so it is
\* not enqueued at all.  Send pops the handled message from link `in` (or
\* none, for in = <<>>) and appends `out` to every link leaving n.
Send(n, in, out) ==
    q' = [l \in Link |-> (IF l = in THEN Tail(q[l]) ELSE q[l])
                         \o (IF l[1] = n THEN out ELSE <<>>)]

-----------------------------------------------------------------------------
(* The controller calls and the demo's callbacks.  An effect r is the     *)
(* node's state r.st, the messages r.out sent so far, and r.trace, the    *)
(* POC statuses the PocStatusHandler saw on the way.                     *)

Start(st) == [st |-> st, out |-> <<>>, trace |-> <<>>]

Emit(r, msgs) == [r EXCEPT !.out = @ \o msgs]

\* Mutant: the handler never records that the wakeup finished.
PocStatusHandlerNoDone(st, new) == [poc |-> new, bus |-> st.bus]

\* FlexrayNode::PocStatusHandler: a Wakeup->Ready transition ends the wakeup.
PocStatusHandler(st, new) ==
    [poc |-> new,
     bus |-> IF st.poc = "Wakeup" /\ new = "Ready" THEN "WakeupDone" ELSE st.bus]

\* FrController::CallHandlers(ControllerStatus): the demo's handler runs.
Report(r, new) ==
    [st |-> PocStatusHandler(r.st, new),
     out |-> r.out,
     trace |-> Append(r.trace, new)]

\* FrController::Run: CAS/MTS on both channels, then status NormalActive.
FrRun(r) == Report(Emit(r, <<Sym("CasMts", "A"), Sym("CasMts", "B")>>), "NormalActive")

\* FrController::Wakeup: WUS on the wakeup channel, then status Wakeup.
FrWakeup(r) == Report(Emit(r, <<Sym("Wus", WakeupChannel)>>), "Wakeup")

\* FrController::Configure: store the buffers, then report POC Ready.
FrConfigure(r) == Report(r, "Ready")

\* FlexrayNode::WakeupHandler: AllowColdstart (a no-op here), then Run.
WakeupHandler(r) == FrRun(r)

\* FlexrayNode::pocReady (AllowColdstart is a no-op in the trivial simulation).
PocReady(r) ==
    CASE r.st.bus = "PerformWakeup" -> FrWakeup(r)
      [] r.st.bus = "WakeupDone"    -> FrRun(r)
      [] OTHER                      -> r

\* Mutant: the buffer's channels are copied into one message as they are.
TxFramesUnsplit(c) == <<[kind |-> "Frame", ch |-> c]>>

\* FrController::UpdateTxBuffer throws out_of_range for an unconfigured index.
UpdateTxBufferFails(n, idx) == idx >= Len(ctrlBuffers[n])

\* FrController::UpdateTxBuffer: one FrMessage per configured channel.
TxFrames(c) ==
    CASE c = "A"  -> <<FrameMsg("A")>>
      [] c = "B"  -> <<FrameMsg("B")>>
      [] c = "AB" -> <<FrameMsg("A"), FrameMsg("B")>>

SwapChannel(c) == CASE c = "A" -> "B" [] c = "B" -> "A" [] OTHER -> c

\* ReconfigureTxBuffer of the controller: replace the config of buffer idx.
ReconfigureTxBuffer(buf, idx, c) == [buf EXCEPT ![idx + 1] = c]

-----------------------------------------------------------------------------
(* Time synchronisation: the distributed NextSimTask barrier (spec 4.9).  *)

\* Mutant: the barrier accepts peers one step behind.
CanAdvanceEarly(n) ==
    /\ running[n]
    /\ ~failed[n]
    /\ now[n] < MaxSteps
    /\ \A m \in Node \ {n} : nextTask[n][m] >= now[n] - 1

\* The node may start step now[n] once every peer announced a next task that
\* does not start before it.
CanAdvance(n) ==
    /\ running[n]
    /\ ~failed[n]
    /\ now[n] < MaxSteps
    /\ \A m \in Node \ {n} : nextTask[n][m] >= now[n]

\* Mutant: the task runs asynchronously; the thread keeps handling events.
IdleAsync(n) == TRUE

\* The simulation task runs synchronously on the I/O thread as soon as the
\* barrier opens: the thread handles no other event in between.
Idle(n) == ~CanAdvance(n)

Init ==
    /\ node = [n \in Node |-> [poc |-> "DefaultConfig", bus |-> InitBusState[n]]]
    /\ configureCalled = [n \in Node |-> FALSE]
    /\ nodeBuffers = TxBuffers
    /\ msgNumber = [n \in Node |-> -1]
    /\ ctrlBuffers = [n \in Node |-> <<>>]
    /\ running = [n \in Node |-> FALSE]
    /\ now = [n \in Node |-> 0]
    /\ nextTask = [n \in Node |-> [m \in Node |-> -1]]
    /\ failed = [n \in Node |-> FALSE]
    /\ q = [l \in Link |-> <<>>]
    /\ pocTrace = [n \in Node |-> <<"DefaultConfig">>]

-----------------------------------------------------------------------------
(* Lifecycle and simulation task                                          *)

\* The coordinated lifecycle enters Running on the system Run command; the
\* time sync announces its first task (now = 0).
StartRunning(n) ==
    /\ ~running[n]
    /\ running' = [running EXCEPT ![n] = TRUE]
    /\ Send(n, <<>>, <<NextSimTask(now[n])>>)
    /\ UNCHANGED <<node, configureCalled, nodeBuffers, msgNumber, ctrlBuffers,
                   now, nextTask, failed, pocTrace>>

\* The task returned with effect r: the node advances its time by one step
\* and announces its next task after the messages the task sent.
EndStep(n, r) ==
    /\ node' = [node EXCEPT ![n] = r.st]
    /\ pocTrace' = [pocTrace EXCEPT ![n] = @ \o r.trace]
    /\ now' = [now EXCEPT ![n] = @ + 1]
    /\ Send(n, <<>>, r.out \o <<NextSimTask(now[n] + 1)>>)

\* doAction: "if (now < _startupDelay) return;"
TaskDelayed(n) ==
    /\ CanAdvance(n)
    /\ now[n] < StartupDelay[n]
    /\ EndStep(n, Start(node[n]))
    /\ UNCHANGED <<configureCalled, nodeBuffers, msgNumber, ctrlBuffers, running,
                   nextTask, failed>>

\* doAction in DefaultConfig: Init() (FrController::Configure reports Ready
\* unless Configure was called before), then falls through to pocReady.
TaskDefaultConfig(n) ==
    /\ CanAdvance(n)
    /\ now[n] >= StartupDelay[n]
    /\ node[n].poc = "DefaultConfig"
    /\ LET r == IF configureCalled[n] THEN Start(node[n])
                ELSE FrConfigure(Start(node[n]))
       IN EndStep(n, PocReady(r))
    /\ ctrlBuffers' = IF configureCalled[n] THEN ctrlBuffers
                      ELSE [ctrlBuffers EXCEPT ![n] = nodeBuffers[n]]
    /\ configureCalled' = [configureCalled EXCEPT ![n] = TRUE]
    /\ UNCHANGED <<nodeBuffers, msgNumber, running, nextTask, failed>>

\* doAction in Ready: pocReady.
TaskReady(n) ==
    /\ CanAdvance(n)
    /\ now[n] >= StartupDelay[n]
    /\ node[n].poc = "Ready"
    /\ EndStep(n, PocReady(Start(node[n])))
    /\ UNCHANGED <<configureCalled, nodeBuffers, msgNumber, ctrlBuffers, running,
                   nextTask, failed>>

\* doAction in NormalActive at 100ms + startupDelay: ReconfigureTxBuffers
\* swaps channels A and B of every single-channel buffer.
TaskReconfigure(n) ==
    /\ CanAdvance(n)
    /\ now[n] >= StartupDelay[n]
    /\ node[n].poc = "NormalActive"
    /\ now[n] = ReconfigureStep + StartupDelay[n]
    /\ LET swapped == [i \in DOMAIN nodeBuffers[n] |-> SwapChannel(nodeBuffers[n][i])]
           touched == {i \in DOMAIN nodeBuffers[n] : nodeBuffers[n][i] \in {"A", "B"}}
       IN /\ nodeBuffers' = [nodeBuffers EXCEPT ![n] = swapped]
          /\ ctrlBuffers' = [ctrlBuffers EXCEPT ![n] =
                [i \in DOMAIN @ |-> IF i \in touched THEN swapped[i] ELSE @[i]]]
    /\ EndStep(n, Start(node[n]))
    /\ UNCHANGED <<configureCalled, msgNumber, running, nextTask, failed>>

\* doAction in NormalActive otherwise: txBufferUpdate picks buffer
\* msgNumber % size and calls UpdateTxBuffer, which throws out_of_range for
\* an index the controller was not configured with; the exception leaves the
\* task and the lifecycle reports Error (no next task is announced).
TaskTxBufferUpdate(n) ==
    /\ CanAdvance(n)
    /\ now[n] >= StartupDelay[n]
    /\ node[n].poc = "NormalActive"
    /\ now[n] # ReconfigureStep + StartupDelay[n]
    /\ LET k   == msgNumber[n] + 1
           idx == k % Len(nodeBuffers[n])
       IN /\ msgNumber' = [msgNumber EXCEPT ![n] = k]
          /\ IF UpdateTxBufferFails(n, idx)
             THEN /\ failed' = [failed EXCEPT ![n] = TRUE]
                  /\ UNCHANGED <<node, now, q, pocTrace>>
             ELSE /\ EndStep(n, Emit(Start(node[n]), TxFrames(ctrlBuffers[n][idx + 1])))
                  /\ UNCHANGED failed
    /\ UNCHANGED <<configureCalled, nodeBuffers, ctrlBuffers, running, nextTask>>

\* doAction in any other POC state: return.  (The early return of
\* txBufferUpdate for an empty bufferConfigs cannot happen: main() gives
\* both nodes three buffers, and MakeNodeParams rejects any other name.)
TaskNoAction(n) ==
    /\ CanAdvance(n)
    /\ now[n] >= StartupDelay[n]
    /\ node[n].poc \in {"Config", "Startup", "Wakeup", "NormalPassive", "Halt"}
    /\ EndStep(n, Start(node[n]))
    /\ UNCHANGED <<configureCalled, nodeBuffers, msgNumber, ctrlBuffers, running,
                   nextTask, failed>>

-----------------------------------------------------------------------------
(* Message reception on the I/O thread of n, from the head of link s->n.  *)

Head2(s, n) == Head(q[<<s, n>>])

CanReceive(n, s, kind) ==
    /\ Idle(n)
    /\ q[<<s, n>>] # <<>>
    /\ Head2(s, n).kind = kind

\* ReceiveIbMessage(FrMessage): message handlers, then an FrMessageAck.
ReceiveFrMessage(n, s) ==
    /\ CanReceive(n, s, "Frame")
    /\ Send(n, <<s, n>>, <<FrameAck(Head2(s, n))>>)
    /\ UNCHANGED <<node, configureCalled, nodeBuffers, msgNumber, ctrlBuffers,
                   running, now, nextTask, failed, pocTrace>>

\* ReceiveIbMessage(FrMessageAck): only the ack handlers run.
ReceiveFrMessageAck(n, s) ==
    /\ CanReceive(n, s, "FrameAck")
    /\ Send(n, <<s, n>>, <<>>)
    /\ UNCHANGED <<node, configureCalled, nodeBuffers, msgNumber, ctrlBuffers,
                   running, now, nextTask, failed, pocTrace>>

\* Mutant: the switch on the symbol pattern falls through from CasMts.
WakeupPatternFallThrough == SymbolPattern

\* The patterns for which ReceiveIbMessage(FrSymbol) calls the WakeupHandlers.
WakeupPattern == {"Wus", "Wudop"}

\* ReceiveIbMessage(FrSymbol): for WUS/WUDOP the demo's WakeupHandler calls
\* AllowColdstart and Run; then the symbol handlers, then an FrSymbolAck.
ReceiveFrSymbol(n, s) ==
    /\ CanReceive(n, s, "Symbol")
    /\ LET m  == Head2(s, n)
           r0 == Start(node[n])
           r1 == IF m.pattern \in WakeupPattern THEN WakeupHandler(r0) ELSE r0
           r  == Emit(r1, <<SymAck(m)>>)
       IN /\ node' = [node EXCEPT ![n] = r.st]
          /\ pocTrace' = [pocTrace EXCEPT ![n] = @ \o r.trace]
          /\ Send(n, <<s, n>>, r.out)
    /\ UNCHANGED <<configureCalled, nodeBuffers, msgNumber, ctrlBuffers,
                   running, now, nextTask, failed>>

\* ReceiveIbMessage(FrSymbolAck): an ack of a WUS reports POC Ready.
ReceiveFrSymbolAck(n, s) ==
    /\ CanReceive(n, s, "SymbolAck")
    /\ LET m == Head2(s, n)
           r == IF m.pattern = "Wus" THEN Report(Start(node[n]), "Ready")
                ELSE Start(node[n])
       IN /\ node' = [node EXCEPT ![n] = r.st]
          /\ pocTrace' = [pocTrace EXCEPT ![n] = @ \o r.trace]
    /\ Send(n, <<s, n>>, <<>>)
    /\ UNCHANGED <<configureCalled, nodeBuffers, msgNumber, ctrlBuffers,
                   running, now, nextTask, failed>>

\* The time sync records the peer's next task.
ReceiveNextSimTask(n, s) ==
    /\ CanReceive(n, s, "NextSimTask")
    /\ nextTask' = [nextTask EXCEPT ![n][s] = Head2(s, n).now]
    /\ Send(n, <<s, n>>, <<>>)
    /\ UNCHANGED <<node, configureCalled, nodeBuffers, msgNumber, ctrlBuffers,
                   running, now, failed, pocTrace>>

\* Every node has run its MaxSteps steps and every message is delivered.
Finished ==
    /\ \A n \in Node : now[n] = MaxSteps
    /\ \A l \in Link : q[l] = <<>>
    /\ UNCHANGED vars

NodeStep(n) ==
    \/ StartRunning(n)
    \/ TaskDelayed(n) \/ TaskDefaultConfig(n) \/ TaskReady(n)
    \/ TaskReconfigure(n) \/ TaskTxBufferUpdate(n) \/ TaskNoAction(n)
    \/ \E s \in Node \ {n} :
          \/ ReceiveFrMessage(n, s) \/ ReceiveFrMessageAck(n, s)
          \/ ReceiveFrSymbol(n, s) \/ ReceiveFrSymbolAck(n, s)
          \/ ReceiveNextSimTask(n, s)

Next == (\E n \in Node : NodeStep(n)) \/ Finished

\* Each I/O thread keeps handling its events and running its task.
Fairness == \A n \in Node : WF_vars(NodeStep(n))

Spec == Init /\ [][Next]_vars /\ Fairness

-----------------------------------------------------------------------------
(* Properties                                                             *)

TypeOK ==
    /\ \A n \in Node : node[n].poc \in PocState /\ node[n].bus \in MasterState
    /\ configureCalled \in [Node -> BOOLEAN]
    /\ \A n \in Node : nodeBuffers[n] \in Seq(Channel) /\ ctrlBuffers[n] \in Seq(Channel)
    /\ msgNumber \in [Node -> -1..MaxSteps]
    /\ running \in [Node -> BOOLEAN]
    /\ now \in [Node -> 0..MaxSteps]
    /\ nextTask \in [Node -> [Node -> -1..MaxSteps]]
    /\ failed \in [Node -> BOOLEAN]
    /\ \A l \in Link : q[l] \in Seq(Msg)
    /\ pocTrace \in [Node -> Seq(PocState)]

\* The demo only updates a TX buffer on a controller it configured:
\* FrController::UpdateTxBuffer never throws "Unconfigured txBufferIndex!".
\* A peer's WUS makes the node NormalActive (WakeupHandler -> Run) without
\* Configure; this holds only if that WUS is never handled before the
\* node's first simulation task.
NoUnconfiguredTxBuffer == \A n \in Node : ~failed[n]

\* Spec S3: the POC statuses each PocStatusHandler sees are exactly the S3
\* sequence DefaultConfig -> Ready -> Wakeup -> Ready -> NormalActive at a
\* node that wakes the cluster, and the same without the wakeup leg at a
\* node left in busState Ignore, which a peer's WUS makes run: at every
\* point each node has seen a prefix of its sequence, each status once.
S3Sequence == <<"DefaultConfig", "Ready", "Wakeup", "Ready", "NormalActive">>
ListenerSequence == <<"DefaultConfig", "Ready", "NormalActive">>

ExpectedPocSequence(n) ==
    IF InitBusState[n] = "PerformWakeup" THEN S3Sequence ELSE ListenerSequence

PocFollowsColdstartPath == \A n \in Node : IsPrefix(pocTrace[n], ExpectedPocSequence(n))

\* Spec 4.9 / S6 barrier: the distributed NextSimTask barrier implements the
\* master-grant barrier: a node runs the task of step now[n] only when no
\* node is behind it, although it decides on the next tasks its peers
\* announced, which may lag their clocks while frames and symbols of the
\* same step are still in flight on the FIFO links.
Barrier == INSTANCE TimeSyncAbstract WITH Participant <- Node

TimeSyncRefines == Barrier!Spec

\* Liveness of the wakeup handshake: a node that sent a WUS (POC Wakeup)
\* eventually leaves Wakeup, because the peer's ReceiveIbMessage(FrSymbol)
\* always acknowledges it (or the peer's own WUS makes it run).
WakeupEnds == \A n \in Node : node[n].poc = "Wakeup" ~> node[n].poc # "Wakeup"

\* Spec S3: a POC that reached NormalActive stays there; only DeferredHalt
\* or Freeze, which the demo never calls, would leave it.
NormalActiveIsStable ==
    [][\A n \in Node : node[n].poc = "NormalActive" => node'[n].poc = "NormalActive"]_vars

\* Spec S3: the coldstart ends with both nodes NormalActive, for good.
ColdstartSettles == <>[](\A n \in Node : node[n].poc = "NormalActive")

=============================================================================
