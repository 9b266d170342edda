------------------------------- MODULE Lifecycle -------------------------------
(***************************************************************************)
(* The two-participant lifecycle of the VAsio state-machine integration    *)
(* test (IntegrationBus/IntegrationTests/StateMachineVAsioITest.cpp, spec  *)
(* scenario S1), with the participant lifecycle of ILifecycleService.hpp.  *)
(*                                                                         *)
(* The test thread drives TestController's system controller: before each  *)
(* command it sets a target state and a fresh promise, then waits on the   *)
(* promise for at most 5 s.  TestController's I/O thread runs the system   *)
(* monitor's handler for every status TestUnit publishes; it sets the      *)
(* promise when the status equals the target.  TestUnit's I/O thread       *)
(* processes the system commands and runs the Init, Stop and Shutdown      *)
(* handlers; TestUnit's application may also call Pause, Continue, Stop    *)
(* and ReportError from its own thread.  Commands and statuses travel on   *)
(* one FIFO link each way.                                                 *)
(***************************************************************************)
EXTENDS Integers, Sequences

CONSTANTS
    EagerTimeouts,  \* TRUE: a wait_for(5s) may expire while its state is on the way
    AppCalls,       \* the calls TestUnit's application makes, a subset of AppCall
    MaxAppCalls,    \* bound on those calls
    ThrowingHandlers \* the handlers that may throw, a subset of {"Stop", "Shutdown"}

LifecycleState ==
    {"Invalid", "Idle", "Initializing", "Initialized", "Running", "Paused",
     "Stopping", "Stopped", "ShuttingDown", "Shutdown", "Error"}
Command == {"Initialize", "Run", "Stop", "Shutdown"}
Handler == {"Init", "Stop", "Shutdown"}
AppCall == {"Pause", "Continue", "Stop", "ReportError"}

ASSUME ThrowingHandlers \subseteq {"Stop", "Shutdown"}

\* The test body, lines 139-157: the target state, then the call.
TestSteps == <<[target |-> "Idle", call |-> "RunAsync"],
               [target |-> "Initialized", call |-> "Initialize"],
               [target |-> "Running", call |-> "Run"],
               [target |-> "Stopped", call |-> "Stop"],
               [target |-> "Shutdown", call |-> "Shutdown"]>>
FinalWait == Len(TestSteps) + 1
TestEnd == Len(TestSteps) + 2

VARIABLES
    unit,         \* TestUnit's ParticipantController State()
    handler,      \* the handler TestUnit's I/O thread is running, or "none"
    appStop,      \* TestUnit's application thread is inside Stop(reason)
    appCalls,     \* application calls made so far
    calls,        \* calls[h]: how often the callbacks mock saw handler h
    finalState,   \* the RunAsync future: "pending" or its value
    toUnit,       \* system commands, TestController -> TestUnit
    toCtrl,       \* participant statuses, TestUnit -> TestController
    observed,     \* the states passed to callbacks.ParticipantStateHandler
    target,       \* _targetState
    promiseSet,   \* _targetStatePromise has a value
    threw,        \* set_value on a satisfied promise threw std::future_error
    step,         \* the test's step: index into TestSteps, FinalWait, TestEnd
    waiting,      \* the test thread is in stateReached.wait_for(5s)
    inSetTarget   \* the test thread is between the two stores of SetTargetState

vars == <<unit, handler, appStop, appCalls, calls, finalState, toUnit, toCtrl,
          observed, target, promiseSet, threw, step, waiting, inSetTarget>>

-----------------------------------------------------------------------------
\* ParticipantController's state change: set the state and publish the
\* status to the system monitors.
ChangeState(s) == /\ unit' = s
                  /\ toCtrl' = Append(toCtrl, s)

Init ==
    /\ unit = "Invalid"
    /\ handler = "none"
    /\ appStop = FALSE
    /\ appCalls = 0
    /\ calls = [h \in Handler |-> 0]
    /\ finalState = "pending"
    /\ toUnit = <<>>
    /\ toCtrl = <<>>
    /\ observed = <<>>
    /\ target = "Invalid"
    /\ promiseSet = FALSE
    /\ threw = FALSE
    /\ step = 1
    /\ waiting = FALSE
    /\ inSetTarget = FALSE

\* Mutant: the promise is replaced before the target.
TargetStoresSwapped == <<"promise", "target">>

\* SetTargetState's two stores in program order: _targetState, then a fresh
\* _targetStatePromise.  The monitor's handler reads both on TestController's
\* I/O thread without a lock, so it can run between them.
TargetStores == <<"target", "promise">>

\* One store of SetTargetState(s).
Store(x, s) == \/ x = "target" /\ target' = s /\ UNCHANGED promiseSet
               \/ x = "promise" /\ promiseSet' = FALSE /\ UNCHANGED target

\* The test thread enters SetTargetState and makes its first store ...
TestSetTarget ==
    /\ step <= Len(TestSteps)
    /\ ~waiting
    /\ ~inSetTarget
    /\ Store(TargetStores[1], TestSteps[step].target)
    /\ inSetTarget' = TRUE
    /\ UNCHANGED <<unit, handler, appStop, appCalls, calls, finalState, toUnit,
                   toCtrl, observed, threw, step, waiting>>

\* ... then the second, and the call of this step of the test body.
\* RunAsync is a local call on TestUnit (Invalid -> Idle); the others are
\* system controller commands sent to TestUnit.
TestIssue ==
    /\ inSetTarget
    /\ Store(TargetStores[2], TestSteps[step].target)
    /\ inSetTarget' = FALSE
    /\ waiting' = TRUE
    /\ IF TestSteps[step].call = "RunAsync"
       THEN ChangeState("Idle") /\ UNCHANGED toUnit
       ELSE toUnit' = Append(toUnit, TestSteps[step].call) /\ UNCHANGED <<unit, toCtrl>>
    /\ UNCHANGED <<handler, appStop, appCalls, calls, finalState, observed,
                   threw, step>>

\* stateReached.wait_for(5s) returns ready ...
TestWakes ==
    /\ waiting
    /\ promiseSet
    /\ waiting' = FALSE
    /\ step' = step + 1
    /\ UNCHANGED <<inSetTarget, unit, handler, appStop, appCalls, calls, finalState, toUnit,
                   toCtrl, observed, target, promiseSet, threw>>

\* finalState.wait_for(5s) returns ready (line 159).
TestFinalWakes ==
    /\ step = FinalWait
    /\ finalState # "pending"
    /\ step' = TestEnd
    /\ UNCHANGED <<inSetTarget, unit, handler, appStop, appCalls, calls, finalState, toUnit,
                   toCtrl, observed, target, promiseSet, threw, waiting>>

\* Mutant: the mock is called only for the target state.
ParticipantStateHandlerOnlyTarget ==
    /\ toCtrl # <<>>
    /\ toCtrl' = Tail(toCtrl)
    /\ IF Head(toCtrl) = target
       THEN /\ observed' = Append(observed, Head(toCtrl))
            /\ promiseSet' = TRUE
            /\ threw' = (threw \/ promiseSet)
       ELSE UNCHANGED <<inSetTarget, observed, promiseSet, threw>>
    /\ UNCHANGED <<inSetTarget, unit, handler, appStop, appCalls, calls, finalState, toUnit,
                   target, step, waiting>>

\* The monitor's participant state handler (lines 58-64 via 100-103) on
\* TestController's I/O thread.
ParticipantStateHandler ==
    /\ toCtrl # <<>>
    /\ toCtrl' = Tail(toCtrl)
    /\ observed' = Append(observed, Head(toCtrl))
    /\ IF Head(toCtrl) = target
       THEN /\ promiseSet' = TRUE
            /\ threw' = (threw \/ promiseSet)
       ELSE UNCHANGED <<inSetTarget, promiseSet, threw>>
    /\ UNCHANGED <<inSetTarget, unit, handler, appStop, appCalls, calls, finalState, toUnit,
                   target, step, waiting>>

-----------------------------------------------------------------------------
\* TestUnit's handling of a system command on its I/O thread.  A command
\* applies in one state only; in any other it is ignored.
Applies == [Initialize |-> "Idle", Run |-> "Initialized",
            Stop |-> "Running", Shutdown |-> "Stopped"]
Enters  == [Initialize |-> "Initializing", Run |-> "Running",
            Stop |-> "Stopping", Shutdown |-> "ShuttingDown"]
Runs    == [Initialize |-> "Init", Run |-> "none",
            Stop |-> "Stop", Shutdown |-> "Shutdown"]

\* Mutant: the state check of a command is dropped.
CommandAppliesAnyState(cmd, s) == TRUE

CommandApplies(cmd, s) == Applies[cmd] = s

\* Count a call of the callbacks mock for handler h.
Called(h) == IF h = "none" THEN calls ELSE [calls EXCEPT ![h] = @ + 1]

ProcessCommand ==
    /\ handler = "none"
    /\ toUnit # <<>>
    /\ toUnit' = Tail(toUnit)
    /\ LET cmd == Head(toUnit) IN
       IF CommandApplies(cmd, unit)
       THEN /\ ChangeState(Enters[cmd])
            /\ handler' = Runs[cmd]
            /\ calls' = Called(Runs[cmd])
       ELSE UNCHANGED <<inSetTarget, unit, toCtrl, handler, calls>>
    /\ UNCHANGED <<inSetTarget, appStop, appCalls, finalState, observed, target, promiseSet,
                   threw, step, waiting>>

\* "After the handler has been processed, the participant switches to" ...
After == [Init |-> "Initialized", Stop |-> "Stopped", Shutdown |-> "Shutdown"]

\* Mutant: the RunAsync future is completed when any handler returns.
ResolvesFutureAnyHandler(h) == TRUE

\* Mutant: the RunAsync future is never completed.
ResolvesFutureNever(h) == FALSE

\* Reaching Shutdown completes the RunAsync future with the final state.
ResolvesFuture(h) == h = "Shutdown"

HandlerReturns ==
    /\ handler # "none"
    /\ handler' = "none"
    /\ ChangeState(After[handler])
    /\ finalState' = IF ResolvesFuture(handler) THEN After[handler] ELSE finalState
    /\ UNCHANGED <<inSetTarget, appStop, appCalls, calls, toUnit, observed, target,
                   promiseSet, threw, step, waiting>>

\* The Stop or Shutdown handler throws: "Throwing an error inside the
\* handler will cause a call to ReportError()", which switches to Error.
\* The handler was not processed, so the switch documented after it is not
\* made and the RunAsync future is not completed.
HandlerThrows ==
    /\ handler \in ThrowingHandlers
    /\ handler' = "none"
    /\ ChangeState("Error")
    /\ UNCHANGED <<inSetTarget, appStop, appCalls, calls, finalState, toUnit, observed, target,
                   promiseSet, threw, step, waiting>>

-----------------------------------------------------------------------------
\* Mutant: Continue also accepted after a Stop.
PreconditionLax == [Pause |-> {"Running"}, Continue |-> {"Paused", "Stopped"},
                    Stop |-> {"Running"},
                    ReportError |-> LifecycleState \ {"Error"}]

\* The documented preconditions of the application's calls.
Precondition == [Pause |-> {"Running"}, Continue |-> {"Paused"},
                 Stop |-> {"Running"},
                 ReportError |-> LifecycleState \ {"Error"}]

\* The application makes its calls once RunAsync has started the lifecycle.
CanCall(c) == /\ c \in AppCalls
              /\ unit # "Invalid"
              /\ appCalls < MaxAppCalls
              /\ ~appStop
              /\ unit \in Precondition[c]

AppPause ==
    /\ CanCall("Pause")
    /\ appCalls' = appCalls + 1
    /\ ChangeState("Paused")
    /\ UNCHANGED <<inSetTarget, handler, appStop, calls, finalState, toUnit, observed,
                   target, promiseSet, threw, step, waiting>>

AppContinue ==
    /\ CanCall("Continue")
    /\ appCalls' = appCalls + 1
    /\ ChangeState("Running")
    /\ UNCHANGED <<inSetTarget, handler, appStop, calls, finalState, toUnit, observed,
                   target, promiseSet, threw, step, waiting>>

\* Stop(reason) calls the StopHandler on the calling thread ...
AppStop ==
    /\ CanCall("Stop")
    /\ appCalls' = appCalls + 1
    /\ ChangeState("Stopping")
    /\ appStop' = TRUE
    /\ calls' = Called("Stop")
    /\ UNCHANGED <<inSetTarget, handler, finalState, toUnit, observed, target, promiseSet,
                   threw, step, waiting>>

\* ... and then switches to Stopped.
AppStopReturns ==
    /\ appStop
    /\ appStop' = FALSE
    /\ ChangeState("Stopped")
    /\ UNCHANGED <<inSetTarget, handler, appCalls, calls, finalState, toUnit, observed,
                   target, promiseSet, threw, step, waiting>>

AppReportError ==
    /\ CanCall("ReportError")
    /\ appCalls' = appCalls + 1
    /\ ChangeState("Error")
    /\ UNCHANGED <<inSetTarget, handler, appStop, calls, finalState, toUnit, observed,
                   target, promiseSet, threw, step, waiting>>

-----------------------------------------------------------------------------
Progress ==
    \/ TestSetTarget \/ TestIssue \/ TestWakes \/ TestFinalWakes \/ ParticipantStateHandler
    \/ ProcessCommand \/ HandlerReturns \/ HandlerThrows
    \/ AppPause \/ AppContinue \/ AppStop \/ AppStopReturns \/ AppReportError

\* Mutant: waits without a timeout.
TimeoutNever == FALSE

\* A wait_for(5s) expires; 5 s is far longer than any delivery between two
\* local participants, so unless timeouts are eager it expires only once
\* nothing else can happen.
TimeoutExpires == EagerTimeouts \/ ~ENABLED Progress

TestTimesOut ==
    /\ waiting
    /\ ~promiseSet
    /\ TimeoutExpires
    /\ waiting' = FALSE
    /\ step' = step + 1
    /\ UNCHANGED <<inSetTarget, unit, handler, appStop, appCalls, calls, finalState, toUnit,
                   toCtrl, observed, target, promiseSet, threw>>

TestFinalTimesOut ==
    /\ step = FinalWait
    /\ finalState = "pending"
    /\ TimeoutExpires
    /\ step' = TestEnd
    /\ UNCHANGED <<inSetTarget, unit, handler, appStop, appCalls, calls, finalState, toUnit,
                   toCtrl, observed, target, promiseSet, threw, waiting>>

Next == Progress \/ TestTimesOut \/ TestFinalTimesOut

\* The test thread and both I/O threads keep running; the application's
\* calls are optional.
Fairness ==
    /\ WF_vars(TestSetTarget \/ TestIssue \/ TestWakes \/ TestFinalWakes \/ TestTimesOut \/ TestFinalTimesOut)
    /\ WF_vars(ParticipantStateHandler)
    /\ WF_vars(ProcessCommand \/ HandlerReturns \/ HandlerThrows)
    /\ WF_vars(AppStopReturns)

Spec == Init /\ [][Next]_vars /\ Fairness

-----------------------------------------------------------------------------
TypeOK ==
    /\ unit \in LifecycleState
    /\ handler \in Handler \cup {"none"}
    /\ appStop \in BOOLEAN
    /\ appCalls \in 0..MaxAppCalls
    /\ calls \in [Handler -> Nat]
    /\ finalState \in {"pending", "Shutdown", "Error"}
    /\ toUnit \in Seq(Command)
    /\ toCtrl \in Seq(LifecycleState)
    /\ observed \in Seq(LifecycleState)
    /\ target \in LifecycleState
    /\ promiseSet \in BOOLEAN
    /\ threw \in BOOLEAN
    /\ step \in 1..TestEnd
    /\ waiting \in BOOLEAN
    /\ inSetTarget \in BOOLEAN

\* The states the mock expects the participant state handler to see (lines
\* 129-136: Idle AtLeast(1), each other state Times(1)), in S1 order.
S1Seq == <<"Idle", "Initializing", "Initialized", "Running", "Stopping",
           "Stopped", "ShuttingDown", "Shutdown">>

\* The mock's expectations on the participant state handler and spec S1:
\* the monitor sees TestUnit's states exactly in the S1 order, each once,
\* even when the test thread's waits expire early and it sends the next
\* command before the previous state was reached.

ObservedIsS1Prefix == observed = SubSeq(S1Seq, 1, Len(observed))

\* The monitor's handler never sets the target-state promise twice (a second
\* set_value would throw std::future_error on TestController's I/O thread),
\* even when a late status of an expired wait runs between the two stores
\* of SetTargetState.
NoPromiseSetTwice == ~threw

\* The RunAsync future completes with Shutdown (lines 159-160).
FinalStateShutdown == <>(finalState = "Shutdown")

\* The mock's Times(1) on InitHandler, StopHandler and ShutdownHandler
\* (lines 125-127): no handler runs twice, also when TestUnit's application
\* stops, pauses or reports an error on its own.
HandlersCalledOnce == \A h \in Handler : calls[h] <= 1

\* TestUnit's state moves only along the lifecycle graph of spec 4.8.
Abs == INSTANCE LifecycleAbstract WITH state <- unit

LifecycleRefines == Abs!Spec
====
