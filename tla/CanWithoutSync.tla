---------------------------- MODULE CanWithoutSync ----------------------------
(***************************************************************************)
(* The CAN integration test without time synchronisation                   *)
(* (SilKit/IntegrationTests/CanWithoutSyncFTest.cpp, spec scenario S2).    *)
(*                                                                         *)
(* Two test threads, CanWriter and CanReader, each create a participant    *)
(* with a CAN controller on network CAN1 and synchronise through           *)
(* std::promise / wait_for.  Each participant has an I/O thread: the       *)
(* writer's processes the reader's subscription announcement, the          *)
(* reader's delivers frames to the frame handler.  The trivial CAN         *)
(* simulation acknowledges a frame synchronously inside SendFrame, so the  *)
(* writer's transmit handler runs on the writer thread.                    *)
(*                                                                         *)
(* Routing follows the subscription protocol of spec 4.4: a frame goes     *)
(* only to peers whose subscription the sender's I/O thread has processed, *)
(* and one sender->receiver link is FIFO.                                  *)
(***************************************************************************)
EXTENDS Integers, Sequences

CONSTANTS
    NumMsgs,        \* _testMessages.size() (10 in the test)
    EagerTimeouts   \* TRUE: a wait_for may expire while the awaited event is
                    \* still on its way; FALSE: only once nothing else moves

\* Mutant: canId taken from transmitId (index + 1).
IdsFromTransmitId == [i \in 1..NumMsgs |-> i]

\* canId of _testMessages[i - 1] (SetupTestData): frame i carries id i - 1.
Ids == [i \in 1..NumMsgs |-> i - 1]

Promise == {"readerRegistered", "readerAllReceived", "writerAllAcks",
            "writerAcksLocal", "readerReceivedLocal"}

VARIABLES
    wpc,              \* where the CanWriter thread is
    rpc,              \* where the CanReader thread is
    toWriter,         \* reader -> writer link: the reader's subscription
    toReader,         \* writer -> reader link: CAN frames (their canIds)
    writerSubscribed, \* the writer's table holds the reader's CAN1 subscription
    numSent,          \* CanWriter's numSent
    acked,            \* receivedAck of _testMessages[0 .. numAcks-1] (canIds)
    received,         \* receivedMsg of _testMessages[0 .. numReceived-1]
    promises,         \* the promises that have been given a value
    threw             \* an exception escaped a test thread: std::terminate

vars == <<wpc, rpc, toWriter, toReader, writerSubscribed,
          numSent, acked, received, promises, threw>>

\* Each thread's timed waits: which promise it waits on, and where it goes
\* once wait_for returns.
WriterWaits == [waitRegistered |-> [p |-> "readerRegistered", next |-> "send"],
                waitAcks       |-> [p |-> "writerAcksLocal", next |-> "waitReceived"],
                waitReceived   |-> [p |-> "readerAllReceived", next |-> "done"]]
ReaderWaits == [waitAcks       |-> [p |-> "writerAllAcks", next |-> "waitReceived"],
                waitReceived   |-> [p |-> "readerReceivedLocal", next |-> "done"]]

-----------------------------------------------------------------------------
\* _testMessages.at(i) throws std::out_of_range unless i < size().
AtInRange(i) == i < NumMsgs

\* promise::set_value on every promise of S; a second set_value of one
\* promise throws std::future_error (promise_already_satisfied).
SetValue(S) == /\ promises' = promises \cup S
               /\ threw' = (threw \/ S \cap promises # {})

\* The send path of the connection manager (spec 4.4): a frame is put on the
\* link only if the reader's subscription is known and the reader's
\* participant still exists; otherwise nobody receives it.
Route(id) == IF writerSubscribed /\ rpc # "done"
             THEN Append(toReader, id) ELSE toReader

\* Every step below requires ~threw: an exception that escapes a std::thread
\* ends the process.
Init ==
    /\ wpc = "init"
    /\ rpc = "init"
    /\ toWriter = <<>>
    /\ toReader = <<>>
    /\ writerSubscribed = FALSE
    /\ numSent = 0
    /\ acked = <<>>
    /\ received = <<>>
    /\ promises = {}
    /\ threw = FALSE

\* CanWriter up to controller->Start(): create the participant and the
\* controller.  Joining after the reader, the writer learns the reader's
\* subscription in the handshake, as the next message on the reader's link.
WriterStart ==
    /\ ~threw
    /\ wpc = "init"
    /\ wpc' = "waitRegistered"
    /\ toWriter' = IF rpc # "init" THEN Append(toWriter, "Sub") ELSE toWriter
    /\ UNCHANGED <<rpc, toReader, writerSubscribed, numSent,
                   acked, received, promises, threw>>

\* CanReader up to _canReaderRegisteredPromise.set_value(): create the
\* controller on CAN1 (its subscription goes to the writer if connected),
\* add the frame handler, Start, and signal "registered".
ReaderStart ==
    /\ ~threw
    /\ rpc = "init"
    /\ rpc' = "waitAcks"
    /\ toWriter' = IF wpc # "init" THEN Append(toWriter, "Sub") ELSE toWriter
    /\ SetValue({"readerRegistered"})
    /\ UNCHANGED <<wpc, toReader, writerSubscribed, numSent,
                   acked, received>>

\* The writer's AddFrameTransmitHandler lambda, called inside SendFrame.
FrameTransmitHandler(id) ==
    IF ~AtInRange(Len(acked))
    THEN threw' = TRUE /\ UNCHANGED <<acked, promises>>
    ELSE /\ acked' = Append(acked, id)
         /\ IF Len(acked) + 1 >= NumMsgs
            THEN SetValue({"writerAllAcks", "writerAcksLocal"})
            ELSE UNCHANGED <<promises, threw>>

\* Mutant: the loop runs while numSent <= size().
SendLoopContinuesOffByOne(n) == n <= NumMsgs

\* The condition of the writer's send loop.
SendLoopContinues(n) == n < NumMsgs

\* One iteration of the send loop: SendFrame(_testMessages.at(numSent)),
\* with its synchronous transmit acknowledgement, then numSent++.
WriterSend ==
    /\ ~threw
    /\ wpc = "send"
    /\ SendLoopContinues(numSent)
    /\ IF ~AtInRange(numSent)
       THEN threw' = TRUE /\ UNCHANGED <<toReader, numSent, acked, promises>>
       ELSE /\ toReader' = Route(Ids[numSent + 1])
            /\ numSent' = numSent + 1
            /\ FrameTransmitHandler(Ids[numSent + 1])
    /\ UNCHANGED <<wpc, rpc, toWriter, writerSubscribed, received>>

WriterLoopExit ==
    /\ ~threw
    /\ wpc = "send"
    /\ ~SendLoopContinues(numSent)
    /\ wpc' = "waitAcks"
    /\ UNCHANGED <<rpc, toWriter, toReader, writerSubscribed,
                   numSent, acked, received, promises, threw>>

\* wait_for returns because the awaited promise has a value.
WriterWakes ==
    /\ ~threw
    /\ wpc \in DOMAIN WriterWaits
    /\ WriterWaits[wpc].p \in promises
    /\ wpc' = WriterWaits[wpc].next
    /\ UNCHANGED <<rpc, toWriter, toReader, writerSubscribed,
                   numSent, acked, received, promises, threw>>

ReaderWakes ==
    /\ ~threw
    /\ rpc \in DOMAIN ReaderWaits
    /\ ReaderWaits[rpc].p \in promises
    /\ rpc' = ReaderWaits[rpc].next
    /\ UNCHANGED <<wpc, toWriter, toReader, writerSubscribed,
                   numSent, acked, received, promises, threw>>

\* The writer's I/O thread processes the reader's subscription (spec 4.4).
WriterReceiveSubscription ==
    /\ ~threw
    /\ wpc # "done"
    /\ toWriter # <<>>
    /\ toWriter' = Tail(toWriter)
    /\ writerSubscribed' = TRUE
    /\ UNCHANGED <<wpc, rpc, toReader, numSent, acked, received, promises, threw>>

\* The reader's I/O thread delivers the next frame to the AddFrameHandler
\* lambda, until the reader thread returns and destroys the participant.
FrameHandler ==
    /\ ~threw
    /\ rpc # "done"
    /\ toReader # <<>>
    /\ toReader' = Tail(toReader)
    /\ IF ~AtInRange(Len(received))
       THEN threw' = TRUE /\ UNCHANGED <<received, promises>>
       ELSE /\ received' = Append(received, Head(toReader))
            /\ IF Len(received) + 1 >= NumMsgs
               THEN SetValue({"readerAllReceived", "readerReceivedLocal"})
               ELSE UNCHANGED <<promises, threw>>
    /\ UNCHANGED <<wpc, rpc, toWriter, writerSubscribed,
                   numSent, acked>>

\* Every step other than an expiring wait_for.
Progress ==
    \/ WriterStart \/ WriterSend \/ WriterLoopExit \/ WriterWakes
    \/ ReaderStart \/ ReaderWakes
    \/ WriterReceiveSubscription \/ FrameHandler

\* Mutant: untimed waits (future::wait instead of wait_for).
TimeoutNever == FALSE

\* When a wait_for(10s / 1min) may expire.  The test's durations are far
\* longer than a delivery between two local processes, so unless timeouts
\* are eager, one expires only once no other step can happen.
TimeoutExpires == EagerTimeouts \/ ~ENABLED Progress

\* wait_for returns std::future_status::timeout; the thread goes on.
WriterTimesOut ==
    /\ ~threw
    /\ wpc \in DOMAIN WriterWaits
    /\ WriterWaits[wpc].p \notin promises
    /\ TimeoutExpires
    /\ wpc' = WriterWaits[wpc].next
    /\ UNCHANGED <<rpc, toWriter, toReader, writerSubscribed,
                   numSent, acked, received, promises, threw>>

ReaderTimesOut ==
    /\ ~threw
    /\ rpc \in DOMAIN ReaderWaits
    /\ ReaderWaits[rpc].p \notin promises
    /\ TimeoutExpires
    /\ rpc' = ReaderWaits[rpc].next
    /\ UNCHANGED <<wpc, toWriter, toReader, writerSubscribed,
                   numSent, acked, received, promises, threw>>

Next == Progress \/ WriterTimesOut \/ ReaderTimesOut

\* Each test thread and each I/O thread keeps running; a wait_for whose
\* promise stays unset does expire.
Fairness ==
    /\ WF_vars(WriterStart \/ WriterSend \/ WriterLoopExit \/ WriterWakes \/ WriterTimesOut)
    /\ WF_vars(ReaderStart \/ ReaderWakes \/ ReaderTimesOut)
    /\ WF_vars(WriterReceiveSubscription)
    /\ WF_vars(FrameHandler)

Spec == Init /\ [][Next]_vars /\ Fairness

-----------------------------------------------------------------------------
Pc == {"init", "waitRegistered", "send", "waitAcks", "waitReceived", "done"}

TypeOK ==
    /\ wpc \in Pc /\ rpc \in Pc
    /\ toWriter \in Seq({"Sub"})
    /\ toReader \in Seq(0..NumMsgs - 1)
    /\ writerSubscribed \in BOOLEAN
    /\ numSent \in 0..NumMsgs
    /\ acked \in Seq(0..NumMsgs - 1)
    /\ received \in Seq(0..NumMsgs - 1)
    /\ promises \subseteq Promise
    /\ threw \in BOOLEAN

\* Neither test thread throws: no _testMessages.at() out of range in the
\* send loop or in the two handlers, and no promise is set twice.
NoException == ~threw

\* Both test threads return, so ExecuteTest's joins complete: every wait of
\* the test is bounded.
TestDone == wpc = "done" /\ rpc = "done"

TestTerminates == <>TestDone

\* ExecuteTest's final loop: every _testMessages entry holds the frame and
\* the acknowledgement it expects (Matches compares the frame fields, all
\* set from the entry's index, so comparing canIds is enough).  An entry
\* nothing was received for keeps its default value and does not match.
AllMatch == received = Ids /\ acked = Ids

\* Spec S2 / ExecuteTest: once both threads are joined, the reader received
\* all frames in order and the writer got every acknowledgement in order.
S2Expected == TestDone => AllMatch
====
