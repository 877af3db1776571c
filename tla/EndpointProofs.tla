--------------------------- MODULE EndpointProofs ---------------------------
(***************************************************************************)
(* Proofs about the two processes at the ends of a telemetry stream.       *)
(*                                                                         *)
(* CollectorProcess, for any streams, signals, command lines and number of *)
(* events: what exit status 0 and 2 mean, and that no object is destroyed  *)
(* under a thread that uses it.  Both invariants follow the place of the   *)
(* main thread.                                                            *)
(*                                                                         *)
(* SensorClient, for any number of start() and stop() calls and of         *)
(* samples: the numbers on every stream are contiguous, and calls that do  *)
(* not overlap leave nothing behind.                                       *)
(***************************************************************************)
EXTENDS CollectorProcess, SensorClient, TLAPS, SequenceTheorems

-----------------------------------------------------------------------------
(* The collector process. *)

Places == {"start", "consumer", "build", "install", "serve", "wait", "request_stop",
           "shutdown", "join", "flush", "report", "leave", "destroy", "close", "exited"}

ProcessTypeOK ==
    /\ open \in BOOLEAN
    /\ accepted \in Seq(Events) /\ done \in Seq(Events) /\ refused \in Seq(Events)
    /\ main \in Places
    /\ stream \in [Streams -> {"none", "open", "finished"}]

\* The consumer has got the first accepted events, in order, and only a
\* recording that has gone bad refused one.
Delivered ==
    /\ Len(done) <= Len(accepted)
    /\ \A i \in 1 .. Len(done) : done[i] = accepted[i]
    /\ refused # <<>> => recorder = "bad"

NoOpenStream == \A s \in Streams : stream[s] # "open"

\* The server by the place of the main thread; only a monitor that has seen a
\* signal shuts it down, and it is down only when every stream has finished.
ServerInv ==
    /\ server \in {"none", "down", "destroyed"} => NoOpenStream
    /\ server \in {"stopping", "down"} => g_shutdown_signal # NoSignal
    /\ monitor = "polling" => server = "running"
    /\ monitor = "in_shutdown" => server \in {"stopping", "down"}
    /\ main \in {"start", "consumer", "build"} => server = "none" /\ monitor = "none"
    /\ main \in {"install", "serve"} => server = "running" /\ monitor = "none"
    /\ main \in {"request_stop", "shutdown", "join", "flush", "report"} => server = "down"
    /\ main = "leave" => server \in {"none", "down"}
    /\ main \in {"destroy", "close"} => server = "destroyed"

Drained == ~open /\ ~Pending

\* The recording, if there is one, is good and holds what was consumed.
Recorded == recorder = "none" \/ (recorder = "good" /\ flushed = Len(done))

\* What has been decided when a status is returned.
ResultInv ==
    /\ main = "start" => recorder = "none" /\ report = <<>>
    /\ main \in {"flush", "report"} => Drained
    /\ main = "report" => Recorded
    /\ exit_code = "0" => main \in {"leave", "destroy", "close", "exited"}
    /\ exit_code = "0" /\ report # <<>> =>
         /\ Drained /\ Recorded
         /\ report[1].accepted = Len(accepted) /\ report[1].consumed = Len(done)
         /\ report[1].failures = Len(refused) /\ report[1].signal # NoSignal
    /\ exit_code = "2" \/ (exit_code = "0" /\ report = <<>>) =>
         main = "exited" /\ recorder = "none" /\ server = "none"

ProcessInv == ProcessTypeOK /\ Delivered /\ ServerInv /\ ResultInv
-----------------------------------------------------------------------------
(* The option loop, whatever the arguments are. *)

LEMMA OptionsRead ==
    ASSUME NEW arguments \in ArgumentLists, ReadOptions(arguments)
    PROVE  /\ main = "start"
           /\ \/ main' = "exited" /\ exit_code' \in {"0", "2"} /\ recorder' = recorder
              \/ main' = "consumer" /\ exit_code' = exit_code /\ recorder' \in {"wanted", "none"}
           /\ UNCHANGED <<pipelineVars, signalVars, serverVars, monitorVars, flushed, report>>
BY DEF ReadOptions

\* Every step of the process is one of these.
LEMMA ProcessCases ==
    ASSUME ProcessNext
    PROVE  \/ \E arguments \in ArgumentLists : ReadOptions(arguments)
           \/ MakeConsumer \/ BuildAndStart \/ InstallHandlers \/ StartMonitor
           \/ WaitReturns \/ RequestStop \/ ShutdownSink \/ SinkJoined
           \/ Flush \/ Report \/ Leave \/ DestroySink \/ CloseRecording
           \/ MonitorWakes \/ MonitorFinishes \/ ServerDown
           \/ \E s \in Signals : Signal(s)
           \/ \E s \in Streams : OpenStream(s)
           \/ \E s \in Streams : StreamEvent(s)
           \/ \E s \in Streams : EndStream(s)
           \/ Consume \/ ConsumeFails \/ WorkerCloses
           \/ UNCHANGED processVars
BY DEF ProcessNext, Command, MainThread, Terminated

\* What a step may do to the pipeline.
PipelineStep ==
    \/ UNCHANGED pipelineVars
    \/ Accept \/ Shut \/ Stop
    \/ Deliver /\ recorder' = recorder
    \/ Refuse /\ recorder' = "bad"

LEMMA PipelineSteps == ASSUME [ProcessNext]_processVars PROVE PipelineStep
<1> USE DEF PipelineStep
<1>1. CASE UNCHANGED processVars
  BY <1>1 DEF processVars
<1>2. CASE ProcessNext
  <2>1. ASSUME NEW arguments \in ArgumentLists, ReadOptions(arguments) PROVE PipelineStep
    BY <2>1, OptionsRead
  <2>2. ASSUME NEW s \in Signals, Signal(s) PROVE PipelineStep
    BY <2>2 DEF Signal
  <2>3. ASSUME NEW s \in Streams, OpenStream(s) \/ StreamEvent(s) \/ EndStream(s)
        PROVE  PipelineStep
    BY <2>3 DEF OpenStream, StreamEvent, EndStream
  <2>4. CASE \/ MakeConsumer \/ BuildAndStart \/ InstallHandlers \/ StartMonitor
             \/ WaitReturns \/ RequestStop \/ Flush \/ Report \/ Leave \/ CloseRecording
             \/ MonitorWakes \/ MonitorFinishes \/ ServerDown
    BY <2>4 DEF MakeConsumer, BuildAndStart, InstallHandlers, StartMonitor, WaitReturns,
                RequestStop, Flush, Report, Leave, CloseRecording, MonitorWakes,
                MonitorFinishes, ServerDown
  <2>5. CASE ShutdownSink \/ SinkJoined \/ DestroySink \/ WorkerCloses
    BY <2>5 DEF ShutdownSink, SinkJoined, DestroySink, WorkerCloses
  <2>6. CASE Consume \/ ConsumeFails
    BY <2>6 DEF Consume, ConsumeFails
  <2> QED BY <1>2, <2>1, <2>2, <2>3, <2>4, <2>5, <2>6, ProcessCases, <1>1
<1> QED BY <1>1, <1>2

-----------------------------------------------------------------------------
(* Types and the pipeline. *)

LEMMA PlaceStep ==
    ASSUME main \in Places, [ProcessNext]_processVars
    PROVE  main' \in Places
<1> USE DEF Places
<1>1. CASE UNCHANGED processVars
  BY <1>1 DEF processVars
<1>2. CASE ProcessNext
  <2>1. ASSUME NEW arguments \in ArgumentLists, ReadOptions(arguments) PROVE main' \in Places
    BY <2>1, OptionsRead
  <2>2. ASSUME NEW s \in Signals, Signal(s) PROVE main' \in Places
    BY <2>2 DEF Signal
  <2>3. ASSUME NEW s \in Streams, OpenStream(s) \/ StreamEvent(s) \/ EndStream(s)
        PROVE  main' \in Places
    BY <2>3 DEF OpenStream, StreamEvent, EndStream
  <2>4. CASE \/ MakeConsumer \/ BuildAndStart \/ InstallHandlers \/ StartMonitor
             \/ WaitReturns \/ RequestStop \/ ShutdownSink \/ SinkJoined
             \/ Flush \/ Report \/ Leave \/ DestroySink \/ CloseRecording
    BY <2>4 DEF MakeConsumer, BuildAndStart, InstallHandlers, StartMonitor, WaitReturns,
                RequestStop, ShutdownSink, SinkJoined, Flush, Report, Leave, DestroySink,
                CloseRecording, Return
  <2>5. CASE MonitorWakes \/ MonitorFinishes \/ ServerDown \/ Consume \/ ConsumeFails \/ WorkerCloses
    BY <2>5 DEF MonitorWakes, MonitorFinishes, ServerDown, Consume, ConsumeFails, WorkerCloses
  <2> QED BY <1>1, <1>2, <2>1, <2>2, <2>3, <2>4, <2>5, ProcessCases
<1> QED BY <1>1, <1>2

\* Only the server's actions change a stream: a stream is opened on a running
\* server, and an open one stays open or is finished.
StreamStep ==
    \/ UNCHANGED stream
    \/ \E s \in Streams :
         /\ server' = server
         /\ \/ server = "running" /\ stream' = [stream EXCEPT ![s] = "open"]
            \/ stream' = [stream EXCEPT ![s] = "finished"]

LEMMA StreamSteps == ASSUME [ProcessNext]_processVars PROVE StreamStep
<1> USE DEF serverVars, StreamStep
<1>1. CASE UNCHANGED processVars
  BY <1>1 DEF processVars
<1>2. CASE ProcessNext
  <2>1. ASSUME NEW arguments \in ArgumentLists, ReadOptions(arguments) PROVE StreamStep
    BY <2>1, OptionsRead
  <2>2. ASSUME NEW s \in Signals, Signal(s) PROVE StreamStep
    BY <2>2 DEF Signal
  <2>3. ASSUME NEW s \in Streams, OpenStream(s) \/ StreamEvent(s) \/ EndStream(s)
        PROVE  StreamStep
    BY <2>3 DEF OpenStream, StreamEvent, EndStream
  <2>4. CASE \/ MakeConsumer \/ BuildAndStart \/ InstallHandlers \/ StartMonitor
             \/ WaitReturns \/ RequestStop \/ ShutdownSink \/ SinkJoined
             \/ Flush \/ Report \/ Leave \/ DestroySink \/ CloseRecording
    BY <2>4 DEF MakeConsumer, BuildAndStart, InstallHandlers, StartMonitor, WaitReturns,
                RequestStop, ShutdownSink, SinkJoined, Flush, Report, Leave, DestroySink,
                CloseRecording
  <2>5. CASE MonitorWakes \/ MonitorFinishes \/ ServerDown \/ Consume \/ ConsumeFails \/ WorkerCloses
    BY <2>5 DEF MonitorWakes, MonitorFinishes, ServerDown, Consume, ConsumeFails, WorkerCloses
  <2> QED BY <1>1, <1>2, <2>1, <2>2, <2>3, <2>4, <2>5, ProcessCases
<1> QED BY <1>1, <1>2

LEMMA ProcessTypeStep ==
    ASSUME ProcessTypeOK, Delivered, [ProcessNext]_processVars
    PROVE  ProcessTypeOK'
<1>1. main' \in Places
  BY PlaceStep DEF ProcessTypeOK
<1>2. stream' \in [Streams -> {"none", "open", "finished"}]
  BY StreamSteps DEF StreamStep, ProcessTypeOK
<1>3. ASSUME Pending PROVE Next_event \in Events
  <2>1. Len(done) + 1 \in 1 .. Len(accepted)
    BY <1>3 DEF Pending, ProcessTypeOK
  <2> QED BY <2>1 DEF Next_event, ProcessTypeOK
<1>4. /\ open' \in BOOLEAN
      /\ accepted' \in Seq(Events) /\ done' \in Seq(Events) /\ refused' \in Seq(Events)
  <2> USE DEF ProcessTypeOK
  <2>1. CASE UNCHANGED pipelineVars
    BY <2>1 DEF pipelineVars
  <2>2. CASE Accept
    BY <2>2 DEF Accept
  <2>3. CASE Deliver
    BY <1>3, <2>3 DEF Deliver
  <2>4. CASE Refuse
    BY <1>3, <2>4 DEF Refuse
  <2>5. CASE Shut \/ Stop
    BY <2>5 DEF Shut, Stop
  <2> QED BY <2>1, <2>2, <2>3, <2>4, <2>5, PipelineSteps DEF PipelineStep
<1> QED BY <1>1, <1>2, <1>4 DEF ProcessTypeOK

LEMMA DrainedStep ==
    ASSUME Drained, [ProcessNext]_processVars
    PROVE  Drained' /\ done' = done /\ accepted' = accepted /\ refused' = refused
<1> USE DEF Drained, Pending
<1>1. CASE UNCHANGED pipelineVars
  BY <1>1 DEF pipelineVars
<1>2. CASE Accept \/ Deliver \/ Refuse
  BY <1>2 DEF Accept, Deliver, Refuse
<1>3. CASE Shut \/ Stop
  BY <1>3 DEF Shut, Stop
<1> QED BY <1>1, <1>2, <1>3, PipelineSteps DEF PipelineStep
\* A recording that went bad stays bad; none goes bad by itself.
LEMMA BadStays ==
    ASSUME recorder = "bad", main = "start" => recorder = "none", [ProcessNext]_processVars
    PROVE  recorder' = "bad"
<1> USE DEF recordVars
<1>1. CASE UNCHANGED processVars
  BY <1>1 DEF processVars
<1>2. CASE ProcessNext
  <2>1. ASSUME NEW arguments \in ArgumentLists, ReadOptions(arguments) PROVE recorder' = "bad"
    BY <2>1, OptionsRead
  <2>2. ASSUME NEW s \in Signals, Signal(s) PROVE recorder' = "bad"
    BY <2>2 DEF Signal
  <2>3. ASSUME NEW s \in Streams, OpenStream(s) \/ StreamEvent(s) \/ EndStream(s)
        PROVE  recorder' = "bad"
    BY <2>3 DEF OpenStream, StreamEvent, EndStream
  <2>4. CASE \/ MakeConsumer \/ BuildAndStart \/ InstallHandlers \/ StartMonitor
             \/ WaitReturns \/ RequestStop \/ ShutdownSink \/ SinkJoined
             \/ Flush \/ Report \/ Leave \/ DestroySink \/ CloseRecording
    BY <2>4 DEF MakeConsumer, BuildAndStart, InstallHandlers, StartMonitor, WaitReturns,
                RequestStop, ShutdownSink, SinkJoined, Flush, Report, Leave, DestroySink,
                CloseRecording
  <2>5. CASE MonitorWakes \/ MonitorFinishes \/ ServerDown \/ Consume \/ ConsumeFails \/ WorkerCloses
    BY <2>5 DEF MonitorWakes, MonitorFinishes, ServerDown, Consume, ConsumeFails, WorkerCloses
  <2> QED BY <1>1, <1>2, <2>1, <2>2, <2>3, <2>4, <2>5, ProcessCases
<1> QED BY <1>1, <1>2

LEMMA DeliveredStep ==
    ASSUME ProcessTypeOK, Delivered, ResultInv, [ProcessNext]_processVars
    PROVE  Delivered'
<1>1. ASSUME refused # <<>> PROVE recorder' = "bad"
  BY <1>1, BadStays DEF Delivered, ResultInv
<1>2. CASE UNCHANGED pipelineVars \/ Shut \/ Stop
  BY <1>1, <1>2 DEF pipelineVars, Shut, Stop, Delivered
<1>3. CASE Accept
  <2>1. PICK e \in Events : accepted' = Append(accepted, e)
    BY <1>3 DEF Accept
  <2>2. /\ Len(accepted') = Len(accepted) + 1
        /\ \A i \in 1 .. Len(accepted) : accepted'[i] = accepted[i]
    BY <2>1 DEF ProcessTypeOK
  <2>3. Len(done) \in Nat /\ Len(accepted) \in Nat
    BY DEF ProcessTypeOK
  <2> QED BY <1>1, <1>3, <2>2, <2>3 DEF Accept, Delivered
<1>4. CASE Deliver
  <2>1. Len(done) \in Nat /\ Len(accepted) \in Nat /\ Len(done) < Len(accepted)
    BY <1>4 DEF ProcessTypeOK, Deliver, Pending
  <2>2. /\ Len(done') = Len(done) + 1
        /\ \A i \in 1 .. Len(done) : done'[i] = done[i]
        /\ done'[Len(done) + 1] = accepted[Len(done) + 1]
    BY <1>4 DEF ProcessTypeOK, Deliver, Next_event
  <2>3. \A i \in 1 .. Len(done') : i \in 1 .. Len(done) \/ i = Len(done) + 1
    BY <2>1, <2>2
  <2>4. \A i \in 1 .. Len(done') : done'[i] = accepted[i]
    BY <2>2, <2>3 DEF Delivered
  <2>5. Len(done') <= Len(accepted')
    BY <1>4, <2>1, <2>2 DEF Deliver
  <2>6. refused' # <<>> => recorder' = "bad"
    BY <1>1, <1>4 DEF Deliver
  <2> QED BY <1>4, <2>4, <2>5, <2>6 DEF Deliver, Delivered
<1>5. CASE Refuse /\ recorder' = "bad"
  BY <1>5 DEF Refuse, Delivered
<1> QED BY <1>2, <1>3, <1>4, <1>5, PipelineSteps DEF PipelineStep

-----------------------------------------------------------------------------
(* The server. *)

LEMMA NoOpenStreamStep ==
    ASSUME ProcessTypeOK, NoOpenStream, server # "running", [ProcessNext]_processVars
    PROVE  NoOpenStream'
BY StreamSteps DEF StreamStep, NoOpenStream, ProcessTypeOK

LEMMA ServerStep ==
    ASSUME ProcessTypeOK, ServerInv, [ProcessNext]_processVars
    PROVE  ServerInv'
<1> USE DEF ServerInv, signalVars, serverVars, monitorVars
<1>1. server # "running" /\ NoOpenStream => NoOpenStream'
  BY NoOpenStreamStep
<1>2. CASE UNCHANGED processVars
  BY <1>1, <1>2 DEF processVars
<1>3. CASE ProcessNext
  <2>1. ASSUME NEW arguments \in ArgumentLists, ReadOptions(arguments) PROVE ServerInv'
    BY <1>1, <2>1, OptionsRead
  <2>2. CASE MakeConsumer
    BY <1>1, <2>2 DEF MakeConsumer
  <2>3. CASE BuildAndStart
    BY <1>1, <2>3 DEF BuildAndStart, Return
  <2>4. CASE InstallHandlers
    BY <2>4 DEF InstallHandlers
  <2>5. CASE StartMonitor
    BY <2>5 DEF StartMonitor
  <2>6. CASE WaitReturns \/ RequestStop \/ ShutdownSink \/ SinkJoined
    BY <1>1, <2>6 DEF WaitReturns, RequestStop, ShutdownSink, SinkJoined
  <2>7. CASE Flush
    BY <1>1, <2>7 DEF Flush, Return
  <2>8. CASE Report
    BY <1>1, <2>8 DEF Report, Return
  <2>9. CASE Leave
    <3>1. NoOpenStream /\ server # "running"
      BY <2>9 DEF Leave
    <3> QED BY <1>1, <2>9, <3>1 DEF Leave, MonitorJoined
  <2>10. CASE DestroySink \/ CloseRecording
    BY <1>1, <2>10 DEF DestroySink, CloseRecording
  <2>11. CASE MonitorWakes
    BY <2>11 DEF MonitorWakes
  <2>12. CASE MonitorFinishes
    BY <1>1, <2>12 DEF MonitorFinishes
  <2>13. CASE ServerDown
    <3>1. NoOpenStream'
      BY <2>13 DEF ServerDown, NoOpenStream
    <3> QED BY <2>13, <3>1 DEF ServerDown
  <2>14. ASSUME NEW s \in Signals, Signal(s) PROVE ServerInv'
    BY <1>1, <2>14, SignalsAssumption DEF Signal
  <2>15. ASSUME NEW s \in Streams, OpenStream(s) \/ StreamEvent(s) \/ EndStream(s)
         PROVE  ServerInv'
    BY <1>1, <2>15 DEF OpenStream, StreamEvent, EndStream
  <2>16. CASE Consume \/ ConsumeFails \/ WorkerCloses
    BY <1>1, <2>16 DEF Consume, ConsumeFails, WorkerCloses
  <2> QED BY <1>2, <1>3, <2>1, <2>2, <2>3, <2>4, <2>5, <2>6, <2>7, <2>8, <2>9, <2>10, <2>11,
             <2>12, <2>13, <2>14, <2>15, <2>16, ProcessCases
<1> QED BY <1>2, <1>3
-----------------------------------------------------------------------------
(* What is returned. *)

LEMMA ResultStep ==
    ASSUME ProcessTypeOK, Delivered, ServerInv, ResultInv, [ProcessNext]_processVars
    PROVE  ResultInv'
<1> USE DEF ResultInv, resultVars, recordVars
<1>1. Drained => Drained' /\ done' = done /\ accepted' = accepted /\ refused' = refused
  BY DrainedStep
<1>2. CASE UNCHANGED processVars
  BY <1>1, <1>2 DEF processVars, serverVars, Recorded
<1>3. CASE ProcessNext
  <2>1. ASSUME NEW arguments \in ArgumentLists, ReadOptions(arguments) PROVE ResultInv'
    BY <2>1, OptionsRead DEF ServerInv, serverVars
  <2>2. CASE MakeConsumer
    BY <2>2 DEF MakeConsumer
  <2>3. CASE BuildAndStart
    BY <2>3 DEF BuildAndStart, Return
  <2>4. CASE InstallHandlers \/ StartMonitor \/ WaitReturns \/ RequestStop \/ ShutdownSink
    BY <2>4 DEF InstallHandlers, StartMonitor, WaitReturns, RequestStop, ShutdownSink
  <2>5. CASE SinkJoined
    <3>1. Drained'
      BY <2>5 DEF SinkJoined, Stop, Drained, Pending
    <3> QED BY <2>5, <3>1 DEF SinkJoined
  <2>6. CASE Flush
    BY <1>1, <2>6 DEF Flush, Return, FlushReturns, Recorded
  <2>7. CASE Report
    <3>1. Drained' /\ Recorded'
      BY <1>1, <2>7 DEF Report, Recorded
    <3>2. /\ main' = "leave" /\ exit_code' = "0" /\ report' # <<>>
          /\ report'[1] = [accepted |-> Len(accepted), consumed |-> Len(done),
                           failures |-> Len(refused), signal |-> g_shutdown_signal]
      BY <2>7 DEF Report, Return
    <3>3. g_shutdown_signal # NoSignal
      BY <2>7 DEF Report, ServerInv
    <3>4. done' = done /\ accepted' = accepted /\ refused' = refused
      BY <1>1, <2>7 DEF Report
    <3> QED BY <3>1, <3>2, <3>3, <3>4
  <2>8. CASE Leave
    BY <1>1, <2>8 DEF Leave, Recorded
  <2>9. CASE DestroySink
    BY <1>1, <2>9 DEF DestroySink, Recorded
  <2>10. CASE CloseRecording
    BY <1>1, <2>10 DEF CloseRecording, Recorded
  <2>11. CASE MonitorWakes \/ MonitorFinishes \/ ServerDown
    BY <1>1, <2>11 DEF MonitorWakes, MonitorFinishes, ServerDown, Recorded, Alive
  <2>12. ASSUME NEW s \in Signals, Signal(s) PROVE ResultInv'
    BY <1>1, <2>12 DEF Signal, Recorded, serverVars
  <2>13. ASSUME NEW s \in Streams, OpenStream(s) \/ StreamEvent(s) \/ EndStream(s)
         PROVE  ResultInv'
    BY <1>1, <2>13 DEF OpenStream, StreamEvent, EndStream, Recorded, Alive
  <2>14. CASE Consume \/ ConsumeFails
    <3>1. ~Drained /\ Alive
      BY <2>14 DEF Consume, ConsumeFails, Drained, Deliver, Refuse
    <3> QED BY <2>14, <3>1 DEF Consume, ConsumeFails, Alive
  <2>15. CASE WorkerCloses
    BY <1>1, <2>15 DEF WorkerCloses, Recorded, Alive
  <2> QED BY <1>2, <1>3, <2>1, <2>2, <2>3, <2>4, <2>5, <2>6, <2>7, <2>8, <2>9, <2>10, <2>11,
             <2>12, <2>13, <2>14, <2>15, ProcessCases
<1> QED BY <1>2, <1>3

-----------------------------------------------------------------------------
(* Theorems. *)

LEMMA ProcessInductive == ProcessSpec => []ProcessInv
<1>1. ProcessInit => ProcessInv
  <2> SUFFICES ASSUME ProcessInit PROVE ProcessInv
    OBVIOUS
  <2>1. ProcessTypeOK
    BY DEF ProcessInit, Init, ProcessTypeOK, Places
  <2>2. Delivered
    BY DEF ProcessInit, Init, Delivered
  <2>3. ServerInv
    BY DEF ProcessInit, ServerInv, NoOpenStream
  <2>4. ResultInv
    BY DEF ProcessInit, ResultInv
  <2> QED BY <2>1, <2>2, <2>3, <2>4 DEF ProcessInv
<1>2. ProcessInv /\ [ProcessNext]_processVars => ProcessInv'
  BY ProcessTypeStep, DeliveredStep, ServerStep, ResultStep DEF ProcessInv
<1> QED BY <1>1, <1>2, PTL DEF ProcessSpec

\* Exit status 0 after serving means that every accepted event was consumed,
\* that a recording holds them all and that the printed counters say so;
\* status 2 and --help mean that no file and no server was touched.
THEOREM ExitZeroComplete == ProcessSpec => []ExitZeroIsComplete
<1>1. ASSUME ProcessInv PROVE ExitZeroIsComplete
  <2>1. ASSUME exit_code = "0", report # <<>>
        PROVE  /\ refused = <<>> /\ done = accepted
               /\ recorder # "none" => recorder = "good" /\ flushed = Len(accepted)
               /\ report[1].accepted = Len(accepted) /\ report[1].consumed = Len(done)
               /\ report[1].failures = 0 /\ report[1].signal # NoSignal
    <3>1. Drained /\ Recorded
      BY <1>1, <2>1 DEF ProcessInv, ResultInv
    <3>2. refused = <<>>
      BY <1>1, <3>1 DEF ProcessInv, Delivered, Recorded
    <3>3. Len(done) = Len(accepted)
      BY <1>1, <3>1, <3>2 DEF ProcessInv, ProcessTypeOK, Delivered, Drained, Pending
    <3>4. done = accepted
      BY <1>1, <3>3 DEF ProcessInv, ProcessTypeOK, Delivered
    <3>5. Len(refused) = 0
      BY <3>2
    <3> QED BY <1>1, <2>1, <3>1, <3>2, <3>4, <3>5 DEF ProcessInv, ResultInv, Recorded
  <2> QED BY <1>1, <2>1 DEF ExitZeroIsComplete, ProcessInv, ResultInv
<1> QED BY <1>1, ProcessInductive, PTL

\* The server outlives a monitor thread inside Shutdown(), and the sink is
\* shut down only when no stream is open.
THEOREM ObjectsOutlive == ProcessSpec => []ObjectsOutliveUsers
<1>1. ASSUME ProcessInv PROVE ObjectsOutliveUsers
  BY <1>1 DEF ObjectsOutliveUsers, ProcessInv, ServerInv, NoOpenStream
<1> QED BY <1>1, ProcessInductive, PTL

-----------------------------------------------------------------------------
(* The sensor client. *)

StartStates == {"none", "connecting", "committing", "cleanup", "returned", "failed",
                "locating", "done"}
StopStates == {"none", "cancelling", "closing", "done"}
SessionStates == {"none", "connecting", "ready", "open", "closing", "shut", "terminated"}

ClientTypeOK ==
    /\ isRunning \in BOOLEAN /\ publisherStarted \in BOOLEAN
    /\ disposed \in BOOLEAN /\ overlapped \in BOOLEAN
    /\ held \in [Kinds -> Starts \cup {None}]
    /\ active \in SUBSET (Kinds \X Starts)
    /\ start \in [Starts -> StartStates]
    /\ stop \in [Stops \cup {Disposal} -> StopStates]
    /\ closing \in [Stops \cup {Disposal} -> Starts \cup {None}]
    /\ \A j \in Stops \cup {Disposal} : stop[j] = "closing" => closing[j] \in Starts
    /\ session \in [Starts -> SessionStates]
    /\ events \in Starts \cup {None}
    /\ nextSequenceNumber \in Nat
    /\ sent \in [Starts -> Seq(Nat)]

\* The stream in use has got exactly the numbers below the next one, and
\* nothing is sent on a stream before its start() has committed it.
Numbering ==
    /\ events # None => Len(sent[events]) = nextSequenceNumber
    /\ \A k \in Starts :
         start[k] \in {"none", "connecting", "committing"} => sent[k] = <<>> /\ events # k

NumberInv == ClientTypeOK /\ Numbering /\ ContiguousNumbers

Idle == {"none", "done"}

\* One call at a time.
OneCall ==
    /\ \A k \in Starts : start[k] \notin Idle =>
         /\ isRunning /\ ~disposed
         /\ \A i \in Starts \ {k} : start[i] \in Idle
         /\ \A j \in Stops \cup {Disposal} : stop[j] \in Idle
    /\ \A j \in Stops \cup {Disposal} : stop[j] \notin Idle =>
         /\ ~isRunning \/ disposed
         /\ \A i \in (Stops \cup {Disposal}) \ {j} : stop[i] \in Idle
         /\ \A k \in Starts : start[k] \in Idle

\* The stream the publisher refers to, by the place of the suspended call.
Stream ==
    /\ \A k \in Starts :
         /\ start[k] \in {"connecting", "committing", "cleanup", "failed"} =>
              events = None
         /\ start[k] = "returned" => events # None
         /\ start[k] = "locating" => publisherStarted = (events # None)
    /\ \A j \in Stops \cup {Disposal} :
         /\ stop[j] = "cancelling" => publisherStarted = (events # None)
         /\ stop[j] = "closing" => events = None /\ ~publisherStarted
    /\ Quiet => publisherStarted = (events # None)
    /\ Quiet /\ (~isRunning \/ disposed) => events = None

\* Everything that is not cancelled is referred to by the controller.
Objects ==
    /\ \A o \in active : o[2] = held[o[1]]
    /\ \A k \in Starts :
         /\ start[k] \in {"connecting", "committing", "cleanup", "returned", "failed"} =>
              active = {}
         /\ start[k] = "locating" => \A o \in active : o[1] # "location"
    /\ ~isRunning \/ disposed => active = {}

\* A live session belongs to a call or is the publisher's.
Sessions ==
    \A k \in Starts :
      /\ session[k] = "connecting" => start[k] = "connecting"
      /\ session[k] = "ready" => start[k] = "committing"
      /\ session[k] = "open" => events = k
      /\ session[k] = "closing" =>
           \E j \in Stops \cup {Disposal} : stop[j] = "closing" /\ closing[j] = k

Sequential == OneCall /\ Stream /\ Objects /\ Sessions

ReleaseInv == ClientTypeOK /\ (~overlapped => Sequential)

-----------------------------------------------------------------------------
(* Every step of the client is one of these. *)

LEMMA ClientCases ==
    ASSUME ClientNext
    PROVE  \/ \E k \in Starts : StartCall(k)
           \/ \E k \in Starts : ConnectionReady(k)
           \/ \E k \in Starts : Commit(k)
           \/ \E k \in Starts : ConnectionFails(k)
           \/ \E k \in Starts : CleanupDone(k)
           \/ \E k \in Starts : ContinueStart(k)
           \/ \E k \in Starts : Located(k)
           \/ \E j \in Stops : StopCall(j)
           \/ \E j \in Stops : SubscriptionsCancelled(j)
           \/ \E j \in Stops \cup {Disposal} : StreamAcknowledged(j)
           \/ \E j \in Stops \cup {Disposal} : StreamNotAcknowledged(j)
           \/ Dispose
           \/ \E o \in Kinds \X Starts : Sample(o)
BY DEF ClientNext, StartStep, StopStep

LEMMA CallNumbers ==
    /\ Starts \subseteq Nat \ {0} /\ Stops \subseteq Nat \ {0}
    /\ None \notin Starts /\ Disposal \notin Stops
    /\ None = 0 /\ Disposal = 0
BY BoundsAssumption DEF Starts, Stops, None, Disposal

\* The call that is made is a new one.
LEMMA FreshCall ==
    /\ \A k \in Starts : start \in [Starts -> StartStates] /\ Fresh(start, k) => start[k] = "none"
    /\ \A j \in Stops : stop \in [Stops \cup {Disposal} -> StopStates] /\ Fresh(stop, j)
         => stop[j] = "none"
BY CallNumbers DEF Fresh

-----------------------------------------------------------------------------
(* Types. *)

LEMMA StateNames ==
    /\ "connecting" \in StartStates /\ "committing" \in StartStates
    /\ "cleanup" \in StartStates /\ "returned" \in StartStates /\ "failed" \in StartStates
    /\ "locating" \in StartStates /\ "done" \in StartStates
    /\ "cancelling" \in StopStates /\ "closing" \in StopStates /\ "done" \in StopStates
    /\ "connecting" \in SessionStates /\ "ready" \in SessionStates
    /\ "open" \in SessionStates /\ "closing" \in SessionStates
    /\ "shut" \in SessionStates /\ "terminated" \in SessionStates
BY DEF StartStates, StopStates, SessionStates

LEMMA ClientTypeInit == ASSUME ClientInit PROVE ClientTypeOK
<1>1. sent \in [Starts -> Seq(Nat)]
  BY DEF ClientInit
<1> QED BY <1>1, CallNumbers
        DEF ClientInit, ClientTypeOK, StartStates, StopStates, SessionStates

LEMMA StopPublisherType ==
    ASSUME ClientTypeOK, NEW j \in Stops \cup {Disposal}, StopPublisher(j)
    PROVE  /\ publisherStarted' \in BOOLEAN
           /\ stop' \in [Stops \cup {Disposal} -> StopStates]
           /\ closing' \in [Stops \cup {Disposal} -> Starts \cup {None}]
           /\ \A i \in Stops \cup {Disposal} : stop'[i] = "closing" => closing'[i] \in Starts
           /\ session' \in [Starts -> SessionStates]
           /\ events' \in Starts \cup {None}
<1>1. CASE events = None
  BY <1>1, StateNames DEF ClientTypeOK, StopPublisher
<1>2. CASE events # None
  <2>1. /\ events \in Starts /\ publisherStarted' = FALSE /\ events' = None
        /\ stop' = [stop EXCEPT ![j] = "closing"]
        /\ closing' = [closing EXCEPT ![j] = events]
        /\ session' = [session EXCEPT ![events] = "closing"]
    BY <1>2 DEF ClientTypeOK, StopPublisher
  <2> QED BY <2>1, StateNames DEF ClientTypeOK
<1> QED BY <1>1, <1>2

LEMMA ClientTypeStep == ASSUME ClientTypeOK, [ClientNext]_clientVars PROVE ClientTypeOK'
<1> USE StateNames DEF ClientTypeOK, Kinds
<1>1. CASE UNCHANGED clientVars
  BY <1>1 DEF clientVars, controllerVars, publisherVars, streamVars
<1>2. CASE ClientNext
  <2> USE DEF controllerVars, publisherVars, streamVars, Goto, Call
  <2>1. ASSUME NEW k \in Starts, StartCall(k) PROVE ClientTypeOK'
    BY <2>1 DEF StartCall, PublisherStart
  <2>2. ASSUME NEW k \in Starts,
               ConnectionReady(k) \/ ConnectionFails(k) \/ CleanupDone(k)
        PROVE  ClientTypeOK'
    <3>1. CASE ConnectionReady(k)
      BY <3>1 DEF ConnectionReady
    <3>2. CASE ConnectionFails(k)
      BY <3>2 DEF ConnectionFails
    <3>3. CASE CleanupDone(k)
      BY <3>3 DEF CleanupDone
    <3> QED BY <2>2, <3>1, <3>2, <3>3
  <2>3. ASSUME NEW k \in Starts, Commit(k) PROVE ClientTypeOK'
    BY <2>3 DEF Commit, FirstSequenceNumber
  <2>4. ASSUME NEW k \in Starts, ContinueStart(k) PROVE ClientTypeOK'
    BY <2>4 DEF ContinueStart
  <2>5. ASSUME NEW k \in Starts, Located(k) PROVE ClientTypeOK'
    BY <2>5 DEF Located
  <2>6. ASSUME NEW j \in Stops, StopCall(j) PROVE ClientTypeOK'
    BY <2>6 DEF StopCall
  <2>7. ASSUME NEW j \in Stops, SubscriptionsCancelled(j) PROVE ClientTypeOK'
    <3>1. CASE HasStream /\ StopPublisher(j)
      BY <2>7, <3>1, StopPublisherType DEF SubscriptionsCancelled
    <3>2. CASE ~HasStream
      BY <2>7, <3>2 DEF SubscriptionsCancelled
    <3> QED BY <2>7, <3>1, <3>2 DEF SubscriptionsCancelled
  <2>8. ASSUME NEW j \in Stops \cup {Disposal},
               StreamAcknowledged(j) \/ StreamNotAcknowledged(j)
        PROVE  ClientTypeOK'
    <3>1. closing[j] \in Starts /\ closing' = closing
      BY <2>8 DEF StreamAcknowledged, StreamNotAcknowledged
    <3>2. stop' = [stop EXCEPT ![j] = "done"]
      BY <2>8 DEF StreamAcknowledged, StreamNotAcknowledged
    <3>3. session' \in [Starts -> SessionStates]
      BY <2>8, <3>1 DEF StreamAcknowledged, StreamNotAcknowledged
    <3> QED BY <2>8, <3>1, <3>2, <3>3 DEF StreamAcknowledged, StreamNotAcknowledged
  <2>9. CASE Dispose
    <3>1. CASE HasStream /\ StopPublisher(Disposal)
      BY <2>9, <3>1, StopPublisherType DEF Dispose
    <3>2. CASE ~HasStream
      BY <2>9, <3>2 DEF Dispose
    <3> QED BY <2>9, <3>1, <3>2 DEF Dispose
  <2>10. ASSUME NEW o \in Kinds \X Starts, Sample(o) PROVE ClientTypeOK'
    <3>1. sent' \in [Starts -> Seq(Nat)]
      BY <2>10 DEF Sample, Publish, Add
    <3> QED BY <2>10, <3>1 DEF Sample, Publish
  <2> QED BY <1>2, <2>1, <2>2, <2>3, <2>4, <2>5, <2>6, <2>7, <2>8, <2>9, <2>10, ClientCases
<1> QED BY <1>1, <1>2

-----------------------------------------------------------------------------
(* The numbers on the streams. *)

LEMMA NumberStep ==
    ASSUME NumberInv, [ClientNext]_clientVars
    PROVE  Numbering' /\ ContiguousNumbers'
<1> USE CallNumbers DEF NumberInv
<1> DEFINE Goal == Numbering' /\ ContiguousNumbers'
           \* Nothing is sent, no stream is put into use, no start() goes back.
           Still == /\ sent' = sent /\ nextSequenceNumber' = nextSequenceNumber
                    /\ events' \in {events, None}
                    /\ \A k \in Starts :
                         start'[k] \in {"none", "connecting", "committing"} =>
                           start[k] \in {"none", "connecting", "committing"}
<1>0. Still => Goal
  BY DEF Numbering, ContiguousNumbers
<1>1. CASE UNCHANGED clientVars
  BY <1>0, <1>1 DEF clientVars, publisherVars, streamVars
<1>2. CASE ClientNext
  <2> USE DEF controllerVars, publisherVars, streamVars, Goto
  <2>1. ASSUME NEW k \in Starts, StartCall(k) PROVE Still
    BY <2>1, FreshCall DEF StartCall, PublisherStart, ClientTypeOK
  <2>2. ASSUME NEW k \in Starts,
               \/ ConnectionReady(k) \/ ConnectionFails(k) \/ CleanupDone(k)
               \/ ContinueStart(k) \/ Located(k)
        PROVE  Still
    BY <2>2 DEF ConnectionReady, ConnectionFails, CleanupDone, ContinueStart, Located,
                ClientTypeOK
  <2>3. ASSUME NEW k \in Starts, Commit(k) PROVE Goal
    <3>1. sent'[k] = <<>> /\ events' = k /\ nextSequenceNumber' = 0 /\ sent' = sent
      BY <2>3 DEF Commit, FirstSequenceNumber, Numbering
    <3>2. \A i \in Starts : start'[i] = IF i = k THEN "returned" ELSE start[i]
      BY <2>3 DEF Commit, ClientTypeOK
    <3> QED BY <3>1, <3>2 DEF Numbering, ContiguousNumbers
  <2>4. ASSUME NEW j \in Stops, StopCall(j) \/ SubscriptionsCancelled(j) PROVE Still
    BY <2>4 DEF StopCall, SubscriptionsCancelled, StopPublisher
  <2>5. ASSUME NEW j \in Stops \cup {Disposal},
               StreamAcknowledged(j) \/ StreamNotAcknowledged(j)
        PROVE  Still
    BY <2>5 DEF StreamAcknowledged, StreamNotAcknowledged
  <2>6. ASSUME Dispose PROVE Still
    BY <2>6 DEF Dispose, StopPublisher
  <2>7. ASSUME NEW o \in Kinds \X Starts, Sample(o) PROVE Goal
    <3>1. /\ events' = events /\ start' = start /\ nextSequenceNumber \in Nat
          /\ nextSequenceNumber' = nextSequenceNumber + 1
          /\ sent \in [Starts -> Seq(Nat)]
      BY <2>7 DEF Sample, Publish, ClientTypeOK
    <3>2. \A k \in Starts :
            sent'[k] = IF k = events THEN Append(sent[k], nextSequenceNumber) ELSE sent[k]
      BY <2>7 DEF Sample, Publish, Add
    <3>3. CASE events = None
      <4>1. \A k \in Starts : sent'[k] = sent[k]
        BY <3>2, <3>3
      <4>2. Numbering'
        BY <3>1, <3>3, <4>1 DEF Numbering
      <4>3. ContiguousNumbers'
        BY <4>1 DEF ContiguousNumbers
      <4> QED BY <4>2, <4>3
    <3>4. CASE events # None
      <4>1. events \in Starts /\ Len(sent[events]) = nextSequenceNumber
        BY <3>4 DEF Numbering, ClientTypeOK
      <4>2. /\ Len(sent'[events]) = nextSequenceNumber + 1
            /\ \A i \in 1 .. Len(sent[events]) : sent'[events][i] = sent[events][i]
            /\ sent'[events][nextSequenceNumber + 1] = nextSequenceNumber
        <5>1. sent'[events] = Append(sent[events], nextSequenceNumber)
          BY <3>2, <4>1
        <5>2. sent[events] \in Seq(Nat)
          BY <3>1, <4>1
        <5> QED BY <3>1, <4>1, <5>1, <5>2, AppendProperties
      <4>3. ASSUME NEW i \in 1 .. nextSequenceNumber + 1 PROVE sent'[events][i] = i - 1
        <5>1. CASE i = nextSequenceNumber + 1
          BY <3>1, <4>2, <5>1
        <5>2. CASE i # nextSequenceNumber + 1
          <6>1. i \in 1 .. Len(sent[events])
            BY <3>1, <4>1, <5>2
          <6> QED BY <4>1, <4>2, <6>1 DEF ContiguousNumbers
        <5> QED BY <5>1, <5>2
      <4>4. ContiguousNumbers'
        <5>1. ASSUME NEW k \in Starts, NEW i \in 1 .. Len(sent'[k]) PROVE sent'[k][i] = i - 1
          <6>1. CASE k = events
            BY <4>2, <4>3, <6>1
          <6>2. CASE k # events
            BY <3>2, <6>2 DEF ContiguousNumbers
          <6> QED BY <6>1, <6>2
        <5> QED BY <5>1 DEF ContiguousNumbers
      <4> QED BY <3>1, <3>2, <4>1, <4>2, <4>4 DEF Numbering
    <3> QED BY <3>3, <3>4
  <2> QED BY <1>0, <1>2, <2>1, <2>2, <2>3, <2>4, <2>5, <2>6, <2>7, ClientCases
<1> QED BY <1>1, <1>2

\* Every stream carries the numbers 0, 1, 2, ... whatever calls overlap and
\* however often the client reconnects.
THEOREM NumbersContiguous == ClientSpec => []ContiguousNumbers
<1>1. ClientInit => NumberInv
  <2> SUFFICES ASSUME ClientInit PROVE NumberInv
    OBVIOUS
  <2>1. events = None /\ \A k \in Starts : sent[k] = <<>> /\ Len(sent[k]) = 0
    BY DEF ClientInit
  <2>2. Numbering /\ ContiguousNumbers
    <3>1. ContiguousNumbers
      BY <2>1 DEF ContiguousNumbers
    <3>2. Numbering
      BY <2>1, CallNumbers DEF Numbering
    <3> QED BY <3>1, <3>2
  <2> QED BY <2>2, ClientTypeInit DEF NumberInv
<1>2. NumberInv /\ [ClientNext]_clientVars => NumberInv'
  BY ClientTypeStep, NumberStep DEF NumberInv
<1>3. NumberInv => ContiguousNumbers
  BY DEF NumberInv
<1> QED BY <1>1, <1>2, <1>3, PTL DEF ClientSpec
-----------------------------------------------------------------------------
(* What calls that do not overlap leave behind. *)

LEMMA NotOverlapped ==
    ASSUME ClientTypeOK, [ClientNext]_clientVars, ~overlapped'
    PROVE  ~overlapped
<1> USE DEF Call, controllerVars
<1>1. CASE UNCHANGED clientVars
  BY <1>1 DEF clientVars
<1>2. CASE ClientNext
  <2>1. ASSUME NEW k \in Starts,
               \/ StartCall(k) \/ ConnectionReady(k) \/ Commit(k) \/ ConnectionFails(k)
               \/ CleanupDone(k) \/ ContinueStart(k) \/ Located(k)
        PROVE  ~overlapped
    BY <2>1 DEF StartCall, ConnectionReady, Commit, ConnectionFails, CleanupDone,
                ContinueStart, Located
  <2>2. ASSUME NEW j \in Stops, StopCall(j) \/ SubscriptionsCancelled(j) PROVE ~overlapped
    BY <2>2 DEF StopCall, SubscriptionsCancelled
  <2>3. ASSUME NEW j \in Stops \cup {Disposal},
               StreamAcknowledged(j) \/ StreamNotAcknowledged(j)
        PROVE  ~overlapped
    BY <2>3 DEF StreamAcknowledged, StreamNotAcknowledged
  <2>4. ASSUME Dispose PROVE ~overlapped
    BY <2>4 DEF Dispose
  <2>5. ASSUME NEW o \in Kinds \X Starts, Sample(o) PROVE ~overlapped
    BY <2>5 DEF Sample
  <2> QED BY <1>2, <2>1, <2>2, <2>3, <2>4, <2>5, ClientCases
<1> QED BY <1>1, <1>2

\* The steps of a start() that is the only suspended call.
LEMMA StartRelease ==
    ASSUME ClientTypeOK, Sequential, NEW k \in Starts, start[k] \notin Idle,
           \/ ConnectionReady(k) \/ Commit(k) \/ ConnectionFails(k) \/ CleanupDone(k)
           \/ ContinueStart(k) \/ Located(k)
    PROVE  Sequential'
<1> DEFINE Calls == Stops \cup {Disposal}
<1>1. /\ isRunning /\ ~disposed /\ stop' = stop /\ closing' = closing
      /\ isRunning' = isRunning /\ disposed' = disposed
      /\ \A i \in Starts \ {k} : start[i] \in Idle /\ start'[i] = start[i]
      /\ \A j \in Calls : stop[j] \in Idle
  BY DEF Sequential, OneCall, ConnectionReady, Commit, ConnectionFails, CleanupDone,
         ContinueStart, Located, Goto, controllerVars, ClientTypeOK
<1>2. OneCall'
  BY <1>1 DEF OneCall
<1>3. ~Quiet
  BY DEF Quiet, Idle
<1>4. ~Quiet' \/ start'[k] = "done"
  BY <1>1 DEF Quiet, Idle, ConnectionReady, Commit, ConnectionFails, CleanupDone,
              ContinueStart, Located, Goto, ClientTypeOK
<1>5. CASE ConnectionReady(k)
  <2>1. /\ start[k] = "connecting" /\ start'[k] = "committing" /\ UNCHANGED <<controllerVars, events>>
        /\ session'[k] = "ready" /\ \A i \in Starts \ {k} : session'[i] = session[i]
    BY <1>5 DEF ConnectionReady, Goto, streamVars, ClientTypeOK
  <2>2. Stream' /\ Objects'
    BY <1>1, <1>4, <2>1 DEF Sequential, Stream, Objects, Idle, controllerVars
  <2>3. Sessions'
    BY <1>1, <2>1 DEF Sequential, Sessions
  <2> QED BY <1>2, <2>2, <2>3 DEF Sequential
<1>6. CASE Commit(k)
  <2>1. /\ start[k] = "committing" /\ start'[k] = "returned" /\ UNCHANGED controllerVars
        /\ events = None /\ events' = k /\ events' # None
        /\ session'[k] = "open" /\ \A i \in Starts \ {k} : session'[i] = session[i]
    BY <1>6, CallNumbers DEF Commit, Goto, ClientTypeOK, Sequential, Stream
  <2>2. Stream' /\ Objects'
    BY <1>1, <1>4, <2>1 DEF Sequential, Stream, Objects, Idle, controllerVars
  <2>3. Sessions'
    BY <1>1, <2>1, CallNumbers DEF Sequential, Sessions
  <2> QED BY <1>2, <2>2, <2>3 DEF Sequential
<1>7. CASE ConnectionFails(k)
  <2>1. /\ start[k] = "connecting" /\ start'[k] = "cleanup" /\ UNCHANGED <<controllerVars, events>>
        /\ session'[k] = "terminated" /\ \A i \in Starts \ {k} : session'[i] = session[i]
    BY <1>7 DEF ConnectionFails, Goto, streamVars, ClientTypeOK
  <2>2. Stream' /\ Objects'
    BY <1>1, <1>4, <2>1 DEF Sequential, Stream, Objects, Idle, controllerVars
  <2>3. Sessions'
    BY <1>1, <2>1 DEF Sequential, Sessions
  <2> QED BY <1>2, <2>2, <2>3 DEF Sequential
<1>8. CASE CleanupDone(k)
  <2>1. /\ start[k] = "cleanup" /\ start'[k] = "failed"
        /\ UNCHANGED <<controllerVars, events, session>>
    BY <1>8 DEF CleanupDone, Goto, publisherVars, streamVars, ClientTypeOK
  <2>2. Stream' /\ Objects'
    BY <1>1, <1>4, <2>1 DEF Sequential, Stream, Objects, Idle, controllerVars
  <2>3. Sessions'
    BY <1>1, <2>1 DEF Sequential, Sessions
  <2> QED BY <1>2, <2>2, <2>3 DEF Sequential
<1>9. CASE ContinueStart(k)
  <2>1. /\ start[k] \in {"returned", "failed"} /\ start'[k] = "locating"
        /\ publisherStarted' = (start[k] = "returned")
        /\ UNCHANGED <<events, session>>
    BY <1>9 DEF ContinueStart, Goto, publisherVars, streamVars, ClientTypeOK
  <2>2. /\ active = {} /\ active' = {<<"motion", k>>, <<"timer", k>>}
        /\ held'["motion"] = k /\ held'["timer"] = k
    BY <1>9, <2>1 DEF ContinueStart, ClientTypeOK, Kinds, Sequential, Objects
  <2>3. publisherStarted' = (events # None)
    BY <2>1 DEF Sequential, Stream
  <2>4. Stream'
    BY <1>1, <1>4, <2>1, <2>3 DEF Sequential, Stream, Idle
  <2>5. Objects'
    BY <1>1, <2>1, <2>2 DEF Objects, Idle
  <2>6. Sessions'
    BY <1>1, <2>1 DEF Sequential, Sessions
  <2> QED BY <1>2, <2>4, <2>5, <2>6 DEF Sequential
<1>10. CASE Located(k)
  <2>1. /\ start[k] = "locating" /\ start'[k] = "done"
        /\ UNCHANGED <<events, session, publisherStarted>>
    BY <1>10 DEF Located, Goto, publisherVars, streamVars, ClientTypeOK
  <2>2. Stream'
    BY <1>1, <2>1 DEF Sequential, Stream, Idle
  <2>3. \A o \in active' : o[2] = held'[o[1]]
    <3>1. CASE UNCHANGED <<held, active>>
      BY <3>1 DEF Sequential, Objects
    <3>2. CASE /\ held' = [held EXCEPT !["location"] = k]
               /\ active' = active \cup {<<"location", k>>}
      <4>1. held'["location"] = k /\ \A d \in Kinds \ {"location"} : held'[d] = held[d]
        BY <3>2 DEF ClientTypeOK, Kinds
      <4>2. \A o \in active : o[1] \in Kinds /\ o[1] # "location" /\ o[2] = held[o[1]]
        BY <2>1 DEF ClientTypeOK, Sequential, Objects
      <4> QED BY <3>2, <4>1, <4>2
    <3> QED BY <1>10, <3>1, <3>2 DEF Located
  <2>4. Objects'
    BY <1>1, <2>1, <2>3 DEF Objects, Idle
  <2>5. Sessions'
    BY <1>1, <2>1 DEF Sequential, Sessions
  <2> QED BY <1>2, <2>2, <2>4, <2>5 DEF Sequential
<1> QED BY <1>5, <1>6, <1>7, <1>8, <1>9, <1>10
\* publisher.stop() when the call that makes it is the only one.
LEMMA StopPublisherRelease ==
    ASSUME ClientTypeOK, Sequential, NEW j \in Stops \cup {Disposal}, StopPublisher(j),
           start' = start, isRunning' = isRunning, \A k \in Starts : start[k] \in Idle,
           \A i \in (Stops \cup {Disposal}) \ {j} : stop[i] \in Idle,
           stop[j] # "closing", ~isRunning \/ disposed', active' = {},
           disposed => disposed'
    PROVE  Sequential'
<1> DEFINE Calls == Stops \cup {Disposal}
<1>1. /\ publisherStarted' = FALSE /\ events' = None
      /\ \A i \in Calls \ {j} : stop'[i] = stop[i] /\ closing'[i] = closing[i]
  BY DEF StopPublisher, ClientTypeOK
<1>2. \/ stop'[j] = "done" /\ session' = session /\ events = None
      \/ /\ stop'[j] = "closing" /\ events \in Starts /\ closing'[j] = events
         /\ session' = [session EXCEPT ![events] = "closing"]
  BY DEF StopPublisher, ClientTypeOK
<1>3. OneCall'
  BY <1>1, <1>2 DEF OneCall, Idle
<1>4. Stream'
  BY <1>1, <1>2 DEF Stream, Idle
<1>5. Objects'
  BY DEF Objects
<1>6. \A i \in Starts : session[i] \notin {"connecting", "ready", "closing"}
  BY DEF Sequential, Sessions, Idle
<1>7. Sessions'
  <2>1. CASE events = None
    BY <1>2, <1>6, <2>1, CallNumbers DEF Sequential, Sessions
  <2>2. CASE events # None
    <3>1. session'[events] = "closing" /\ \A i \in Starts \ {events} : session'[i] = session[i]
      BY <1>2, <2>2, CallNumbers DEF ClientTypeOK
    <3> QED BY <1>2, <1>6, <2>2, <3>1 DEF Sequential, Sessions
  <2> QED BY <2>1, <2>2
<1> QED BY <1>3, <1>4, <1>5, <1>7 DEF Sequential

LEMMA ReleaseStep ==
    ASSUME ClientTypeOK, Sequential, ~overlapped', [ClientNext]_clientVars
    PROVE  Sequential'
<1> DEFINE Calls == Stops \cup {Disposal}
<1>1. CASE UNCHANGED clientVars
  BY <1>1 DEF clientVars, controllerVars, publisherVars, streamVars, Sequential, OneCall,
              Stream, Objects, Sessions, Quiet
<1>2. CASE ClientNext
  <2>1. ASSUME NEW k \in Starts, StartCall(k) PROVE Sequential'
    <3>1. Quiet /\ ~isRunning /\ ~disposed /\ isRunning' /\ ~disposed'
      BY <2>1 DEF StartCall, Call
    <3>2. events = None /\ active = {}
      BY <3>1 DEF Sequential, Stream, Objects
    <3>3. /\ start'[k] = "connecting" /\ \A i \in Starts \ {k} : start'[i] = start[i]
          /\ session'[k] = "connecting" /\ \A i \in Starts \ {k} : session'[i] = session[i]
          /\ UNCHANGED <<events, active, held, stop, closing, publisherStarted>>
      BY <2>1, <3>2 DEF StartCall, PublisherStart, Goto, streamVars, ClientTypeOK
    <3>4. OneCall'
      BY <3>1, <3>3 DEF OneCall, Quiet, Idle
    <3>5. Stream'
      BY <3>1, <3>2, <3>3 DEF Stream, Quiet
    <3>6. Objects'
      BY <3>1, <3>2, <3>3 DEF Objects
    <3>7. Sessions'
      BY <3>1, <3>3 DEF Sequential, Sessions, Quiet
    <3> QED BY <3>4, <3>5, <3>6, <3>7 DEF Sequential
  <2>2. ASSUME NEW k \in Starts,
               \/ ConnectionReady(k) \/ Commit(k) \/ ConnectionFails(k) \/ CleanupDone(k)
               \/ ContinueStart(k) \/ Located(k)
        PROVE  Sequential'
    <3>1. start[k] \notin Idle
      BY <2>2 DEF Idle, ConnectionReady, Commit, ConnectionFails, CleanupDone, ContinueStart,
                  Located
    <3> QED BY <2>2, <3>1, StartRelease
  <2>3. ASSUME NEW j \in Stops, StopCall(j) PROVE Sequential'
    <3>1. Quiet /\ ~disposed /\ ~isRunning' /\ ~disposed'
      BY <2>3 DEF StopCall, Call
    <3>2. active' = {}
      BY <2>3 DEF StopCall, HeldObjects, Sequential, Objects
    <3>3. /\ stop'[j] = "cancelling" /\ \A i \in Calls \ {j} : stop'[i] = stop[i]
          /\ UNCHANGED <<events, session, start, closing, publisherStarted>>
      BY <2>3 DEF StopCall, publisherVars, streamVars, ClientTypeOK
    <3>4. OneCall'
      BY <3>1, <3>3 DEF OneCall, Quiet, Idle
    <3>5. Stream'
      BY <3>1, <3>3 DEF Sequential, Stream, Quiet
    <3>6. Objects'
      BY <3>2 DEF Objects
    <3>7. Sessions'
      BY <3>1, <3>3 DEF Sequential, Sessions, Quiet
    <3> QED BY <3>4, <3>5, <3>6, <3>7 DEF Sequential
  <2>4. ASSUME NEW j \in Stops, SubscriptionsCancelled(j) PROVE Sequential'
    <3>1. /\ stop[j] = "cancelling"
          /\ ~isRunning \/ disposed
          /\ \A i \in Calls \ {j} : stop[i] \in Idle
          /\ \A k \in Starts : start[k] \in Idle
      BY <2>4 DEF SubscriptionsCancelled, Sequential, OneCall, Idle
    <3>2. active' = {} /\ UNCHANGED <<isRunning, disposed, start>>
      BY <2>4, <3>1 DEF SubscriptionsCancelled, Sequential, Objects
    <3>3. CASE HasStream /\ StopPublisher(j)
      BY <3>1, <3>2, <3>3, StopPublisherRelease
    <3>4. CASE ~HasStream
      <4>1. /\ stop'[j] = "done" /\ \A i \in Calls \ {j} : stop'[i] = stop[i]
            /\ UNCHANGED <<events, session, closing, publisherStarted>>
        BY <2>4, <3>4 DEF SubscriptionsCancelled, ClientTypeOK
      <4>2. events = None /\ publisherStarted = FALSE
        BY <3>1, <3>4 DEF Sequential, Stream, HasStream, ClientTypeOK
      <4>3. OneCall'
        BY <3>1, <3>2, <4>1 DEF OneCall, Idle
      <4>4. Stream'
        BY <3>1, <3>2, <4>1, <4>2 DEF Stream, Idle
      <4>5. Objects'
        BY <3>2 DEF Objects
      <4>6. Sessions'
        BY <3>1, <3>2, <4>1 DEF Sequential, Sessions, Idle
      <4> QED BY <4>3, <4>4, <4>5, <4>6 DEF Sequential
    <3> QED BY <2>4, <3>3, <3>4 DEF SubscriptionsCancelled
  <2>5. ASSUME NEW j \in Calls, StreamAcknowledged(j) \/ StreamNotAcknowledged(j)
        PROVE  Sequential'
    <3>1. /\ stop[j] = "closing" /\ closing[j] \in Starts
          /\ stop'[j] = "done" /\ \A i \in Calls \ {j} : stop'[i] = stop[i]
          /\ UNCHANGED <<controllerVars, events, start, closing>>
      BY <2>5 DEF StreamAcknowledged, StreamNotAcknowledged, streamVars, ClientTypeOK
    <3>2. /\ session'[closing[j]] \in {"shut", "terminated"}
          /\ \A i \in Starts \ {closing[j]} : session'[i] = session[i]
      BY <2>5, <3>1 DEF StreamAcknowledged, StreamNotAcknowledged, ClientTypeOK
    <3>3. /\ ~isRunning \/ disposed
          /\ \A i \in Calls \ {j} : stop[i] \in Idle
          /\ \A k \in Starts : start[k] \in Idle
      BY <3>1 DEF Sequential, OneCall, Idle
    <3>4. OneCall'
      BY <3>1, <3>3 DEF OneCall, Idle
    <3>5. Stream'
      <4>1. events = None /\ publisherStarted = FALSE
        BY <3>1 DEF Sequential, Stream, ClientTypeOK
      <4> QED BY <3>1, <3>3, <4>1 DEF Stream, Idle, controllerVars
    <3>6. Objects'
      BY <3>1 DEF Sequential, Objects, controllerVars
    <3>7. Sessions'
      BY <3>1, <3>2, <3>3 DEF Sequential, Sessions, Idle
    <3> QED BY <3>4, <3>5, <3>6, <3>7 DEF Sequential
  <2>6. ASSUME Dispose PROVE Sequential'
    <3>1. Quiet /\ ~disposed /\ disposed' /\ UNCHANGED <<isRunning, start>>
      BY <2>6 DEF Dispose, Call
    <3>2. active' = {}
      BY <2>6 DEF Dispose, HeldObjects, Sequential, Objects
    <3>3. CASE HasStream /\ StopPublisher(Disposal)
      BY <3>1, <3>2, <3>3, StopPublisherRelease DEF Quiet, Idle
    <3>4. CASE ~HasStream
      <4>1. UNCHANGED <<stop, events, session, closing, publisherStarted>>
        BY <2>6, <3>4 DEF Dispose
      <4>2. events = None /\ publisherStarted = FALSE
        BY <3>1, <3>4 DEF Sequential, Stream, HasStream, ClientTypeOK
      <4>3. OneCall'
        BY <3>1, <4>1 DEF OneCall, Quiet, Idle
      <4>4. Stream'
        BY <3>1, <4>1, <4>2 DEF Stream, Quiet
      <4>5. Objects'
        BY <3>2 DEF Objects
      <4>6. Sessions'
        BY <3>1, <4>1 DEF Sequential, Sessions
      <4> QED BY <4>3, <4>4, <4>5, <4>6 DEF Sequential
    <3> QED BY <2>6, <3>3, <3>4 DEF Dispose
  <2>7. ASSUME NEW o \in Kinds \X Starts, Sample(o) PROVE Sequential'
    BY <2>7 DEF Sample, controllerVars, Sequential, OneCall, Stream, Objects, Sessions, Quiet
  <2> QED BY <1>2, <2>1, <2>2, <2>3, <2>4, <2>5, <2>6, <2>7, ClientCases
<1> QED BY <1>1, <1>2

\* Once it is stopped or disposed of and no call is suspended, the client has
\* no sensor subscription, no timer and no live channel, after any number of
\* starts, refused connections and stops, if no call overlapped another.
THEOREM StopReleases == ClientSpec => []StopReleasesAll
<1>1. ClientInit => ReleaseInv
  <2> SUFFICES ASSUME ClientInit PROVE Sequential
    BY ClientTypeInit DEF ReleaseInv
  <2> QED BY DEF ClientInit, Sequential, OneCall, Stream, Objects, Sessions, Idle, Quiet
<1>2. ReleaseInv /\ [ClientNext]_clientVars => ReleaseInv'
  BY ClientTypeStep, NotOverlapped, ReleaseStep DEF ReleaseInv
<1>3. ReleaseInv => StopReleasesAll
  <2> SUFFICES ASSUME ClientTypeOK, Sequential, Quiet, ~isRunning \/ disposed PROVE Released
    BY DEF ReleaseInv, StopReleasesAll
  <2>1. events = None /\ active = {}
    BY DEF Sequential, Stream, Objects
  <2> QED BY <2>1, CallNumbers DEF Released, Sequential, Sessions, Quiet
<1> QED BY <1>1, <1>2, <1>3, PTL DEF ClientSpec
=============================================================================
