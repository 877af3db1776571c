-------------------------- MODULE CollectorProcess --------------------------
(***************************************************************************)
(* The collector process: run_collector in app/main.cpp.  The ingestion    *)
(* pipeline inside it is IngestPipeline, which the queued sink implements  *)
(* (QueuedSink); here it is closed by sink.shutdown() or by the worker     *)
(* after a recording failure.                                              *)
(*                                                                         *)
(* The actors are the main thread, the signal_monitor thread, the worker   *)
(* thread with its consumer, the gRPC server with the streams clients open *)
(* and the signals other processes send.  grpc::Server::Shutdown() without *)
(* a deadline refuses new streams and returns once every open one has      *)
(* finished; Wait() returns then too.                                      *)
(*                                                                         *)
(* main follows run_collector; from "leave" on, the function has returned  *)
(* and its locals are destroyed in reverse order of declaration: the       *)
(* jthread (a join), the server, the sink (a second shutdown) and the      *)
(* consumer (the recording file is closed).                                *)
(***************************************************************************)
EXTENDS IngestPipeline, CommandLine

CONSTANTS
    Streams,        \* streams clients may open
    Signals,        \* SIGINT and SIGTERM
    NoSignal,       \* the value 0 of g_shutdown_signal
    ArgumentLists,  \* the arguments of the command
    MaxOption,      \* the largest capacity, delay and flush interval
    MaxEvents       \* bound: number of events accepted

ASSUME SignalsAssumption == NoSignal \notin Signals
ASSUME MaxEventsAssumption == MaxEvents \in Nat

VARIABLES
    main,               \* where the main thread is
    exit_code,          \* what run_collector returned, or "killed" by a signal
    g_shutdown_signal,  \* g_shutdown_signal
    handled,            \* the signals request_shutdown is installed for
    server,             \* the gRPC server
    stream,             \* each stream of the server
    monitor,            \* the signal_monitor thread
    stop_requested,     \* its stop token
    recorder,           \* "none", "wanted", or whether the LogWriter is good
    flushed,            \* records that a flush has put into the file
    report              \* the final counters, once printed

pipelineVars == <<open, accepted, done, refused, stopped>>
resultVars == <<exit_code, report>>
signalVars == <<g_shutdown_signal, handled>>
serverVars == <<server, stream>>
monitorVars == <<monitor, stop_requested>>
recordVars == <<recorder, flushed>>
processVars == <<pipelineVars, main, resultVars, signalVars, serverVars, monitorVars,
                 recordVars>>

Alive == main # "exited"

ProcessInit ==
    /\ Init
    /\ main = "start"
    /\ exit_code = "none"
    /\ g_shutdown_signal = NoSignal
    /\ handled = {}
    /\ server = "none"
    /\ stream = [s \in Streams |-> "none"]
    /\ monitor = "none"
    /\ stop_requested = FALSE
    /\ recorder = "none"
    /\ flushed = 0
    /\ report = <<>>

Return(code) ==
    /\ main' = "leave"
    /\ exit_code' = code

-----------------------------------------------------------------------------
(* The main thread *)

\* What run_collector checks of an option's value.
CollectorOptions ==
    ("--listen" :> AnyText)
      @@ ("--output" :> {value \in AnyText : value.text # ""})
      @@ ("--queue-capacity" :> NumberIn(1 .. MaxOption))
      @@ ("--flush-every" :> NumberIn(1 .. MaxOption))
      @@ ("--consumer-delay-us" :> NumberIn(0 .. MaxOption))

\* The option loop; a delayed consumer cannot record.
ReadOptions(arguments) ==
    /\ main = "start"
    /\ LET line == ReadArguments(arguments, {}, CollectorOptions)
           records == Given(line, "--output")
           conflict == records /\ NumberOr(line, "--consumer-delay-us", 0) > 0
           exits(code) == main' = "exited" /\ exit_code' = code /\ UNCHANGED recorder
       IN  \/ line.outcome = "help" /\ exits("0")
           \/ (line.outcome = "error" \/ (line.outcome = "run" /\ conflict)) /\ exits("2")
           \/ /\ line.outcome = "run" /\ ~conflict
              /\ main' = "consumer"
              /\ recorder' = IF records THEN "wanted" ELSE "none"
              /\ UNCHANGED exit_code
    /\ UNCHANGED <<pipelineVars, signalVars, serverVars, monitorVars, flushed, report>>

\* The consumer: the counting one, a recording, or a recording that cannot be
\* created, with which run_collector returns before anything else exists.
MakeConsumer ==
    /\ main = "consumer"
    /\ \/ recorder = "none" /\ main' = "build" /\ UNCHANGED <<exit_code, recorder>>
       \/ /\ recorder = "wanted"
          /\ \/ main' = "build" /\ recorder' = "good" /\ UNCHANGED exit_code
             \/ main' = "exited" /\ exit_code' = "1" /\ UNCHANGED recorder
    /\ UNCHANGED <<pipelineVars, signalVars, serverVars, monitorVars, flushed, report>>

\* The sink, the service and the server; the address may be unusable.
BuildAndStart ==
    /\ main = "build"
    /\ \/ main' = "install" /\ server' = "running" /\ UNCHANGED exit_code
       \/ Return("1") /\ UNCHANGED server
    /\ UNCHANGED <<pipelineVars, signalVars, stream, monitorVars, recordVars, report>>

InstallHandlers ==
    /\ main = "install"
    /\ g_shutdown_signal' = NoSignal
    /\ handled' = Signals
    /\ main' = "serve"
    /\ UNCHANGED <<pipelineVars, resultVars, serverVars, monitorVars, recordVars>>

StartMonitor ==
    /\ main = "serve"
    /\ monitor' = "polling"
    /\ main' = "wait"
    /\ UNCHANGED <<pipelineVars, resultVars, signalVars, serverVars, stop_requested,
                   recordVars>>

\* server->Wait().
WaitReturns ==
    /\ main = "wait"
    /\ server = "down"
    /\ main' = "request_stop"
    /\ UNCHANGED <<pipelineVars, resultVars, signalVars, serverVars, monitorVars,
                   recordVars>>

RequestStop ==
    /\ main = "request_stop"
    /\ stop_requested' = TRUE
    /\ main' = "shutdown"
    /\ UNCHANGED <<pipelineVars, resultVars, signalVars, serverVars, monitor, recordVars>>

\* sink.shutdown(): close the queue, then join the worker.
ShutdownSink ==
    /\ main = "shutdown"
    /\ Shut
    /\ main' = "join"
    /\ UNCHANGED <<resultVars, signalVars, serverVars, monitorVars, recordVars>>

SinkJoined ==
    /\ main = "join"
    /\ Stop
    /\ main' = "flush"
    /\ UNCHANGED <<resultVars, signalVars, serverVars, monitorVars, recordVars>>

\* Mutant: a writer that failed before may flush what it has.
FlushReturnsAny == BOOLEAN

\* recorder->flush() fails on a writer that is not good, and may fail on one
\* that is.
FlushReturns == IF recorder = "good" THEN BOOLEAN ELSE {FALSE}

\* run_collector returns 1 when the flush of a recording fails.
Flush ==
    /\ main = "flush"
    /\ \/ recorder = "none" /\ main' = "report" /\ UNCHANGED <<exit_code, recordVars>>
       \/ /\ recorder # "none"
          /\ TRUE \in FlushReturns
          /\ flushed' = Len(done)
          /\ main' = "report"
          /\ UNCHANGED <<exit_code, recorder>>
       \/ /\ recorder # "none"
          /\ FALSE \in FlushReturns
          /\ recorder' = "bad"
          /\ Return("1")
          /\ UNCHANGED flushed
    /\ UNCHANGED <<pipelineVars, signalVars, serverVars, monitorVars, report>>

\* The counters are printed, the previous handlers restored, and 0 returned.
Report ==
    /\ main = "report"
    /\ report' = <<[accepted |-> Len(accepted), consumed |-> Len(done),
                    failures |-> Len(refused), signal |-> g_shutdown_signal]>>
    /\ handled' = {}
    /\ Return("0")
    /\ UNCHANGED <<pipelineVars, g_shutdown_signal, serverVars, monitorVars, recordVars>>

\* Mutant: the thread is detached and the server destroyed under it.
MonitorDetached == TRUE

MonitorJoined == monitor \in {"none", "finished"}

\* ~jthread joins the monitor; then the server is destroyed.
Leave ==
    /\ main = "leave"
    /\ MonitorJoined
    /\ server' = "destroyed"
    /\ main' = "destroy"
    /\ UNCHANGED <<pipelineVars, resultVars, signalVars, stream, monitorVars, recordVars>>

\* ~QueuedTelemetrySink: shutdown() once more, with nothing to do unless the
\* server never started.
DestroySink ==
    /\ main = "destroy"
    /\ \/ open /\ Shut /\ UNCHANGED main
       \/ ~open /\ Stop /\ main' = "close"
    /\ UNCHANGED <<resultVars, signalVars, serverVars, monitorVars, recordVars>>

\* ~LogWriter flushes without looking at the result.
CloseRecording ==
    /\ main = "close"
    /\ flushed' \in (IF recorder = "good" THEN {flushed, Len(done)} ELSE {flushed})
    /\ main' = "exited"
    /\ UNCHANGED <<pipelineVars, resultVars, signalVars, serverVars, monitorVars,
                   recorder>>

-----------------------------------------------------------------------------
(* The signal_monitor thread and the signals *)

\* Mutant: the monitor looks at the stop token only.
PollingEndsOnStop == stop_requested

PollingEnds == stop_requested \/ g_shutdown_signal # NoSignal

\* The polling loop ends; after a signal the server is told to shut down.
MonitorWakes ==
    /\ Alive
    /\ monitor = "polling"
    /\ PollingEnds
    /\ \/ /\ g_shutdown_signal # NoSignal
          /\ monitor' = "in_shutdown"
          /\ server' = "stopping"
       \/ /\ g_shutdown_signal = NoSignal
          /\ monitor' = "finished"
          /\ UNCHANGED server
    /\ UNCHANGED <<pipelineVars, main, resultVars, signalVars, stream, stop_requested,
                   recordVars>>

\* server->Shutdown() returns.
MonitorFinishes ==
    /\ Alive
    /\ monitor = "in_shutdown"
    /\ server = "down"
    /\ monitor' = "finished"
    /\ UNCHANGED <<pipelineVars, main, resultVars, signalVars, serverVars, stop_requested,
                   recordVars>>

\* A signal arrives: request_shutdown, or the default action.
Signal(s) ==
    /\ Alive
    /\ \/ /\ s \in handled
          /\ g_shutdown_signal' = s
          /\ UNCHANGED <<main, exit_code>>
       \/ /\ s \notin handled
          /\ main' = "exited"
          /\ exit_code' = "killed"
          /\ UNCHANGED g_shutdown_signal
    /\ UNCHANGED <<pipelineVars, handled, serverVars, monitorVars, recordVars, report>>

-----------------------------------------------------------------------------
(* The gRPC server and its clients *)

ServerDown ==
    /\ Alive
    /\ server = "stopping"
    /\ \A s \in Streams : stream[s] # "open"
    /\ server' = "down"
    /\ UNCHANGED <<pipelineVars, main, resultVars, signalVars, stream, monitorVars,
                   recordVars>>

OpenStream(s) ==
    /\ Alive
    /\ server = "running"
    /\ stream[s] = "none"
    /\ stream' = [stream EXCEPT ![s] = "open"]
    /\ UNCHANGED <<pipelineVars, main, resultVars, signalVars, server, monitorVars,
                   recordVars>>

\* An event is accepted and the stream goes on, or it is refused (an invalid
\* event, a full or a closed queue) and the stream is finished.
StreamEvent(s) ==
    /\ Alive
    /\ stream[s] = "open"
    /\ \/ Len(accepted) < MaxEvents /\ Accept /\ UNCHANGED stream
       \/ stream' = [stream EXCEPT ![s] = "finished"] /\ UNCHANGED pipelineVars
    /\ UNCHANGED <<main, resultVars, signalVars, server, monitorVars, recordVars>>

\* The client half-closes the stream, or is gone.
EndStream(s) ==
    /\ Alive
    /\ stream[s] = "open"
    /\ stream' = [stream EXCEPT ![s] = "finished"]
    /\ UNCHANGED <<pipelineVars, main, resultVars, signalVars, server, monitorVars,
                   recordVars>>

-----------------------------------------------------------------------------
(* The worker thread *)

\* consume returns true; a recording is flushed now and then.
Consume ==
    /\ Alive
    /\ Deliver
    /\ flushed' \in (IF recorder = "good" THEN {flushed, Len(done) + 1} ELSE {flushed})
    /\ UNCHANGED <<main, resultVars, signalVars, serverVars, monitorVars, recorder>>

\* consume returns false, which only a recording does.
ConsumeFails ==
    /\ Alive
    /\ recorder = "good"
    /\ Refuse
    /\ recorder' = "bad"
    /\ UNCHANGED <<main, resultVars, signalVars, serverVars, monitorVars, flushed>>

\* The worker closes the queue after a failure.
WorkerCloses ==
    /\ Alive
    /\ refused # <<>>
    /\ Shut
    /\ UNCHANGED <<main, resultVars, signalVars, serverVars, monitorVars, recordVars>>

-----------------------------------------------------------------------------

\* The command is given; what follows is up to the main thread.
Command == \E arguments \in ArgumentLists : ReadOptions(arguments)

MainThread ==
    \/ MakeConsumer \/ BuildAndStart \/ InstallHandlers \/ StartMonitor
    \/ WaitReturns \/ RequestStop \/ ShutdownSink \/ SinkJoined
    \/ Flush \/ Report \/ Leave \/ DestroySink \/ CloseRecording

Terminated == main = "exited" /\ UNCHANGED processVars

ProcessNext ==
    \/ Command
    \/ MainThread
    \/ MonitorWakes \/ MonitorFinishes
    \/ \E s \in Signals : Signal(s)
    \/ ServerDown
    \/ \E s \in Streams : OpenStream(s) \/ StreamEvent(s) \/ EndStream(s)
    \/ Consume \/ ConsumeFails \/ WorkerCloses
    \/ Terminated

\* The threads of the process run, gRPC finishes a shutdown it can finish,
\* and consume returns.  Nobody has to give the command, and nothing is assumed
\* of clients and signals.
ProcessFairness ==
    /\ WF_processVars(MainThread)
    /\ WF_processVars(MonitorWakes \/ MonitorFinishes)
    /\ WF_processVars(ServerDown)
    /\ WF_processVars(Consume \/ ConsumeFails)

ProcessSpec == ProcessInit /\ [][ProcessNext]_processVars
FairProcessSpec == ProcessSpec /\ ProcessFairness

\* Clients that end their streams sooner or later.
FairClientsSpec == FairProcessSpec /\ \A s \in Streams : WF_processVars(EndStream(s))

-----------------------------------------------------------------------------
(* Properties *)

\* Exit status 0 after serving means that nothing acknowledged was lost: every
\* accepted event was consumed, a recording holds them all, and the printed
\* counters say so.  Status 2 and --help mean that nothing was touched: no
\* file and no server, also when the last of several options is at fault.
ExitZeroIsComplete ==
    /\ exit_code = "0" /\ report # <<>> =>
         /\ refused = <<>> /\ done = accepted
         /\ recorder # "none" => recorder = "good" /\ flushed = Len(accepted)
         /\ report[1].accepted = Len(accepted) /\ report[1].consumed = Len(done)
         /\ report[1].failures = 0 /\ report[1].signal # NoSignal
    /\ exit_code = "2" \/ (exit_code = "0" /\ report = <<>>) =>
         recorder = "none" /\ server = "none"

\* No object is destroyed or shut down under a thread that uses it: the
\* server outlives a monitor inside Shutdown(), although Wait() may return
\* first, and the sink is shut down only when no reactor is left.
ObjectsOutliveUsers ==
    /\ monitor = "in_shutdown" => server # "destroyed"
    /\ main \in {"shutdown", "join", "flush", "report", "leave", "destroy", "close"} =>
         \A s \in Streams : stream[s] # "open"

\* "The collector handles `SIGINT` and `SIGTERM` as graceful shutdown requests.
\* It stops gRPC, drains accepted queue entries, flushes the recording, and
\* reports final ... counters before exiting" (README.md): a caught signal leads
\* to an exit, also when recording has failed or a second signal comes.  With
\* clients that end their streams it does; whatever the clients do, it does
\* not, because Shutdown() has no deadline.
SignalEndsProcess == g_shutdown_signal # NoSignal ~> main = "exited"
=============================================================================
