----------------------------- MODULE QueuedSink -----------------------------
(***************************************************************************)
(* traceforge::telemetry::QueuedTelemetrySink                              *)
(* (src/telemetry/queued_sink.cpp): gRPC handler threads (Producers) call  *)
(* try_accept, one worker thread runs consume_loop, and the main thread    *)
(* constructs the sink and calls shutdown.  The queue is BoundedQueue; the *)
(* steps of this module are the steps of the queue plus those on the three *)
(* atomic members.                                                         *)
(*                                                                         *)
(* consumer_thread_ is declared before the atomics, so the worker already  *)
(* runs while the constructor has not initialised them: they start with    *)
(* arbitrary values, and FinishConstruction sets them.                     *)
(*                                                                         *)
(* accepting_events_ is read with memory_order_relaxed: after the flag was *)
(* cleared, a handler may still read the old value.  view[p] is TRUE while *)
(* it may, that is until p itself has read FALSE or has learnt from the    *)
(* queue's mutex that the queue is closed (the flag is cleared before the  *)
(* close).                                                                 *)
(*                                                                         *)
(* handled and failed record what TelemetryConsumer::consume answered.     *)
(***************************************************************************)
EXTENDS BoundedQueue

CONSTANTS
    Worker,         \* consumer_thread_
    Main,           \* the thread that owns the sink
    Garbage         \* values an uninitialised counter may hold

ASSUME SinkThreadsAssumption ==
    /\ Consumers = {Worker}
    /\ Closers = {Worker, Main}
    /\ Worker # Main
    /\ Worker \notin Producers
    /\ Main \notin Producers
ASSUME GarbageAssumption == Garbage \subseteq Nat /\ 0 \in Garbage

VARIABLES
    accepting_events,   \* accepting_events_
    view,               \* the handlers that may still read accepting_events_ as true
    consumed_events,    \* consumed_events_
    consumer_failures,  \* consumer_failures_
    pc,                 \* where each thread is
    answer,             \* SinkResult of each handler's last try_accept
    joined,             \* consumer_thread_ was joined (it is no longer joinable)
    handled,            \* history: events consume returned true for
    failed              \* history: events consume returned false for

ownSinkVars == <<accepting_events, view, consumed_events, consumer_failures, pc,
              answer, joined, handled, failed>>
sinkVars == <<queueVars, ownSinkVars>>

SinkResult == {"accepted", "overloaded", "unavailable"}
ProducerPCs == {"idle", "push", "notify"}
WorkerPCs == {"loop", "consume", "count", "count_failure", "stop_accepting",
              "close", "notify_all", "exited"}
MainPCs == {"constructing", "running", "close", "notify_all", "join", "stopped"}

SinkTypeOK ==
    /\ accepting_events \in BOOLEAN
    /\ view \in SUBSET Producers
    /\ consumed_events \in Nat
    /\ consumer_failures \in Nat
    /\ pc \in [Threads -> ProducerPCs \cup WorkerPCs \cup MainPCs]
    /\ \A p \in Producers : pc[p] \in ProducerPCs
    /\ pc[Worker] \in WorkerPCs
    /\ pc[Main] \in MainPCs
    /\ answer \in [Producers -> SinkResult \cup {"none"}]
    /\ joined \in BOOLEAN
    /\ handled \in Seq(Items)
    /\ failed \in Seq(Items)

SinkInit ==
    /\ QueueInit
    /\ accepting_events \in BOOLEAN
    /\ view = Producers
    /\ consumed_events \in Garbage
    /\ consumer_failures \in Garbage
    /\ pc = [t \in Threads |-> IF t = Main THEN "constructing"
                               ELSE IF t = Worker THEN "loop" ELSE "idle"]
    /\ answer = [p \in Producers |-> "none"]
    /\ joined = FALSE
    /\ handled = <<>>
    /\ failed = <<>>

Goto(t, where) == pc' = [pc EXCEPT ![t] = where]

\* Main: the last three members are initialised; the sink can be handed out.
FinishConstruction ==
    /\ pc[Main] = "constructing"
    /\ accepting_events' = TRUE
    /\ consumed_events' = 0
    /\ consumer_failures' = 0
    /\ Goto(Main, "running")
    /\ UNCHANGED <<queueVars, view, answer, joined, handled, failed>>

-----------------------------------------------------------------------------
(* try_accept, on a handler thread *)

Pushing == {p \in Producers : pc[p] = "push"}

\* Bound: try_push has been called, or is about to be, fewer than MaxCalls times.
CallsLeft == accepted_items + rejected_items + Cardinality(Pushing) < MaxCalls

\* What a relaxed load of accepting_events_ by p may return.
LoadAccepting(p) == {accepting_events} \cup (IF p \in view THEN {TRUE} ELSE {})

\* The early return on a cleared flag.
CheckAccepting(p) ==
    /\ pc[Main] # "constructing"
    /\ pc[p] = "idle"
    /\ \E seen \in LoadAccepting(p) :
         \/ /\ seen
            /\ Goto(p, "push")
            /\ UNCHANGED <<view, answer>>
         \/ /\ ~seen
            /\ view' = view \ {p}
            /\ answer' = [answer EXCEPT ![p] = "unavailable"]
            /\ UNCHANGED pc
    /\ UNCHANGED <<queueVars, accepting_events, consumed_events, consumer_failures,
                   joined, handled, failed>>

\* try_push, and the answers that follow a rejection at once.
PushEvent(p, x) ==
    /\ pc[p] = "push"
    /\ TryPush(p, x)
    /\ \/ /\ result'[p] = "accepted"
          /\ Goto(p, "notify")
          /\ UNCHANGED <<answer, view>>
       \/ /\ result'[p] = "full"
          /\ Goto(p, "idle")
          /\ answer' = [answer EXCEPT ![p] = "overloaded"]
          /\ UNCHANGED view
       \/ /\ result'[p] = "closed"
          /\ Goto(p, "idle")
          /\ answer' = [answer EXCEPT ![p] = "unavailable"]
          /\ view' = view \ {p}
    /\ UNCHANGED <<accepting_events, consumed_events, consumer_failures, joined,
                   handled, failed>>

\* Mutant: try_accept returns and the notification is lost on the way.
ReturnAcceptedSilently(p) ==
    /\ pc[p] = "notify"
    /\ call' = [call EXCEPT ![p] = "idle"]
    /\ Goto(p, "idle")
    /\ answer' = [answer EXCEPT ![p] = "accepted"]
    /\ UNCHANGED <<state, result, popped, history, accepting_events, view,
                   consumed_events, consumer_failures, joined, handled, failed>>

\* try_push notifies and try_accept returns.
ReturnAccepted(p) ==
    /\ pc[p] = "notify"
    /\ NotifyOne(p)
    /\ Goto(p, "idle")
    /\ answer' = [answer EXCEPT ![p] = "accepted"]
    /\ UNCHANGED <<accepting_events, view, consumed_events, consumer_failures, joined,
                   handled, failed>>

-----------------------------------------------------------------------------
(* consume_loop, on the worker thread *)

\* The loop condition.  A nullopt ends the thread.
PopEvent ==
    /\ pc[Worker] = "loop"
    /\ WaitPop(Worker)
    /\ \/ call'[Worker] = "waiting" /\ UNCHANGED pc
       \/ call'[Worker] = "idle" /\ popped'[Worker] # <<>> /\ Goto(Worker, "consume")
       \/ call'[Worker] = "idle" /\ popped'[Worker] = <<>> /\ Goto(Worker, "exited")
    /\ UNCHANGED <<accepting_events, view, consumed_events, consumer_failures, answer,
                   joined, handled, failed>>

WakeSpuriously ==
    /\ SpuriousWakeup(Worker)
    /\ UNCHANGED ownSinkVars

\* consumer_.consume(event) returns true.
ConsumeSucceeds ==
    /\ pc[Worker] = "consume"
    /\ handled' = Append(handled, popped[Worker][1])
    /\ Goto(Worker, "count")
    /\ UNCHANGED <<queueVars, accepting_events, view, consumed_events, consumer_failures,
                   answer, joined, failed>>

CountConsumed ==
    /\ pc[Worker] = "count"
    /\ consumed_events' = consumed_events + 1
    /\ Goto(Worker, "loop")
    /\ UNCHANGED <<queueVars, accepting_events, view, consumer_failures, answer, joined,
                   handled, failed>>

\* consumer_.consume(event) returns false.
ConsumeFails ==
    /\ pc[Worker] = "consume"
    /\ failed' = Append(failed, popped[Worker][1])
    /\ Goto(Worker, "count_failure")
    /\ UNCHANGED <<queueVars, accepting_events, view, consumed_events, consumer_failures,
                   answer, joined, handled>>

\* Mutant: a failure is logged and the loop goes on.
CountFailureAndContinue ==
    /\ pc[Worker] = "count_failure"
    /\ consumer_failures' = consumer_failures + 1
    /\ Goto(Worker, "loop")
    /\ UNCHANGED <<queueVars, accepting_events, view, consumed_events, answer, joined,
                   handled, failed>>

CountFailure ==
    /\ pc[Worker] = "count_failure"
    /\ consumer_failures' = consumer_failures + 1
    /\ Goto(Worker, "stop_accepting")
    /\ UNCHANGED <<queueVars, accepting_events, view, consumed_events, answer, joined,
                   handled, failed>>

\* Mutant: the worker returns without closing the queue.
StopAcceptingAndExit ==
    /\ pc[Worker] = "stop_accepting"
    /\ accepting_events' = FALSE
    /\ Goto(Worker, "exited")
    /\ UNCHANGED <<queueVars, view, consumed_events, consumer_failures, answer, joined,
                   handled, failed>>

StopAccepting ==
    /\ pc[Worker] = "stop_accepting"
    /\ accepting_events' = FALSE
    /\ Goto(Worker, "close")
    /\ UNCHANGED <<queueVars, view, consumed_events, consumer_failures, answer, joined,
                   handled, failed>>

-----------------------------------------------------------------------------
(* queue_.close(), on the failing worker or on the main thread *)

\* Mutant: the failing worker goes on to join, as if it were in shutdown.
AfterCloseJoins(t) == "join"

\* Where a thread goes on after queue_.close().
AfterClose(t) == IF t = Worker THEN "exited" ELSE "join"

CloseQueue(t) ==
    /\ pc[t] = "close"
    /\ Close(t)
    /\ Goto(t, "notify_all")
    /\ UNCHANGED <<accepting_events, view, consumed_events, consumer_failures, answer,
                   joined, handled, failed>>

NotifyClosed(t) ==
    /\ pc[t] = "notify_all"
    /\ NotifyAll(t)
    /\ Goto(t, AfterClose(t))
    /\ UNCHANGED <<accepting_events, view, consumed_events, consumer_failures, answer,
                   joined, handled, failed>>

-----------------------------------------------------------------------------
(* shutdown, on the main thread; the destructor calls it again *)

\* Mutant: shutdown forgets to close the queue.
ShutdownWithoutClose ==
    /\ pc[Main] \in {"running", "stopped"}
    /\ accepting_events' = FALSE
    /\ Goto(Main, "join")
    /\ UNCHANGED <<queueVars, view, consumed_events, consumer_failures, answer, joined,
                   handled, failed>>

Shutdown ==
    /\ pc[Main] \in {"running", "stopped"}
    /\ accepting_events' = FALSE
    /\ Goto(Main, "close")
    /\ UNCHANGED <<queueVars, view, consumed_events, consumer_failures, answer, joined,
                   handled, failed>>

\* Mutant: shutdown detaches the thread instead of joining it.
JoinDetaches ==
    /\ pc[Main] = "join"
    /\ joined' = TRUE
    /\ Goto(Main, "stopped")
    /\ UNCHANGED <<queueVars, accepting_events, view, consumed_events, consumer_failures,
                   answer, handled, failed>>

\* if (joinable()) join(): returns once the worker has left consume_loop.
Join ==
    /\ pc[Main] = "join"
    /\ joined \/ pc[Worker] = "exited"
    /\ joined' = TRUE
    /\ Goto(Main, "stopped")
    /\ UNCHANGED <<queueVars, accepting_events, view, consumed_events, consumer_failures,
                   answer, handled, failed>>

\* What stats() returns when nothing runs between its four reads; the
\* collector calls it after shutdown only (app/main.cpp).
stats ==
    [current_size |-> Len(items), accepted_items |-> accepted_items,
     consumed_events |-> consumed_events, consumer_failures |-> consumer_failures,
     accepting_events |-> accepting_events, closed |-> closed]

-----------------------------------------------------------------------------

TryAccept(p) ==
    \/ CallsLeft /\ CheckAccepting(p)
    \/ \E x \in Items : PushEvent(p, x)
    \/ ReturnAccepted(p)

ConsumeLoop ==
    \/ PopEvent \/ ConsumeSucceeds \/ CountConsumed
    \/ ConsumeFails \/ CountFailure \/ StopAccepting
    \/ CloseQueue(Worker) \/ NotifyClosed(Worker)

FinishShutdown == CloseQueue(Main) \/ NotifyClosed(Main) \/ Join

SinkNext ==
    \/ FinishConstruction
    \/ \E p \in Producers : TryAccept(p)
    \/ ConsumeLoop
    \/ WakeSpuriously
    \/ Shutdown
    \/ FinishShutdown

\* The scheduler runs every thread that can run, and consume returns (the
\* log writer's calls are finite).  Nothing obliges a handler to call
\* try_accept or the owner to call shutdown.
SinkFairness ==
    /\ WF_sinkVars(FinishConstruction)
    /\ \A p \in Producers : WF_sinkVars(pc[p] # "idle" /\ TryAccept(p))
    /\ WF_sinkVars(ConsumeLoop)
    /\ WF_sinkVars(FinishShutdown)

SinkSpec == SinkInit /\ [][SinkNext]_sinkVars
FairSinkSpec == SinkSpec /\ SinkFairness

-----------------------------------------------------------------------------
(* Properties *)

InFlight == IF pc[Worker] = "consume" THEN popped[Worker] ELSE <<>>

\* Every accepted event is in exactly one place, and the places are in the
\* order of acceptance: consumed, refused by the consumer, in the worker's
\* hands, or still queued.  At most one event is ever refused, and none is
\* consumed after it.
Conservation ==
    /\ pushed = handled \o failed \o InFlight \o items
    /\ Len(failed) <= 1

\* When the worker thread has left consume_loop the queue is closed, and
\* unless the consumer failed every accepted event was consumed, those
\* accepted while shutdown was already in progress included.
ExitIsClean ==
    pc[Worker] = "exited" =>
      /\ closed
      /\ failed = <<>> => handled = pushed

\* The statistics the collector prints after shutdown balance: each accepted
\* event was consumed, failed, or is left in the queue, and the counters are
\* exact although they were written while uninitialised memory was visible
\* to the worker.
FinalStatsBalance ==
    pc[Main] = "stopped" =>
      /\ stats.consumed_events = Len(handled)
      /\ stats.consumer_failures = Len(failed)
      /\ stats.accepted_items =
           stats.consumed_events + stats.consumer_failures + stats.current_size
      /\ stats.current_size > 0 => stats.consumer_failures = 1
      /\ ~stats.accepting_events /\ stats.closed

\* A shutdown that has begun completes, whatever the handlers go on doing and
\* whether or not the consumer fails.
ShutdownCompletes == pc[Main] \in {"close", "notify_all", "join"} ~> pc[Main] = "stopped"

\* A consumer failure closes the pipeline for good: eventually every
\* try_accept answers "unavailable" with no help from the owner.
FailureStopsIngest == failed # <<>> ~> [](closed /\ ~accepting_events)

\* The sink uses the queue according to its protocol, so all the properties
\* of BoundedQueue hold of the queue inside the sink.
UsesQueue == QueueSpec

Pipeline == INSTANCE IngestPipeline WITH
    Events <- Items, open <- ~closed, accepted <- pushed, done <- handled,
    refused <- failed, stopped <- joined

\* The sink implements the promise of the ingestion pipeline.
ImplementsPipeline == Pipeline!Spec

\* ... and does not starve accepted events.
ImplementsLivePipeline == Pipeline!LiveSpec
=============================================================================
