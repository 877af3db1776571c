-------------------------- MODULE CollectorService --------------------------
(***************************************************************************)
(* traceforge::telemetry::CollectorService                                 *)
(* (src/telemetry/collector_service.cpp) on top of the queued sink: one    *)
(* StreamReactor per StreamTelemetry call.  gRPC runs at most one callback *)
(* of a reactor at a time, because each OnReadDone issues the next         *)
(* StartRead as its last step, so a stream is a thread of the sink         *)
(* (Producers is the set of streams).  Several streams may carry the same  *)
(* producer identity: a producer that reconnects, or two at once.          *)
(*                                                                         *)
(* The client is the environment: while a read is outstanding, any event   *)
(* may arrive, or the end of the stream.  The arrival timestamp of a       *)
(* collected event is data no check or answer of this component depends    *)
(* on; the stream is kept beside the event so that properties can tell     *)
(* the streams of one producer apart.                                      *)
(***************************************************************************)
EXTENDS QueuedSink, StreamValidation

CONSTANT Events     \* the events clients send

EventType ==
    [schema_version : Nat, producer_id : ProducerIds \cup {"", "too long"},
     sequence_number : SequenceNumbers, source_timestamp_ns : Int,
     source_clock : Clocks,
     payload : [kind : DOMAIN Flaws, flaw : STRING]]

ASSUME EventsAssumption == \A e \in Events : e \in EventType
ASSUME ItemsAssumption == Items = [stream : Producers, event : Events]

VARIABLES
    reactor,    \* where each stream's reactor is
    event,      \* event_: what it read last
    validator,  \* validator_
    status,     \* the status passed to Finish
    summary     \* response_

reactorVars == <<reactor, event, validator, status, summary>>
serviceVars == <<sinkVars, reactorVars>>

ServiceInit ==
    /\ SinkInit
    /\ reactor = [s \in Producers |-> "none"]
    /\ event = [s \in Producers |-> <<>>]
    /\ validator = [s \in Producers |-> NewValidator]
    /\ status = [s \in Producers |-> "none"]
    /\ summary = [s \in Producers |-> NewValidator]

-----------------------------------------------------------------------------

\* StreamTelemetry: a new reactor, whose constructor starts the first read.
StreamTelemetry(s) ==
    /\ pc[Main] # "constructing"
    /\ reactor[s] = "none"
    /\ reactor' = [reactor EXCEPT ![s] = "reading"]
    /\ UNCHANGED <<sinkVars, event, validator, status, summary>>

Finish(s, code) ==
    /\ reactor' = [reactor EXCEPT ![s] = "finished"]
    /\ status' = [status EXCEPT ![s] = code]

\* OnReadDone(false): the client half-closed, or is gone.
OnReadEnd(s) ==
    /\ reactor[s] = "reading"
    /\ summary' = [summary EXCEPT ![s] = validator[s]]
    /\ Finish(s, "OK")
    /\ UNCHANGED <<sinkVars, event, validator>>

\* OnReadDone(true) up to the call of try_accept.
OnReadDone(s, e) ==
    /\ reactor[s] = "reading"
    /\ \/ /\ ~Valid(validator[s], e)
          /\ Finish(s, "INVALID_ARGUMENT")
          /\ UNCHANGED <<event, validator>>
       \/ /\ Valid(validator[s], e)
          /\ validator' = [validator EXCEPT ![s] = Accepted(@, e)]
          /\ event' = [event EXCEPT ![s] = <<e>>]
          /\ reactor' = [reactor EXCEPT ![s] = "offering"]
          /\ UNCHANGED status
    /\ UNCHANGED <<sinkVars, summary>>

\* Mutant: an overloaded sink is answered by reading on.
ReadsOnUnlessUnavailable(offered) == offered \in {"accepted", "overloaded"}

ReadsOn(offered) == offered = "accepted"

\* The switch on the result of try_accept, once it has returned: the next
\* read, or the status that ends the stream.
AfterTryAccept(s) ==
    \/ pc'[s] # "idle" /\ UNCHANGED <<reactor, event, status>>
    \/ /\ pc'[s] = "idle" /\ ReadsOn(answer'[s])
       /\ event' = [event EXCEPT ![s] = <<>>]
       /\ reactor' = [reactor EXCEPT ![s] = "reading"]
       /\ UNCHANGED status
    \/ /\ pc'[s] = "idle" /\ ~ReadsOn(answer'[s])
       /\ Finish(s, IF answer'[s] = "overloaded" THEN "RESOURCE_EXHAUSTED" ELSE "UNAVAILABLE")
       /\ UNCHANGED event

Collected(s) == [stream |-> s, event |-> event[s][1]]

Offer(s) ==
    /\ reactor[s] = "offering"
    /\ CheckAccepting(s) \/ PushEvent(s, Collected(s)) \/ ReturnAccepted(s)
    /\ AfterTryAccept(s)
    /\ UNCHANGED <<validator, summary>>

\* A step of the sink's own threads.
SinkThreads ==
    /\ \/ FinishConstruction \/ ConsumeLoop \/ WakeSpuriously
       \/ Shutdown \/ FinishShutdown
    /\ UNCHANGED reactorVars

\* Bound: fewer than MaxCalls events are, or may still be, offered to the queue.
EventsLeft ==
    accepted_items + rejected_items
      + Cardinality({s \in Producers : reactor[s] = "offering"}) < MaxCalls

ServiceNext ==
    \/ \E s \in Producers :
         \/ StreamTelemetry(s)
         \/ OnReadEnd(s)
         \/ \E e \in Events : EventsLeft /\ OnReadDone(s, e)
         \/ Offer(s)
    \/ SinkThreads

ServiceSpec == ServiceInit /\ [][ServiceNext]_serviceVars

-----------------------------------------------------------------------------
(* Properties *)

\* The events of stream s among the collected events q, in order.
EventsOf(s, q) ==
    LET own[n \in 0 .. Len(q)] ==
          IF n = 0 THEN <<>>
          ELSE IF q[n].stream = s THEN Append(own[n - 1], q[n].event)
          ELSE own[n - 1]
    IN  own[Len(q)]

Numbers(evs) == {evs[i].sequence_number : i \in 1 .. Len(evs)}

\* A summary is sent only with status OK, and it describes what was really
\* put into the queue for that stream: the number of events, the first and
\* the last sequence number, the producer, and the number of sequence
\* numbers missing in between, counted one by one up to the largest number a
\* uint64_t holds.
SummaryTruthful ==
    \A s \in Producers : status[s] = "OK" =>
      LET evs == EventsOf(s, pushed)
          sum == summary[s]
      IN  /\ sum.accepted_events = Len(evs)
          /\ evs = <<>> => sum = NewValidator
          /\ evs # <<>> =>
               /\ sum.first_sequence_number = evs[1].sequence_number
               /\ sum.last_sequence_number = evs[Len(evs)].sequence_number
               /\ sum.sequence_gaps =
                    Cardinality((sum.first_sequence_number .. sum.last_sequence_number)
                                  \ Numbers(evs))
               /\ \A i \in 1 .. Len(evs) : evs[i].producer_id = sum.producer_id

\* In the queue, and so in everything downstream, the events of one stream
\* are well-formed, of one producer, and in strictly increasing sequence
\* order, whatever the other streams do.
StreamsInOrder ==
    \A s \in Producers :
      LET evs == EventsOf(s, pushed) IN
      /\ \A i, j \in 1 .. Len(evs) :
           /\ i < j => evs[i].sequence_number < evs[j].sequence_number
           /\ evs[i].producer_id = evs[j].producer_id
      /\ \A i \in 1 .. Len(evs) : ValidatePayload(evs[i].payload)

\* No event is dropped silently: a stream that is still open, or that ended
\* with OK or INVALID_ARGUMENT, has every event that passed validation in
\* the queue; one that ended with RESOURCE_EXHAUSTED or UNAVAILABLE lacks
\* exactly the last.
NoSilentDrop ==
    \A s \in Producers :
      LET n == Len(EventsOf(s, pushed)) IN
      /\ reactor[s] = "reading" \/ status[s] \in {"OK", "INVALID_ARGUMENT"} =>
           validator[s].accepted_events = n
      /\ status[s] \in {"RESOURCE_EXHAUSTED", "UNAVAILABLE"} =>
           validator[s].accepted_events = n + 1

\* After a shutdown without consumer failure, the consumer has seen every
\* event that an OK summary acknowledged.
OkMeansConsumed ==
    pc[Main] = "stopped" /\ failed = <<>> =>
      \A s \in Producers : status[s] = "OK" =>
        Len(EventsOf(s, handled)) = summary[s].accepted_events
=============================================================================
