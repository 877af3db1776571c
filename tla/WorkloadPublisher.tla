-------------------------- MODULE WorkloadPublisher --------------------------
(***************************************************************************)
(* WorkloadPublisher::publish (src/generator/workload_publisher.cpp): one  *)
(* thread and one gRPC stream per producer, all on one channel, against    *)
(* the collector.                                                          *)
(*                                                                         *)
(* An event is a producer and a sequence number.  Per stream, the events   *)
(* on their way to the collector are wire[p].  The collector's side is the *)
(* reactor of CollectorService: it takes events in order, ends the stream  *)
(* with an error at a number that does not increase or when its queue is   *)
(* full or closed, and with OK and a summary at the end of the stream.     *)
(* The connection may break at any time; the client then sees UNAVAILABLE, *)
(* while the collector keeps what it has accepted.                         *)
(***************************************************************************)
EXTENDS Naturals, Sequences

CONSTANT
    WireSize        \* bound: events gRPC buffers between Write and OnReadDone

ASSUME WireSizeAssumption == WireSize \in Nat \ {0}

VARIABLES
    workload,       \* the events publish is called with
    main,           \* the caller: "idle", "call", "joining", "returned"
    thread,         \* each producer's thread
    written,        \* result.written_events
    report,         \* report.producers, by producer
    wire,           \* events between the client's Write and the reactor
    half_closed,    \* WritesDone has been called
    broken,         \* the connection has been lost
    outcome,        \* status the reactor finished with, "open" before
    accepted        \* the events the collector accepted from each stream

threadVars == <<thread, written, report>>
streamVars == <<wire, half_closed, broken, outcome, accepted>>
publishVars == <<workload, main, threadVars, streamVars>>

\* group_by_producer: each producer's events in workload order.
Producers == {workload[i].producer : i \in DOMAIN workload}
EventsOf(p) ==
    LET own[n \in 0 .. Len(workload)] ==
          IF n = 0 THEN <<>>
          ELSE IF workload[n].producer = p THEN Append(own[n - 1], workload[n])
          ELSE own[n - 1]
    IN  own[Len(workload)]
Attempted(p) == Len(EventsOf(p))

NoResult == [status |-> "none", attempted |-> 0, written |-> 0, accepted |-> 0, gaps |-> 0]

\* Nothing is written or read yet.
PublishInit ==
    /\ workload = <<>>
    /\ main = "idle"
    /\ thread = [p \in Producers |-> "none"]
    /\ written = [p \in Producers |-> 0]
    /\ report = [p \in Producers |-> NoResult]
    /\ wire = [p \in Producers |-> <<>>]
    /\ half_closed = [p \in Producers |-> FALSE]
    /\ broken = FALSE
    /\ outcome = [p \in Producers |-> "open"]
    /\ accepted = [p \in Producers |-> <<>>]

-----------------------------------------------------------------------------
(* publish *)

\* The events are grouped, and the report gets a result per producer.
Publish(w) ==
    /\ main = "idle"
    /\ main' = "call"
    /\ workload' = w
    /\ thread' = [p \in Producers' |-> "none"]
    /\ written' = [p \in Producers' |-> 0]
    /\ report' = [p \in Producers' |-> NoResult]
    /\ wire' = [p \in Producers' |-> <<>>]
    /\ half_closed' = [p \in Producers' |-> FALSE]
    /\ outcome' = [p \in Producers' |-> "open"]
    /\ accepted' = [p \in Producers' |-> <<>>]
    /\ UNCHANGED broken

\* WaitForConnected succeeds, and a thread per producer is started; without
\* events there is nothing to do.
Connect ==
    /\ main = "call"
    /\ \/ Producers = {} /\ main' = "returned" /\ UNCHANGED thread
       \/ /\ Producers # {}
          /\ main' = "joining"
          /\ thread' = [p \in Producers |-> "writing"]
    /\ UNCHANGED <<workload, written, report, streamVars>>

\* WaitForConnected times out: every producer is reported as unavailable.
ConnectTimesOut ==
    /\ main = "call"
    /\ Producers # {}
    /\ main' = "returned"
    /\ report' = [p \in Producers |->
                    [NoResult EXCEPT !.status = "UNAVAILABLE", !.attempted = Attempted(p)]]
    /\ UNCHANGED <<workload, thread, written, streamVars>>

Over(p) == broken \/ outcome[p] # "open"

\* Write returns true: the event is on its way, or the stream is over already
\* and it is lost.
WriteSucceeds(p) ==
    /\ thread[p] = "writing"
    /\ written[p] < Attempted(p)
    /\ written' = [written EXCEPT ![p] = @ + 1]
    /\ \/ /\ ~Over(p)
          /\ Len(wire[p]) < WireSize
          /\ wire' = [wire EXCEPT ![p] = Append(@, EventsOf(p)[written[p] + 1])]
       \/ Over(p) /\ UNCHANGED wire
    /\ UNCHANGED <<workload, main, thread, report, half_closed, broken, outcome, accepted>>

EndOfWrites(p) ==
    /\ thread' = [thread EXCEPT ![p] = "finishing"]
    /\ half_closed' = [half_closed EXCEPT ![p] = TRUE]
    /\ UNCHANGED <<workload, main, written, report, wire, broken, outcome, accepted>>

\* Write returns false, which it does only on a stream that is over: the loop
\* ends, then WritesDone.
WriteFails(p) ==
    /\ thread[p] = "writing"
    /\ written[p] < Attempted(p)
    /\ Over(p)
    /\ EndOfWrites(p)

\* All events are written: WritesDone.
WritesDone(p) ==
    /\ thread[p] = "writing"
    /\ written[p] = Attempted(p)
    /\ EndOfWrites(p)

\* Mutant: a broken connection is not noticed.
StatusesUnbroken(p) == {outcome[p]} \ {"open"}

\* What Finish may return: the reactor's status, and UNAVAILABLE if the
\* connection broke.
Statuses(p) == ({outcome[p]} \ {"open"}) \cup (IF broken THEN {"UNAVAILABLE"} ELSE {})

\* The numbers the collector missed between the first and the last event of a
\* stream, as its summary has them.
SequenceGaps(p) ==
    LET n == Len(accepted[p])
    IN  IF n = 0 THEN 0 ELSE accepted[p][n].number - accepted[p][1].number - (n - 1)

\* The summary counts only with an OK status.
ResultOf(p, status) ==
    [status |-> status, attempted |-> Attempted(p), written |-> written[p],
     accepted |-> IF status = "OK" THEN Len(accepted[p]) ELSE 0,
     gaps |-> IF status = "OK" THEN SequenceGaps(p) ELSE 0]

Finish(p) ==
    /\ thread[p] = "finishing"
    /\ \E status \in Statuses(p) : report' = [report EXCEPT ![p] = ResultOf(p, status)]
    /\ thread' = [thread EXCEPT ![p] = "done"]
    /\ UNCHANGED <<workload, main, written, streamVars>>

\* The threads are joined and the report returned.
JoinThreads ==
    /\ main = "joining"
    /\ \A p \in Producers : thread[p] = "done"
    /\ main' = "returned"
    /\ UNCHANGED <<workload, threadVars, streamVars>>

\* Mutant: writing everything counts as success.
ProducerSucceededWritten(p) == report[p].written = report[p].attempted

\* ProducerPublishResult::succeeded and PublishReport::succeeded.
ProducerSucceeded(p) ==
    /\ report[p].status = "OK"
    /\ report[p].written = report[p].attempted
    /\ report[p].accepted = report[p].attempted

Succeeded == \A p \in Producers : ProducerSucceeded(p)

-----------------------------------------------------------------------------
(* The collector and the network *)

Increases(p, e) == \A i \in DOMAIN accepted[p] : accepted[p][i].number < e.number

\* The reactor takes an event: accepted, refused by the validator, or refused
\* by the sink.  An error drops what is still on the wire.
CollectorReads(p) ==
    /\ outcome[p] = "open"
    /\ wire[p] # <<>>
    /\ LET e == Head(wire[p])
           end(status) == /\ outcome' = [outcome EXCEPT ![p] = status]
                          /\ wire' = [wire EXCEPT ![p] = <<>>]
                          /\ UNCHANGED accepted
       IN  \/ /\ Increases(p, e)
              /\ accepted' = [accepted EXCEPT ![p] = Append(@, e)]
              /\ wire' = [wire EXCEPT ![p] = Tail(@)]
              /\ UNCHANGED outcome
           \/ Increases(p, e) /\ end("RESOURCE_EXHAUSTED")
           \/ ~Increases(p, e) /\ end("INVALID_ARGUMENT")
    /\ UNCHANGED <<workload, main, threadVars, half_closed, broken>>

\* The reactor reads the end of the stream.
CollectorFinishes(p) ==
    /\ outcome[p] = "open"
    /\ half_closed[p] /\ wire[p] = <<>> /\ ~broken
    /\ outcome' = [outcome EXCEPT ![p] = "OK"]
    /\ UNCHANGED <<workload, main, threadVars, wire, half_closed, broken, accepted>>

\* The connection is lost, with what is on the wire.
Break ==
    /\ main = "joining" /\ ~broken
    /\ broken' = TRUE
    /\ wire' = [p \in Producers |-> <<>>]
    /\ UNCHANGED <<workload, main, threadVars, half_closed, outcome, accepted>>

-----------------------------------------------------------------------------

PublisherThread(p) == WriteSucceeds(p) \/ WriteFails(p) \/ WritesDone(p) \/ Finish(p)
Collector(p) == CollectorReads(p) \/ CollectorFinishes(p)

PublishNext ==
    \/ Connect \/ ConnectTimesOut \/ JoinThreads
    \/ \E p \in Producers : PublisherThread(p) \/ Collector(p)
    \/ Break

\* Threads run, and the collector reads its streams: its callbacks never block
\* for the consumer.  Fairness to one of the threads is enough, since each of
\* them takes finitely many steps.
PublishFairness ==
    /\ WF_publishVars(Connect \/ ConnectTimesOut \/ JoinThreads)
    /\ WF_publishVars(\E p \in Producers : PublisherThread(p))
    /\ WF_publishVars(\E p \in Producers : Collector(p))

-----------------------------------------------------------------------------
(* Properties *)

\* The report tells the truth, whatever was refused or broke, although Write
\* also returns true for events that are never read:
\* - every producer is reported, and Succeeded, on which the exit status rests,
\*   holds only if the collector accepted every event in workload order;
\* - the accepted count is zero or exactly what the collector has;
\* - an OK status alone already means that everything attempted was written and
\*   accepted: a loop that a failed Write ended cannot end in OK.
ReportTruthful ==
    /\ main = "returned" =>
         /\ \A p \in Producers : report[p].status # "none"
         /\ Succeeded => \A p \in Producers : accepted[p] = EventsOf(p)
    /\ \A p \in Producers :
         /\ report[p].accepted \in {0, Len(accepted[p])}
         /\ report[p].accepted <= report[p].written
         /\ report[p].status = "OK" => ProducerSucceeded(p)
=============================================================================
