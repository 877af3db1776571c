--------------------------- MODULE IngestPipeline ---------------------------
(***************************************************************************)
(* What the collector's ingestion pipeline promises, with no thread, queue *)
(* or lock in sight: events accepted while the pipeline is open are        *)
(* handed to the consumer once each, in the order of acceptance; the first *)
(* event the consumer refuses is the last one it sees; and the pipeline is *)
(* stopped only after it closed and either delivered everything or failed. *)
(* The comment in include/traceforge/telemetry/queued_sink.hpp puts the    *)
(* second part as "Returning false permanently stops this ingestion        *)
(* pipeline."                                                              *)
(***************************************************************************)
EXTENDS Naturals, Sequences

CONSTANT Events

VARIABLES
    open,       \* new events may be accepted
    accepted,   \* events accepted so far, in order
    done,       \* events the consumer took
    refused,    \* the event the consumer refused, as a sequence of length 0 or 1
    stopped     \* shutdown has returned

vars == <<open, accepted, done, refused, stopped>>

Init ==
    /\ open = TRUE
    /\ accepted = <<>>
    /\ done = <<>>
    /\ refused = <<>>
    /\ stopped = FALSE

Next_event == accepted[Len(done) + 1]
Pending == refused = <<>> /\ Len(done) < Len(accepted)

Accept ==
    /\ open
    /\ \E e \in Events : accepted' = Append(accepted, e)
    /\ UNCHANGED <<open, done, refused, stopped>>

Deliver ==
    /\ Pending
    /\ done' = Append(done, Next_event)
    /\ UNCHANGED <<open, accepted, refused, stopped>>

Refuse ==
    /\ Pending
    /\ refused' = <<Next_event>>
    /\ UNCHANGED <<open, accepted, done, stopped>>

Shut ==
    /\ open' = FALSE
    /\ UNCHANGED <<accepted, done, refused, stopped>>

Stop ==
    /\ ~open
    /\ ~Pending
    /\ stopped' = TRUE
    /\ UNCHANGED <<open, accepted, done, refused>>

Next == Accept \/ Deliver \/ Refuse \/ Shut \/ Stop

Spec == Init /\ [][Next]_vars

\* The consumer is not starved of accepted events.
LiveSpec == Spec /\ WF_vars(Deliver \/ Refuse)
=============================================================================
