-------------------------- MODULE StreamValidation --------------------------
(***************************************************************************)
(* traceforge::telemetry::StreamValidator (src/telemetry/validation.cpp):  *)
(* the checks one stream's events go through and the summary they add up   *)
(* to.  Its state is a record; accept is the pair Valid, Accepted.         *)
(*                                                                         *)
(* An event keeps the fields the checks read.  A producer identity is      *)
(* "", an ordinary name, or one longer than kMaxProducerIdBytes; a payload *)
(* is its kind and what is wrong with it.  Sequence numbers are uint64_t:  *)
(* arithmetic on them is modulo Word, which stands for 2^64.  The event    *)
(* count does not wrap: a stream cannot carry 2^64 events.                 *)
(***************************************************************************)
EXTENDS Integers, Sequences

CONSTANTS
    ProducerIds,    \* ordinary producer names
    Word            \* 2^64

ASSUME WordAssumption == Word \in Nat \ {0}
ASSUME ProducerIdsAssumption == "" \notin ProducerIds /\ "too long" \notin ProducerIds

SequenceNumbers == 0 .. Word - 1
kTelemetrySchemaVersion == 1
Clocks == {"UNSPECIFIED", "UTC", "DEVICE_MONOTONIC", "not a ClockDomain"}

\* What validate_payload can find wrong with each kind of payload.
Flaws ==
    [accelerometer     |-> {"not finite"},
     gyroscope         |-> {"not finite"},
     gps               |-> {"not finite", "out of bounds", "negative accuracy"},
     temperature       |-> {"not finite"},
     camera            |-> {"zero dimension"},
     controller_status |-> {"state unspecified", "detail too long"},
     fault             |-> {"severity unspecified", "message too long"},
     PAYLOAD_NOT_SET   |-> {}]

ValidatePayload(payload) ==
    /\ payload.kind # "PAYLOAD_NOT_SET"
    /\ payload.flaw \notin Flaws[payload.kind]

NewValidator ==
    [producer_id |-> "", accepted_events |-> 0, first_sequence_number |-> 0,
     last_sequence_number |-> 0, sequence_gaps |-> 0]

\* Mutant: a repeated sequence number passes.
IncreasesOrRepeats(v, e) == e.sequence_number >= v.last_sequence_number

Increases(v, e) == e.sequence_number > v.last_sequence_number

\* accept returns {.accepted = true}.  The checks have no effect, so their
\* order only chooses the error text.
Valid(v, e) ==
    /\ e.schema_version = kTelemetrySchemaVersion
    /\ e.producer_id \notin {"", "too long"}
    /\ e.source_clock \notin {"UNSPECIFIED", "not a ClockDomain"}
    /\ e.source_timestamp_ns > 0
    /\ v.producer_id # "" => e.producer_id = v.producer_id
    /\ v.accepted_events > 0 => Increases(v, e)
    /\ ValidatePayload(e.payload)

\* Mutant: the gap is the difference of the sequence numbers.
MissedOffByOne(v, e) == e.sequence_number - v.last_sequence_number

\* The numbers missing between the last event accepted and this one.
Missed(v, e) == e.sequence_number - v.last_sequence_number - 1

\* The validator after accept has accepted e.
Accepted(v, e) ==
    LET first == v.accepted_events = 0 IN
    [producer_id |-> IF first THEN e.producer_id ELSE v.producer_id,
     accepted_events |-> v.accepted_events + 1,
     first_sequence_number |->
       IF first THEN e.sequence_number ELSE v.first_sequence_number,
     last_sequence_number |-> e.sequence_number,
     sequence_gaps |->
       IF first THEN v.sequence_gaps ELSE (v.sequence_gaps + Missed(v, e)) % Word]
=============================================================================
