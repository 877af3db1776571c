------------------------- MODULE MCCollectorService -------------------------
(* The collector service for TLC: two streams, one of which may reuse the  *)
(* producer identity of the other.  Sequence numbers are two bits wide.    *)
EXTENDS CollectorService, TLC

Good(id, n) ==
    [schema_version |-> 1, producer_id |-> id, sequence_number |-> n,
     source_timestamp_ns |-> 1, source_clock |-> "UTC",
     payload |-> [kind |-> "temperature", flaw |-> "none"]]

\* One event for each check that can fail on its own.
Bad == {[Good("phone", 3) EXCEPT !.schema_version = 2],
        [Good("phone", 3) EXCEPT !.producer_id = ""],
        [Good("phone", 3) EXCEPT !.producer_id = "too long"],
        [Good("phone", 3) EXCEPT !.source_clock = "not a ClockDomain"],
        [Good("phone", 3) EXCEPT !.source_timestamp_ns = 0],
        [Good("phone", 3) EXCEPT !.payload = [kind |-> "gps", flaw |-> "out of bounds"]],
        [Good("phone", 3) EXCEPT !.payload = [kind |-> "PAYLOAD_NOT_SET", flaw |-> "none"]]}

MCProducerIds == {"phone", "robot"}
MCEvents == {Good("phone", n) : n \in 0 .. 3} \cup {Good("robot", 2)} \cup Bad
MCItems == [stream : Producers, event : MCEvents]

Symmetry == Permutations(Producers)
=============================================================================
