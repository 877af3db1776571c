-------------------------- MODULE WorkloadGenerator --------------------------
(***************************************************************************)
(* WorkloadGenerator (src/generator/workload_generator.cpp): validation of *)
(* a configuration, the schedule of every producer, and the injection of   *)
(* drops, duplicates and swaps.                                            *)
(*                                                                         *)
(* PortableRandom is a choice among what a draw can return: each behaviour *)
(* is one seed.  An event has its producer, number and timestamp, and a    *)
(* controller event its state; the other payloads depend on nothing else.  *)
(* The hash stands for the events it is computed from.  Integer division   *)
(* truncates towards zero, which matters for a clock that runs slow.       *)
(***************************************************************************)
EXTENDS Integers, FiniteSets, SequencesExt, Sorting

CONSTANTS
    Second,             \* kNanosecondsPerSecond
    ProbabilityScale,   \* kProbabilityScale, also the unit of clock drift
    BaseTimestamp,      \* kBaseTimestampNs
    MaxDuration,        \* kMaxDurationNs
    MaxSensorRate,      \* kMaxSensorRateHz
    MaxGeneratedEvents  \* kMaxGeneratedEvents

ASSUME UnitsAssumption == Second \in Nat \ {0} /\ ProbabilityScale \in Nat \ {0}
ASSUME GeneratorLimitsAssumption ==
    /\ MaxDuration \in Nat /\ MaxSensorRate \in Nat /\ MaxGeneratedEvents \in Nat
    /\ BaseTimestamp \in Nat /\ BaseTimestamp > MaxDuration

VARIABLES
    config,         \* config_
    generator,      \* where the constructor or generate() is
    base_events,    \* base_events, sorted
    index,          \* the loop over base_events, then the one over events
    events,         \* result.events
    stats,          \* result.stats
    emitted         \* history: events before the swaps

generatorVars == <<config, generator, base_events, index, events, stats, emitted>>

Sensors == {"sim-accelerometer", "sim-gyroscope", "sim-camera", "sim-gps",
            "sim-temperature", "sim-fault"}

\* The producers in the order of their names.
ByName == <<"sim-accelerometer", "sim-camera", "sim-controller", "sim-fault", "sim-gps",
            "sim-gyroscope", "sim-temperature">>

NoStats == [generated |-> 0, dropped |-> 0, duplicated |-> 0, reordered_pairs |-> 0]

GeneratorInit ==
    /\ generator = "none"
    /\ base_events = <<>>
    /\ index = 0
    /\ events = <<>>
    /\ stats = NoStats
    /\ emitted = <<>>

-----------------------------------------------------------------------------
(* Draws and arithmetic *)

Bounded(upper_exclusive) == IF upper_exclusive = 0 THEN {0} ELSE 0 .. upper_exclusive - 1

\* Mutant: a draw equal to the probability is a hit.
ChanceInclusive(per_million) == {draw <= per_million : draw \in Bounded(ProbabilityScale)}

Chance(per_million) == {draw < per_million : draw \in Bounded(ProbabilityScale)}

SampleJitter(max_jitter) == {draw - max_jitter : draw \in Bounded(2 * max_jitter + 1)}

Quotient(a, b) == IF a >= 0 THEN a \div b ELSE -((-a) \div b)

\* Mutant: a started period counts.
EventCountRoundsUp(duration, rate) ==
    (duration \div Second) * rate + ((duration % Second) * rate + Second - 1) \div Second

EventCount(duration, rate) ==
    (duration \div Second) * rate + ((duration % Second) * rate) \div Second

ScheduledTime(number, rate) ==
    (number \div rate) * Second + ((number % rate) * Second) \div rate

ApplyClockDrift(elapsed, drift) ==
    elapsed + (elapsed \div ProbabilityScale) * drift
            + Quotient((elapsed % ProbabilityScale) * drift, ProbabilityScale)

-----------------------------------------------------------------------------
(* The constructor *)

combined_rate(rates) ==
    rates["sim-accelerometer"] + rates["sim-gyroscope"] + rates["sim-camera"]
      + rates["sim-gps"] + rates["sim-temperature"] + rates["sim-fault"]

\* validate_config.  The events of a started second count in full, those of
\* the controller not at all.
ValidConfig(c) ==
    /\ c.duration \in 1 .. MaxDuration
    /\ c.max_jitter \in 0 .. MaxDuration
    /\ c.clock_drift \in -ProbabilityScale .. ProbabilityScale
    /\ {c.drop, c.duplicate, c.reorder} \subseteq 0 .. ProbabilityScale
    /\ \A s \in Sensors : c.rates[s] <= MaxSensorRate
    /\ combined_rate(c.rates) * (c.duration \div Second + 1) <= MaxGeneratedEvents

\* A configuration that is not valid throws.
Construct(c) ==
    /\ generator = "none"
    /\ config' = c
    /\ generator' = IF ValidConfig(c) THEN "schedule" ELSE "thrown"
    /\ UNCHANGED <<base_events, index, events, stats, emitted>>

-----------------------------------------------------------------------------
(* generate() *)

Slot(producer, number, elapsed, state) ==
    [producer |-> producer, number |-> number, elapsed |-> elapsed, state |-> state]

\* append_periodic.
Periodic(s) ==
    {Slot(s, n, ScheduledTime(n, config.rates[s]), "none") :
       n \in 0 .. EventCount(config.duration, config.rates[s]) - 1}

\* append_controller_events: every schedule the draws can give.
ControllerSchedules ==
    LET d == config.duration
        spread == Bounded(IF d \div 8 > 1 THEN d \div 8 ELSE 1)
        steady == {<<<<0, "INITIALIZING">>, <<d \div 4 + draw, "READY">>,
                     <<d - 1, "STOPPED">>>> : draw \in spread}
        degraded == {<<<<0, "INITIALIZING">>, <<d \div 4 + draw, "READY">>,
                       <<(5 * d) \div 8 + again, "DEGRADED">>, <<d - 1, "STOPPED">>>> :
                       draw \in spread, again \in spread}
    IN  UNION {IF happens THEN degraded ELSE steady : happens \in Chance(ProbabilityScale \div 2)}

Controller(schedule) ==
    {Slot("sim-controller", k - 1, schedule[k][1], schedule[k][2]) : k \in DOMAIN schedule}

Slots(schedule) == (UNION {Periodic(s) : s \in Sensors}) \cup Controller(schedule)

\* base_event.
BaseEvent(slot, jitter) ==
    [producer |-> slot.producer, number |-> slot.number, state |-> slot.state,
     timestamp |-> BaseTimestamp + ApplyClockDrift(slot.elapsed, config.clock_drift) + jitter]

NamePosition(p) == CHOOSE i \in DOMAIN ByName : ByName[i] = p

\* The comparison of std::sort, which no two events of a workload are equal to.
EventBefore(a, b) ==
    \/ a.timestamp < b.timestamp
    \/ /\ a.timestamp = b.timestamp
       /\ \/ NamePosition(a.producer) < NamePosition(b.producer)
          \/ a.producer = b.producer /\ a.number < b.number

SortedEvents(base) == Ranked(base, {p \in base \X base : EventBefore(p[1], p[2])})

Schedule ==
    /\ generator = "schedule"
    /\ \E schedule \in ControllerSchedules :
         \E jitter \in [Slots(schedule) -> SampleJitter(config.max_jitter)] :
           base_events' =
             SortedEvents({BaseEvent(slot, jitter[slot]) : slot \in Slots(schedule)})
    /\ stats' = [stats EXCEPT !.generated = Len(base_events')]
    /\ generator' = "drop"
    /\ index' = 1
    /\ UNCHANGED <<config, events, emitted>>

\* One turn of the loop over base_events: dropped, or emitted once or twice.
DropOrDuplicate ==
    /\ generator = "drop"
    /\ index <= Len(base_events)
    /\ \/ /\ TRUE \in Chance(config.drop)
          /\ stats' = [stats EXCEPT !.dropped = @ + 1]
          /\ UNCHANGED events
       \/ /\ FALSE \in Chance(config.drop)
          /\ \E again \in Chance(config.duplicate) :
               /\ events' = events \o [i \in 1 .. IF again THEN 2 ELSE 1 |-> base_events[index]]
               /\ stats' = [stats EXCEPT !.duplicated = @ + (IF again THEN 1 ELSE 0)]
    /\ index' = index + 1
    /\ UNCHANGED <<config, generator, base_events, emitted>>

EndOfDrops ==
    /\ generator = "drop"
    /\ index > Len(base_events)
    /\ generator' = "reorder"
    /\ index' = 1
    /\ emitted' = events
    /\ UNCHANGED <<config, base_events, events, stats>>

Swapped(s, i) == [s EXCEPT ![i] = s[i + 1], ![i + 1] = s[i]]

\* Mutant: the pair after a swap begins with its second event.
StrideOverlapping(swap) == 1

\* The ++index of a swap comes on top of the loop's own.
Stride(swap) == IF swap THEN 2 ELSE 1

\* One turn of the loop that swaps neighbours.
Reorder ==
    /\ generator = "reorder"
    /\ index < Len(events)
    /\ \E swap \in Chance(config.reorder) :
         /\ events' = IF swap THEN Swapped(events, index) ELSE events
         /\ stats' = [stats EXCEPT !.reordered_pairs = @ + (IF swap THEN 1 ELSE 0)]
         /\ index' = index + Stride(swap)
    /\ UNCHANGED <<config, generator, base_events, emitted>>

AllReordered == generator = "reorder" /\ index >= Len(events)

\* The hash, and generate() returns.
Generated ==
    /\ AllReordered
    /\ generator' = "returned"
    /\ UNCHANGED <<config, base_events, index, events, stats, emitted>>

Generate == Schedule \/ DropOrDuplicate \/ EndOfDrops \/ Reorder \/ Generated

-----------------------------------------------------------------------------
(* Properties *)

InOrder(s) ==
    \A i, j \in DOMAIN s : i < j /\ s[i].producer = s[j].producer => s[i].number < s[j].number

OfProducer(p) == {i \in DOMAIN base_events : base_events[i].producer = p}

Far(a, b) == IF a > b THEN a - b ELSE b - a

ControllerStates == {<<"INITIALIZING", "READY", "STOPPED">>,
                     <<"INITIALIZING", "READY", "DEGRADED", "STOPPED">>}

\* The event lies at a time of its producer, as the drifting clock shows it, up
\* to the jitter.
At(e, time) ==
    LET shown == time + Quotient(time * config.clock_drift, ProbabilityScale)
    IN  Far(e.timestamp, BaseTimestamp + shown) <= config.max_jitter

\* The schedule is exact for every duration, rate and drift, although it is
\* computed in pieces that cannot overflow.  A sensor has one event per whole
\* period of the duration, all inside it, each at its period's start; the
\* controller runs through its states, the last of them at the end of the
\* duration; without jitter no producer's events change places, whatever the
\* draws and the drift; timestamps are positive, as the collector demands, and
\* only the controller's events exceed the limit on the number of events.
ScheduleSound ==
    generator = "drop" =>
      /\ \A s \in Sensors :
           LET d == config.duration
               rate == config.rates[s]
           IN  /\ Cardinality(OfProducer(s)) = (d * rate) \div Second
               /\ \A i \in OfProducer(s) :
                    LET start == (base_events[i].number * Second) \div rate
                    IN  start < d /\ At(base_events[i], start)
      /\ \E states \in ControllerStates :
           /\ Cardinality(OfProducer("sim-controller")) = Len(states)
           /\ \A i \in OfProducer("sim-controller") :
                LET e == base_events[i]
                IN  /\ e.state = states[e.number + 1]
                    /\ e.state = "STOPPED" => At(e, config.duration - 1)
      /\ config.max_jitter = 0 => InOrder(base_events)
      /\ \A i \in DOMAIN base_events : base_events[i].timestamp > 0
      /\ Len(base_events) <= MaxGeneratedEvents + 4

\* What swapping the pairs that begin at the positions in starts makes of s.
PairsSwapped(s, starts) ==
    [i \in DOMAIN s |-> IF i \in starts THEN s[i + 1]
                        ELSE IF i - 1 \in starts THEN s[i - 1] ELSE s[i]]

\* The statistics explain the events: all generated events but the dropped ones
\* are there, the duplicated ones twice, in a row and in order, and the result
\* differs from that only in reordered_pairs neighbours that changed places: no
\* event is carried further than one place, whatever the draws.
FaultsAccounted ==
    AllReordered =>
      /\ Len(emitted) = stats.generated - stats.dropped + stats.duplicated
      /\ LET copies(e) == Cardinality({i \in DOMAIN emitted : emitted[i] = e})
             counted(n) == Cardinality({i \in DOMAIN base_events : copies(base_events[i]) = n})
         IN  /\ counted(0) = stats.dropped /\ counted(2) = stats.duplicated
             /\ counted(0) + counted(1) + counted(2) = stats.generated
      /\ \A i \in 1 .. Len(emitted) - 1 :
           emitted[i] = emitted[i + 1] \/ EventBefore(emitted[i], emitted[i + 1])
      /\ \E starts \in SUBSET (1 .. Len(emitted) - 1) :
           /\ \A i \in starts : i + 1 \notin starts
           /\ Cardinality(starts) = stats.reordered_pairs
           /\ events = PairsSwapped(emitted, starts)

\* Without jitter, duplicates and swaps every producer's numbers increase, also
\* for a clock that stands still (a drift of -100 %) and for durations of a few
\* nanoseconds, where all timestamps are equal: nothing is sent that the
\* collector would refuse as a sequence fault nobody asked for.
CleanIsInOrder ==
    /\ AllReordered
    /\ config.max_jitter = 0 /\ config.duplicate = 0 /\ config.reorder = 0
    => InOrder(events)
=============================================================================
