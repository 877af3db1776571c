------------------------------ MODULE Analyzer ------------------------------
(***************************************************************************)
(* analyze_log (src/analysis/analyzer.cpp) on a log that read_log found    *)
(* complete: one action per turn of its loop over the records, one for     *)
(* what follows.  The log is arbitrary, so each turn takes any record.     *)
(*                                                                         *)
(* A record has the fields the loop reads.  Sequence numbers and their     *)
(* sums are words of Word values, 2^64 in the code.  Times are integers    *)
(* and a rate is the pair of its numerator and its span.  The percentiles  *)
(* take a fraction in hundredths: for every number of values below the     *)
(* record limit the double product rounds up to the same rank.             *)
(***************************************************************************)
EXTENDS Integers, Sequences, FiniteSets, FiniteSetsExt, Functions, Sorting

CONSTANTS
    Records,        \* the records a log may hold
    Word,           \* number of values of a uint64_t
    MaxRecords,     \* bound: length of the log
    Empty           \* an empty optional

ASSUME WordAssumption == Word \in Nat \ {0}
ASSUME RecordsAssumption ==
    \A r \in Records : r.number \in 0 .. Word - 1 /\ r.arrival \in Int /\ r.source \in Int
ASSUME EmptyAssumption == Empty \notin Int

VARIABLES
    log,            \* the records of the turns so far
    finished,       \* the loop is over
    producers,      \* ProducerAccumulator of each producer
    streams,        \* StreamAccumulator of each stream
    previous_source_timestamps,
    utc_arrival_delta,
    first_collector_timestamp,
    last_collector_timestamp,
    faults,         \* report.faults, by severity
    report          \* the statistics computed after the loop

analyzerVars == <<log, finished, producers, streams, previous_source_timestamps,
                  utc_arrival_delta, first_collector_timestamp,
                  last_collector_timestamp, faults, report>>

Severities == {"warning", "error", "critical"}

StreamKey(r) == <<r.producer, r.payload>>
SourceClockKey(r) == <<r.producer, r.payload, r.clock>>

AnalyzerInit ==
    /\ log = <<>>
    /\ finished = FALSE
    /\ producers = << >>
    /\ streams = << >>
    /\ previous_source_timestamps = << >>
    /\ utc_arrival_delta = <<>>
    /\ first_collector_timestamp = Empty
    /\ last_collector_timestamp = Empty
    /\ faults = [s \in Severities |-> 0]
    /\ report = << >>

\* What map::operator[] finds, or inserts.
Lookup(map, key, default) == IF key \in DOMAIN map THEN map[key] ELSE default

\* The map after the entry of a key was written.
Put(map, key, value) ==
    [k \in DOMAIN map \cup {key} |-> IF k = key THEN value ELSE map[k]]

NewProducer ==
    [records |-> 0, gaps |-> 0, non_increasing |-> 0, previous_sequence |-> Empty]
NewStream == [records |-> 0, regressions |-> 0, collector_timestamps |-> <<>>]

\* Mutant: the difference is taken of numbers that do not increase, too.
MissedAnyway(previous, number) == IF previous = Empty THEN 0 ELSE number - previous - 1

\* The numbers missing between two records of a producer.
Missed(previous, number) ==
    IF previous # Empty /\ number > previous THEN number - previous - 1 ELSE 0

\* The sequence accounting of one record of a producer.
Counted(p, number) ==
    LET previous == p.previous_sequence
    IN  [records |-> p.records + 1,
         non_increasing |-> p.non_increasing
           + (IF previous # Empty /\ number <= previous THEN 1 ELSE 0),
         gaps |-> (p.gaps + Missed(previous, number)) % Word,
         previous_sequence |-> number]

Regresses(r) ==
    /\ SourceClockKey(r) \in DOMAIN previous_source_timestamps
    /\ r.source <= previous_source_timestamps[SourceClockKey(r)]

Remembered(r) == Put(previous_source_timestamps, SourceClockKey(r), r.source)

FaultsWith(r) == [s \in Severities |-> faults[s] + (IF s = r.severity THEN 1 ELSE 0)]

\* The turn of the loop for a record.
AnalyzeRecord(r) ==
    /\ ~finished
    /\ Len(log) < MaxRecords
    /\ log' = Append(log, r)
    /\ producers' =
         Put(producers, r.producer,
             Counted(Lookup(producers, r.producer, NewProducer), r.number))
    /\ streams' =
         LET s == Lookup(streams, StreamKey(r), NewStream)
         IN  Put(streams, StreamKey(r),
                 [records |-> s.records + 1,
                  regressions |-> s.regressions + (IF Regresses(r) THEN 1 ELSE 0),
                  collector_timestamps |-> Append(s.collector_timestamps, r.arrival)])
    /\ previous_source_timestamps' = Remembered(r)
    /\ utc_arrival_delta' =
         IF r.clock = "UTC" THEN Append(utc_arrival_delta, r.arrival - r.source)
         ELSE utc_arrival_delta
    /\ first_collector_timestamp' =
         IF first_collector_timestamp = Empty \/ r.arrival < first_collector_timestamp
           THEN r.arrival ELSE first_collector_timestamp
    /\ last_collector_timestamp' =
         IF last_collector_timestamp = Empty \/ r.arrival > last_collector_timestamp
           THEN r.arrival ELSE last_collector_timestamp
    /\ faults' = FaultsWith(r)
    /\ UNCHANGED <<finished, report>>

-----------------------------------------------------------------------------
(* After the loop *)

\* Equal values are not told apart, so it does not matter that std::sort may
\* swap them.
Sorted(values) ==
    LET places == 1 .. Len(values)
        order == {p \in places \X places :
                    \/ values[p[1]] < values[p[2]]
                    \/ values[p[1]] = values[p[2]] /\ p[1] < p[2]}
    IN  [k \in places |-> values[Ranked(places, order)[k]]]

Least(a, b) == IF a < b THEN a ELSE b

\* Nearest rank: the element at index ceil(fraction * n) - 1 from zero.
percentile(values, hundredths) ==
    LET rank == (hundredths * Len(values) + 99) \div 100
    IN  Sorted(values)[Least(IF rank = 0 THEN 1 ELSE rank, Len(values))]

\* Mutant: arrivals are taken in the order of the file.
ArrivalsInFileOrder(stream) == stream.collector_timestamps

Arrivals(stream) == Sorted(stream.collector_timestamps)

Magnitude(n) == IF n < 0 THEN -n ELSE n

finish_stream(stream) ==
    LET t == Arrivals(stream)
        n == Len(t)
        span == t[n] - t[1]
        intervals == [i \in 1 .. n - 1 |-> t[i + 1] - t[i]]
        median == percentile(intervals, 50)
        deviations == [i \in 1 .. n - 1 |-> Magnitude(intervals[i] - median)]
    IN  IF n < 2 THEN [rate |-> Empty, interarrival |-> Empty, jitter |-> Empty]
        ELSE [rate |-> IF span > 0 THEN <<n - 1, span>> ELSE Empty,
              interarrival |-> median,
              jitter |-> percentile(deviations, 95)]

distribution(values) ==
    [samples |-> Len(values), p50 |-> percentile(values, 50), p95 |-> percentile(values, 95),
     p99 |-> percentile(values, 99), maximum |-> percentile(values, 100)]

\* The duration, the statistics of each stream and of the UTC deltas.
FinishReport ==
    /\ ~finished
    /\ finished' = TRUE
    /\ report' =
         [streams |-> [k \in DOMAIN streams |-> finish_stream(streams[k])],
          duration |-> IF first_collector_timestamp = Empty THEN Empty
                       ELSE last_collector_timestamp - first_collector_timestamp,
          utc |-> IF utc_arrival_delta = <<>> THEN Empty ELSE distribution(utc_arrival_delta)]
    /\ UNCHANGED <<log, producers, streams, previous_source_timestamps, utc_arrival_delta,
                   first_collector_timestamp, last_collector_timestamp, faults>>

AnalyzerNext == (\E r \in Records : AnalyzeRecord(r)) \/ FinishReport

AnalyzerSpec == AnalyzerInit /\ [][AnalyzerNext]_analyzerVars

-----------------------------------------------------------------------------
(* Properties *)

\* The last record before i with the same key, or 0.
Preceding(Key(_), i) ==
    Max({0} \cup {j \in 1 .. i - 1 : Key(log[j]) = Key(log[i])})

Producer(r) == r.producer

\* "sequence_gaps sums missing values between increasing sequence numbers";
\* "non_increasing_sequences counts duplicate or decreasing numbers"
\* (docs/analysis.md).  Stated over the log: the missing numbers are counted
\* one by one, up to the wrap of the sum, for producers that interleave and
\* start again.
SequencesAccounted ==
    \A p \in DOMAIN producers :
      LET mine == {i \in DOMAIN log : log[i].producer = p}
          missing == {m \in mine \X (0 .. Word - 1) :
                        LET j == Preceding(Producer, m[1])
                        IN  j # 0 /\ log[j].number < m[2] /\ m[2] < log[m[1]].number}
          restarts == {i \in mine : LET j == Preceding(Producer, i)
                                    IN  j # 0 /\ log[i].number <= log[j].number}
      IN  /\ producers[p].records = Cardinality(mine)
          /\ producers[p].gaps = Cardinality(missing) % Word
          /\ producers[p].non_increasing = Cardinality(restarts)

\* "source_timestamp_regressions counts timestamps that are less than or equal
\* to the preceding timestamp for the same producer, payload, and source clock
\* domain in append order" (docs/analysis.md), in streams that mix clocks.
RegressionsCounted ==
    \A k \in DOMAIN streams :
      streams[k].regressions =
        Cardinality({i \in DOMAIN log :
                       /\ StreamKey(log[i]) = k
                       /\ LET j == Preceding(SourceClockKey, i)
                          IN  j # 0 /\ log[i].source <= log[j].source})

FaultsCounted ==
    \A v \in Severities : faults[v] = Cardinality({i \in DOMAIN log : log[i].severity = v})

\* The counters of the single pass are what the definitions give for the whole
\* log.
CountsAsDocumented == SequencesAccounted /\ RegressionsCounted /\ FaultsCounted

\* v is the nearest-rank percentile of a function's values.
NearestRank(v, values, hundredths) ==
    LET n == Cardinality(DOMAIN values)
        upto == Cardinality({i \in DOMAIN values : values[i] <= v})
        below == Cardinality({i \in DOMAIN values : values[i] < v})
    IN  /\ v \in Range(values)
        /\ 100 * upto >= hundredths * n
        /\ 100 * below < hundredths * n

\* The records of a stream, those that arrived after record i, and the time
\* from i to the next of them: no sorting, whatever order the file has.
Members(k) == {i \in DOMAIN log : StreamKey(log[i]) = k}
After(k, i) ==
    {j \in Members(k) : \/ log[j].arrival > log[i].arrival
                        \/ log[j].arrival = log[i].arrival /\ j > i}
Intervals(k) ==
    [i \in {j \in Members(k) : After(k, j) # {}} |->
       Min({log[j].arrival : j \in After(k, i)}) - log[i].arrival]
Deviations(k, median) == [i \in DOMAIN Intervals(k) |-> Magnitude(Intervals(k)[i] - median)]
Span(times) == Max(times) - Min(times)

\* Stream timing and UTC deltas are what docs/analysis.md defines: the rate
\* over the measured span, the nearest-rank median of the intervals between
\* adjacent arrivals, the p95 of their deviations from it, "n/a" for fewer
\* than two samples or an empty span, and UTC deltas over UTC records only.
TimingAsDocumented ==
    finished =>
      /\ \A k \in DOMAIN streams :
           LET t == report.streams[k]
               n == Cardinality(Members(k))
               span == Span({log[i].arrival : i \in Members(k)})
           IN  IF n < 2 THEN t = [rate |-> Empty, interarrival |-> Empty, jitter |-> Empty]
               ELSE /\ t.rate = (IF span = 0 THEN Empty ELSE <<n - 1, span>>)
                    /\ NearestRank(t.interarrival, Intervals(k), 50)
                    /\ NearestRank(t.jitter, Deviations(k, t.interarrival), 95)
      /\ LET utc == {i \in DOMAIN log : log[i].clock = "UTC"}
             delta == [i \in utc |-> log[i].arrival - log[i].source]
         IN  IF utc = {} THEN report.utc = Empty
             ELSE /\ NearestRank(report.utc.p50, delta, 50)
                  /\ NearestRank(report.utc.p95, delta, 95)
                  /\ NearestRank(report.utc.p99, delta, 99)
                  /\ report.utc.maximum = Max(Range(delta))
                  /\ report.utc.samples = Cardinality(utc)
      /\ log # <<>> => report.duration = Span({log[i].arrival : i \in DOMAIN log})
=============================================================================
