# TraceForge in TLA+

TraceForge collects telemetry: phones and generated workloads stream events
over gRPC to a collector, which validates them, passes them through a bounded
queue to one consumer thread, and records them in a checksummed append-only
log that other commands inspect, recover, replay and analyze. This directory
models that system, checks the models with TLC on small instances and proves
every safety property with TLAPS for all instances.

Paths below are relative to the repository root (`src/` in `PROJECT.json`).

## 1. Inventory

| Component | Source | State | Operations | Talks to |
|---|---|---|---|---|
| BoundedQueue | `include/traceforge/concurrency/bounded_queue.hpp` | deque, closed flag, counters, high watermark, one mutex, one condition variable | `try_push`, `wait_pop`, `close`, `stats` | called by the sink's threads |
| QueuedTelemetrySink | `src/telemetry/queued_sink.cpp` | the queue, a worker thread, three relaxed atomics | constructor, `try_accept`, `shutdown`, `stats`, `consume_loop` | handlers above, a `TelemetryConsumer` below |
| StreamValidator | `src/telemetry/validation.cpp` | producer, first/last sequence number, gap and event counts | `accept`, `populate_summary` | owned by a reactor |
| CollectorService | `src/telemetry/collector_service.cpp` | one reactor per stream: last event, validator, response | `StreamTelemetry`, `OnReadDone`, `OnDone` | gRPC, sink |
| Recording log | `src/recording/log.cpp`, `log_consumer.cpp` | buffered file, error flag, record and byte counts; a reader's index | `append`, `flush`, close, `read_log`, `recover_truncated_tail` | called by the worker thread and by the `inspect`, `recover`, `replay`, `analyze` commands, possibly while a collector records |
| ReplayEngine | `src/replay/replay.cpp` | sorted index of a log | constructor, `replay` | recording file |
| Analyzer | `src/analysis/analyzer.cpp` | accumulators per producer and stream | `analyze_log` | recording file |
| WorkloadGenerator | `src/generator/workload_generator.cpp` | configuration, scheduled events, result with statistics | constructor, `generate` | called by `generate` and the benchmarks |
| WorkloadPublisher | `src/generator/workload_publisher.cpp` | one thread and stream per producer, report | `publish` | collector over gRPC |
| Collector process | `app/main.cpp` | options, signal flag, server, sink, recorder | options, start, signal, shutdown, flush, report | everything above |
| Other commands | `app/main.cpp` | options, result | `generate`, `inspect`, `recover`, `analyze`, `replay` | generator, publisher, log, analyzer, engine |
| Flutter sensor client | `clients/flutter_sensor/lib/src` | controller flags, subscriptions, one gRPC stream | `start`, `stop`, `dispose`, sample callbacks | collector over gRPC |

What is hard: the queue notifies after it has unlocked; the worker, the
handlers and the owner of the sink race at shutdown and at a consumer failure;
the sink's flag is read with relaxed ordering and its worker starts before its
atomics are initialised; the validator counts events the sink may still
refuse; the log can be cut at any byte by a crash or a full disk, damaged, or
read and recovered while it grows; a generated workload may be refused in the
middle of a stream; the client's `start` and `stop` interleave
at every `await`. `PROJECT.json` lists each hazard at its line with the
properties that cover it.

What makes each part correct:

* queue: FIFO without loss, exact bounds and statistics, no lost wakeup, `close`
  final and releasing everybody;
* sink: every accepted event is consumed, refused or left behind, in order, and
  counted exactly; `shutdown` ends; a consumer failure stops ingestion for good;
* service: summaries and statuses tell the truth about what was queued;
* log: readers return exactly the whole records, never a wrong one; flushed
  records survive a crash, and a later collector given the same path, as far as
  the reader's record limit; `recover` removes an incomplete tail and nothing
  else;
* collector process: a signal ends it, exit status 0 means that everything
  accepted is on disk, and no object is destroyed under a thread that uses it;
* sensor client: stop returns and releases what start acquired, and every
  stream is numbered without a gap;
* replay: exactly the records of the window, in order, or an error after a
  prefix of them;
* generator: the schedule is exact at every limit, the injected faults are what
  the statistics say, and nothing else disturbs the order of a producer;
* publisher and `generate`: success is reported only when everything was
  accepted, and the command ends;
* analyzer: its one-pass counters are what the definitions in
  `docs/analysis.md` give for the whole log.

## 2. Modules

| Module | Models | Role |
|---|---|---|
| `BoundedQueue` | the queue | component |
| `IngestPipeline` | what the ingestion pipeline promises, without threads | abstract specification |
| `QueuedSink` | the sink; EXTENDS `BoundedQueue` | composition, implements `IngestPipeline` |
| `StreamValidation` | the validator, as operators on a record | pure algorithm |
| `CollectorService` | reactors; EXTENDS `QueuedSink`, `StreamValidation` | composition of service, validator, sink and queue |
| `RecordingLog` | writer, reader and recovery on one file of bytes | component |
| `CommandLine` | the option loops of `app/main.cpp`, as operators | pure algorithm |
| `Replay` | the replay engine and `run_replay`; EXTENDS `RecordingLog`, `CommandLine` | composition of command, engine and a live file |
| `CollectorProcess` | `run_collector`; EXTENDS `IngestPipeline`, `CommandLine` | composition of options, main thread, signal monitor, gRPC server and pipeline |
| `WorkloadGenerator` | validation, schedule and fault injection | component |
| `GenerateCommand` | `run_generator`; EXTENDS `WorkloadGenerator`, `WorkloadPublisher`, `CommandLine` | composition of command, generator, publisher and collector |
| `WorkloadPublisher` | the publisher and its peer, the reactor | component |
| `SensorClient` | controller and publisher of the Flutter client | component |
| `Analyzer` | the analyzer's loop and statistics | algorithm against reference definitions |
| `Sorting` | `std::sort`, as a rank among the elements of a set | pure algorithm |
| `BoundedQueueProofs`, `QueuedSinkProofs`, `CollectorServiceProofs` | theorems of queue, sink and service, each on top of the one before | proofs |
| `RecordingLogProofs`, `ReaderProofs` | theorems of the log, and of replay and analyzer, which read it | proofs |
| `EndpointProofs` | theorems of the collector process and of the sensor client | proofs |
| `GenerateCommandProofs` | theorems of generator, publisher and command | proofs |
| `SetLemmas` | least numbers, induction as a fact about sets of numbers, division, ranks and counting | lemmas |
| `MCEndpoints`, `MCReaders` | collector process or sensor client; replay or analyze | model checking |
| other `MC*` | instances for TLC | model checking |

### BoundedQueue

A critical section is one action, since every member is accessed under
`mutex_`. The notification is not under the mutex, so it is an action of its
own: after `TryPush` a producer's `call` is `"notify_one"` until `NotifyOne`,
after `Close` it is `"notify_all"` until `NotifyAll`. A consumer blocked in
`condition_variable::wait` is `"waiting"`; a notification or a spurious wakeup
makes it `"woken"`, and `WaitPop` evaluates the predicate again.
`pushed`, `taken` and `ended` record the history of the items, `tried` the calls
of `try_push` and `sizes` every size the queue has had, which is what
`StatsExact` compares the statistics with.

### QueuedSink

Each step of a thread is one access to shared state: a load or store of an
atomic, a critical section of the queue, a notification, or one call of
`consume`. The owner (`Main`) starts in the constructor, where the atomics
hold arbitrary values (`Garbage`) and the worker already runs, because
`consumer_thread_` is declared before them. A relaxed load of
`accepting_events_` may return the old value until the reader has read the
new one itself or has learnt from the queue's mutex that the queue is closed
(`view`). `Shutdown` is enabled again when it has returned: the destructor
calls it a second time.

### StreamValidation and CollectorService

`Valid` and `Accepted` are the two halves of `StreamValidator::accept`.
Payloads are reduced to their kind and the flaw `validate_payload` would find;
sequence arithmetic is modulo `Word`, which stands for 2^64. A reactor is
`"reading"`, `"offering"` (inside `try_accept`) or `"finished"`; gRPC runs one
callback of a reactor at a time, so a stream is a thread of the sink. Clients
are the environment: any event of `Events`, or the end of the stream.

### RecordingLog

The file is a sequence of bytes, each labelled with what it was written as, so
a checksum matches when the bytes it covers are the ones written. The output
stream is buffered: bytes reach the file in arbitrary pieces (`Drain`), at the
latest with a flush. A failed write or flush leaves any proper prefix of the
pending bytes in the file. `read_log` is one action for the file size and the
file header and one per turn of its loop, with the file free to change in
between; `Verdict` makes the decisions of the loop body in their order.
`Rot` turns one stored byte bad. The constructor is `OpenLog` on a new path,
`OpenFails` when that path cannot be checked or opened or its file header is not
written, and `OpenExisting` in a later collector that is given the path of a
recording an earlier one left, closed or crashed: it refuses before it opens.
Assumed of the stream library: bytes of a write that failed are not written a
second time at close.

### Replay

The engine's `read_log` is the reader of `RecordingLog`, so the index is what
that reader returned, sorted by arrival timestamp and record index. `replay` is one
action up to the opening of the file (`StartReplay`) and one per turn of its
loop (`ReplayRecord`); a collector appends to the file and a byte may go bad
between them. An `ifstream` buffers, so a payload comes from the file as it
was at the open or as it is now. `Sequential` is the fast path that reads on
without a seek. The hash is modelled as the sequence of what was hashed;
pacing only delays turns, which may be arbitrarily late anyway. The caller is
the command, which reads its options first, replays once and prints every
record, or other code with any options and a consumer that may reject a record.

### CommandLine

`ReadArguments` is the loop that `collect`, `generate` and `replay` share, one
argument after the other (`Scans`): an option takes the next argument as its value
whatever that is, `--help` ends the loop where an option is expected, and the
last value of a repeated option counts. Each command has its own test of a
value (`CollectorOptions`, `GeneratorOptions`, `CommandOptions` of
`Replay`). An argument is its text and the number it parses to.

### CollectorProcess

`ReadOptions` is the option loop with its last check, that a delayed consumer
cannot record; then `main` follows `run_collector` statement by statement as far as state changes,
then the destruction of its locals in reverse order of declaration. The
signals are process state: until a handler is installed a signal kills the
process. The pipeline is `IngestPipeline`, which the sink is proved to
implement. Assumed of gRPC: `Shutdown()` without a deadline refuses new
streams and returns when the open ones have ended, and `Wait()` returns then.

### WorkloadGenerator

`Construct` is the constructor, which throws on a configuration
`validate_config` refuses. `Schedule` computes the events of every producer,
with any jitter and any controller schedule the draws allow, and sorts them;
`DropOrDuplicate` and `Reorder` are one turn each of the two loops that inject
faults. A draw of `PortableRandom` is a choice among the values it can return, so
that every behaviour is one for some seed and engine; that two runs with one seed
are equal is not stated. Units are scaled down: a second is 8 units of time and
probabilities and drift have scale 4, with the same divisions and remainders as
in the code. Payload values other than the controller's state are left out:
they depend on the sequence number only and stay inside the collector's bounds.

### GenerateCommand

`run_generator` from its arguments to its exit status: options, generator, and a
publish if there is a target. `CallLibrary` is the generator called by other
code, with rates the command cannot set.

### WorkloadPublisher

One thread per producer of the workload (`group_by_producer`), one stream per
thread, events between `Write` and the reactor on `wire`. The collector takes
them in order and answers as `CollectorService` does; the connection may break
at any time (`Break`), after which the client sees `UNAVAILABLE` although the
collector keeps what it accepted.

### SensorClient

Dart runs one stretch of code at a time, so an action is a stretch between two
awaits. Subscriptions, timers, channels and event streams are named after the
`start` call that made them, so that an object which outlives its call is
visible. A timeout may elapse as long as the awaited thing has not happened.
`overlapped` remembers that a call was made while another was suspended.
Two awaits have no timeout. Whether the gRPC library listens to the event stream
of a connection that never became ready is not decided by this code, so
`CleanupDone`, which needs a listener, may or may not come. And `prepareLocation`
waits for the permission dialog as long as the user does, so `Located` may or may
not come either.
`notifyListeners` on a disposed controller does nothing, as in a release build.

### Analyzer

One action per turn of the loop and one for the statistics after it. Sequence
numbers and their sums are modulo `Word`. A rate is the pair of its numerator
and its span, so no floating point is needed; percentiles use the rank
`ceil(f * n)` exactly, which equals the code's rank in doubles for every
`n` up to the reader's limit of 1,000,000 records.

## 3. Runs

| Run | Instance | Result |
|---|---|---|
| `bounded_queue` | 2 producers, 2 consumers, 1 closer, capacity 2, 4 pushes, 2 values | holds |
| `queued_sink` | 2 handlers, worker, owner, capacity 2, 4 pushes, arbitrary initial counters | holds |
| `collector_service` | 2 streams, 5 valid and 7 invalid events, 3 offers, 2-bit sequence numbers | holds |
| `recording_log` | 3 records and a reader limit of 2, flush every 2, one oversized event, one bad byte, crash anywhere, a constructor that fails, a later one on the same path | holds |
| `recording_limit` | the same without the bad byte | violated: finding |
| `recording_live` | `recover` beside a recording collector | violated: finding |
| `endpoints` | collector: argument lists of every outcome, 2 streams whose clients end them, 2 signals, 3 events; client: 2 starts, 2 stops, dispose, 2 samples | holds |
| `collector_process_clients` | 2 streams whose clients need not end them | violated: finding |
| `sensor_client_tap` | 2 starts, 2 stops | violated: finding |
| `sensor_client_start` | 1 start, a collector that cannot be reached | violated: finding |
| `readers` | replay: logs of up to 3 records, 2 of them with equal arrivals, 9 argument lists, 4 windows and an invalid speed, one bad byte; analyze: all logs of up to 4 records, 2 producers, 2 clocks, 2 payloads, 3 arrival times, 2-bit sequence numbers | holds |
| `generate` | 12 argument lists and 253 configurations; durations of 1 to 23 units at 8 units per second, drifts from -100 % to +100 %, two streams, a wire of one place | holds |

`endpoints` and `readers` each check two specifications that share no state. A
behaviour of the run is a behaviour of one of them while the other has not begun,
so that the states of the two add up instead of multiplying; a part that has not
begun has no fair action enabled.

What the passing runs show, beyond the type invariants:

* queue: `Fifo`; `StatsExact` (the high watermark is the largest of all sizes the
  queue had, and accepted and rejected pushes add up to the ones tried);
  `EndIsFinal`, `NoLostWakeup`; that close releases everybody and no item stays
  beside a blocked consumer;
* sink: `Conservation` of accepted events through failures, shutdown races,
  stale flag reads and the unfinished constructor; the refinement of the queue
  and of `IngestPipeline`; shutdown completes, a failed consumer stops
  ingestion, accepted events are not starved;
* service: statuses, summaries and gap counts describe what was queued;
* log: beyond its types, `TypeOK` ties the byte counter and the stream position to
  the bytes written; `recording_log` shows that no cut, failure or bad byte makes a reader
  return a wrong record, that flushed records survive a crash and a later
  collector on the same path (`FlushedSurvive`, up to the reader's record limit),
  and that `recover` cuts only the incomplete tail when nobody records and leaves a
  file without a flaw; `RecoverRefusals` bounds what `recover` refuses of undamaged
  files: those without a whole file header and those that go on behind the
  reader's limit, among them the one that `recording_limit` is about;
* replay: `ReplaysWindow` (a complete replay is the window, sorted, and any other
  a prefix of it) and `FailsOnlyOnDamage` (a file that only grows, or stays,
  replays without error);
* process: `ExitZeroIsComplete`, `ObjectsOutliveUsers`, `SignalEndsProcess`;
* generator: `ScheduleSound` compares the pieces the schedule is computed in with
  the undivided quotients; `FaultsAccounted` recovers drops, duplicates and swaps
  from the events and compares them with the statistics; `CleanIsInOrder`;
* publisher and `generate`: `ReportTruthful`; `ExitStatusTruthful`, under which the
  gaps the collector reports are the drops the generator injected;
  `GenerateReturns`;
* client: `StopReleasesAll` as long as calls do not overlap, `ContiguousNumbers`
  and `StopReturns` always; that `start` returns is not claimed;
* analyzer: `CountsAsDocumented` and `TimingAsDocumented` compare the
  accumulators with definitions over the whole log.

Why the bounds are enough: two producers and two consumers are the fewest with
which one thread's notification can go to the wrong waiter, and a queue of two
places filled by three or more pushes reaches empty, partly full and full, and
wraps around. Three records with a flush after the second give every position
of a cut relative to flushed, buffered and torn records. Word size 4 makes
first and last sequence number, gaps of zero, one and two, and the largest
number all reachable. The two-byte headers and one- and two-byte payloads let
a cut fall before, inside and after each of them. In `Replay` two records with
equal arrivals and one later, in any order, make every order of index and file,
with windows open and closed at each end. Two calls of start and two of stop
are the fewest with which a late continuation of one call meets the objects of
the next. In `GenerateCommand` durations end inside a second, inside a period and at the
limits, a clock runs at no speed and at double speed, and one configuration has
exactly the allowed number of events; a sensor and the controller, a wire of one
place and four to six events fill the buffer while a stream is refused. The
workloads that are published stay small because every interleaving of two
threads, two reactors and a broken connection is explored. Four records over a two-bit word hold gaps, restarts and repeats
of two interleaved producers.

`CHECK_DEADLOCK FALSE` stands where the system may rest: no call in progress
and the bounds used up, a replay or publish that has returned, a log at its end.
Of the two parts of `endpoints` only the client rests like that; a collector that
has not exited can always be sent a signal, and that a signal ends it is
`SignalEndsProcess`.

Fairness. `QueueFairness` and `SinkFairness` are weak fairness of threads that
are inside a call: the scheduler runs runnable threads, and `consume` returns
(the log writer and the counting consumer do finite work). Nobody is obliged
to push, to close or to shut down, and spurious wakeups need not happen.
`ProcessFairness` is weak fairness of the main thread, the monitor, the worker
and of gRPC finishing a shutdown that can finish; nobody has to give the
command, signals and clients are free, and only `FairClientsSpec` and `EndpointsSpec` make clients end their streams.
`ClientFairness` lets suspended Dart calls go on and timeouts elapse; not assumed
are a connection, an acknowledgement, a listener on a failed stream and an answer
to the permission dialog. `PublishFairness` runs the
publisher's threads and the collector's callbacks, which do not wait for the
consumer (`try_push` refuses instead of waiting); `CommandSpec` adds the command's
own thread. A connection that is neither broken nor served is thereby excluded:
no RPC of the publisher has a deadline.

### Findings

* `recording_limit`: `read_log` tests the record limit before it looks at the
  bytes left (`src/recording/log.cpp:276`), so a recording with exactly
  `maximum_records` complete records and an interrupted one behind them is
  `resource_limit`, and `recover` refuses it although nothing is damaged.
  `README.md:239` says "If a shutdown interrupts only the final record, recover all
  prior complete records".
* `recording_live`: `recover` truncates to what it read, without a lock or a
  second look; beside a collector that still records it removes completed
  records. `docs/recording-format.md` says "The `recover` command truncates
  only that incomplete tail".
* `collector_process_clients`: the monitor calls `Shutdown()` without a deadline
  (`app/main.cpp:397`), so one client that keeps its stream open keeps the
  process from draining, flushing and exiting. `README.md` says that a signal
  "stops gRPC, drains accepted queue entries, flushes the recording, and reports
  final [...] counters before exiting".
* `sensor_client_tap`: `start` does not look at `_isRunning` after it has awaited
  the connection (`telemetry_controller.dart:55`), so a Stop tapped meanwhile
  does nothing and the stream stays open on a stopped controller.
  `docs/demo.md` says "Close the stream. Tap Stop". The same property covers a
  Start during the awaits of a Stop, which then overwrites the subscriptions of
  the new start (`telemetry_controller.dart:114`).
* `sensor_client_start`: after a connection timeout `start` awaits `events.close()`
  (`grpc_telemetry_publisher.dart:123`), which completes only when the stream has
  a listener; a gRPC library that listens once it is connected never does (the
  stub of the test listens at once), and nothing bounds this await.
  `clients/flutter_sensor/README.md:43` says that timeouts make sure that "an
  unreachable collector cannot leave Start or Stop waiting indefinitely".

Met while modelling, and left to the reader without a run:

* The limit of 2,000,000 generated events (`workload_generator.cpp:100`) does not
  count the controller's events, nor duplicates, and is twice the number of
  records `read_log` reads by default.
* Jitter is added before the sort (`workload_generator.cpp:160`), so it can
  exchange two events of one producer, and the collector then refuses the stream
  although no reordering was asked for. `CleanIsInOrder` therefore excludes jitter.
* `traceforge replay` with `--until-ns` not after `--from-ns` exits with 3, not
  with 2 as for other unusable options: the engine finds it, not the option loop.
* `LogWriter` tests `exists` and opens with truncation in two steps
  (`log.cpp:103`): two collectors on one new path can both pass the test.
* After a failed flush `run_collector` returns at `app/main.cpp:404` before it
  reads and reports the counters.

## 4. Proofs

All theorems hold for every value of the constants that satisfies the named
assumptions of the modules: a positive capacity, finitely many threads, for
the sink one worker and one owner different from the handlers, positive header
sizes and a positive flush interval for the log, a positive word size. Each
safety theorem has the same shape: an inductive invariant, lemmas for the
conjuncts and actions that can disturb it, and a last step that combines them.
TLC checked the invariants it can evaluate on the instances of the runs before
they were proved. With the proofs every invariant and every safety property of a
passing run is a theorem.

Two things make proofs over data possible here, where the library's induction
theorems cannot be used. Induction is a fact about sets: a set that holds zero
and, with each number below `n`, its successor, holds all numbers up to `n`
(`SetLemmas!SetInduction`, from the least number outside). And sorting is a
rank: `Ranked(S, r)` puts an element with `k` others before it at place `k + 1`,
and for a total order that is the one arrangement in order (`RankedSorts`,
`SortedIsRanked`), by counting.

### Queue and sink

* `BoundedQueueProofs!TypeCorrect`, `HistoryCorrect`: the type invariant
  (which bounds the queue's length) and `Fifo /\ StatsExact /\ EndIsFinal`;
  `StatsCorrect` and `EndCorrect` state the last two alone. The watermark is
  maximal because `sizes` remembers every size and a size is added only where the
  watermark is raised, or where the queue becomes shorter.
* `BoundedQueueProofs!WakeupCorrect`: `NoLostWakeup`. Its first conjunct counts
  the producers that still have to notify and the consumers that are awake, so
  the argument is about cardinalities: each action changes the two sets by at
  most one thread, and a consumer blocks only on an empty queue.
* `QueuedSinkProofs!SinkTypeCorrect` needs more than types: a thread's `pc` and
  its `call` in the queue agree, the worker in `"consume"` holds an event
  (`HoldsEvent`), and the bound on the calls counts the handlers that are about
  to push (`PushBound`).
* `SinkUsesQueue`: every step of the sink is a step of the queue or leaves it
  alone, so the queue's theorems hold inside the sink.
* `SinkConserves`: `Conservation /\ ExitIsClean`, from `Delivery`, which says
  where the worker may be once an event has been refused, and that an exited
  worker leaves a closed queue.
* `SinkImplementsPipeline`: initial states map to initial states and every step
  of the sink to a step of `IngestPipeline` or a stutter, with
  `open <- ~closed`, `stopped <- joined`. The run checks this together with the
  pipeline's liveness (`ImplementsLivePipeline`).
* `SinkStatsBalance`: `FinalStatsBalance`, from three invariants: `Construction`
  (while the atomics are uninitialised nothing has been accepted, so the worker
  has not touched them), `Counters` (each counter lags its history by exactly
  the step the worker is in), and `ShutdownOrder`.

### Service

* `CollectorServiceProofs!ServiceUsesSink`: every step of the service is a step
  of the sink or leaves it alone, so the theorems of sink and queue hold inside
  the service. The bound on calls the sink has needs `OfferBound`: a reactor
  that is about to offer still has an offer left.
* `SummariesTruthful`, `StreamsOrdered`, `NoEventDropped`, `AcknowledgedConsumed`
  state `SummaryTruthful`, `StreamsInOrder`, `NoSilentDrop` and
  `OkMeansConsumed`. The heart of `ServiceInv` is `Validated`: the validator of a
  stream describes the events of that stream that went into the queue, followed
  by the one `try_accept` still holds or has refused. That clause is needed
  because `accept` counts an event before the sink has taken it. The gap count is
  the number of sequence numbers between the first and the last that never came,
  which fits the word because the numbers increase (`MissingNumbers`).

### Recording log

`RecordingLogProofs` proves `LogTypes`, `ExposesOnlyAppended`,
`ReadsInterrupted`, `FlushedNeverLost`, `RefusesOnlyDamage` and `NoRecordLost`,
the six properties of the run `recording_log`, for every number and size of
records, flush interval, header size and reader limit, under the hypothesis
`RecoverLive = FALSE`: nobody recovers a file that is being recorded. Without
it `NoRecordLost` is false, as `recording_live` shows. `LogInv` has five parts:

* `WriterType`, `ReaderType`: types and the counters tied to the bytes;
* `WriterInv`: file and buffer together are the image of the counted records or
  a prefix of it, or the whole followed by a part of one more record, with each
  byte as it was written or bad, and everything flushed is in the file;
* `ReaderInv`: wherever the reader is, its offset is the end of a record it has
  returned, and the records are the first ones of that image, even while the
  writer appends behind it;
* `RecoveryInv`: a recovery refuses only files that are damaged, lack a whole
  file header or go on behind the reader's limit (`RefusesOnlyDamage`; what
  `README.md:239` promises is stronger and false, as `recording_limit` shows).

Offsets and images are recursive functions over the records, and induction over
them is `SetInduction`.

### Replay and analyzer

Assumed: arrival times are integers, and no two events have one payload, since
an event stands for its payload.

* `ReaderProofs!ReplaysItsWindow`, `UndamagedReplays`: `ReplaysWindow` and
  `FailsOnlyOnDamage`, on top of `LogInv`. `ReplayInv` adds that the index is the
  sorted arrangement of the first records of the recording, each with the offset
  it was written at (`IndexInv`), that the options are the ones the option loop or the
  caller made (`CallerInv`), and that what was hashed is a run of the index from
  the first place inside the window, with the stream at the beginning of
  the next record whenever it is read without a seek (`PlayerInv`). A file that
  only grows still holds the indexed records (`Holds`), which is why appending
  beside a replay does no harm.
* `CountsAreTheDefinitions`: `CountsAsDocumented`. `CountersInv` says that each
  counter is its definition applied to the records so far, and that what the next
  record is compared with is the last one of its producer or source clock. The
  gaps wrap in the machine word as the sum of the definition does.
* `TimingIsTheDefinition`: `TimingAsDocumented`. `TimesInv` says that each list
  the loop fills is in one-to-one correspondence, in file order, with the records
  it is about (`Collects`). Sorting such a list orders these records by arrival
  (`SortedCollects`), so neighbours in it are the records that follow each other
  in time (`GapsAre`), and the element at the code's rank is the nearest-rank
  percentile (`PercentileIs`).

### Collector process

* `EndpointProofs!ExitZeroComplete`: `ExitZeroIsComplete`. `ProcessInv`
  says, for each place of the main thread, what the pipeline, the server and the
  recorder have already done there (`Delivered`, `ServerInv`, `ResultInv`); the
  pipeline is the abstract one that the sink is proved to implement.
* `ObjectsOutlive`: `ObjectsOutliveUsers`, from the same invariant.

### Sensor client

* `EndpointProofs!NumbersContiguous`: `ContiguousNumbers`, for overlapping
  calls too: a number is taken and sent in one stretch of Dart code.
* `StopReleases`: `StopReleasesAll`. `ReleaseInv` says that without overlap at
  most one call is suspended (`OneCall`) and which objects exist at each of its
  awaits (`Stream`, `Objects`, `Sessions`).

### Generator, publisher and generate

Assumed: positive units, natural limits and rates (`RatesAssumption`), a base
timestamp above the longest duration, and a wire of at least one place. All
theorems are about the specification of the whole command.

* `GenerateCommandProofs!ScheduleIsSound`: `ScheduleSound`. The arithmetic in
  pieces equals the undivided quotients, for negative drifts that truncate
  towards zero too, and a drifting clock never runs backwards. So the sorted base
  events are numbered without holes, one per slot (`Based`, `BaseFacts`), and
  with no jitter in the order of their numbers.
* `FaultsAreAccounted`: `FaultsAccounted`, from `GeneratorInv`: after each turn of
  the first loop the events are the base events so far, with the counted ones
  missing or doubled (`Emission`); after each turn of the second they differ from
  that in disjoint pairs of neighbours below the index (`SwapsBelow`).
* `CleanWorkloadsInOrder`: `CleanIsInOrder`, from the same invariant.
* `ReportsTruthful`: `ReportTruthful`. `StreamInv` says that until a stream is
  over, what the collector accepted followed by what is on the wire is what the
  thread has written, and that a half-closed stream that is not over has written
  everything; so a stream that ends in OK has all of it.
* `ExitIsTruthful`: `ExitStatusTruthful`, of which `ExitDelivered` is the part
  about what was sent and accepted (from `CommandInv`, which follows
  `run_generator`). The rest joins generator and publisher (`DeliveryInv`): what a
  collector accepted has increasing numbers, so its gaps are the numbers of the
  dropped events between the first and the last one, and a clean workload has
  nothing to refuse.

### Only model-checked

All liveness, since TLAPS does not do fairness or ENABLED:
`CloseReleasesConsumers`, `NoStrandedItems`, `ShutdownCompletes`,
`FailureStopsIngest`, the fairness of `ImplementsLivePipeline`,
`SignalEndsProcess`, `StopReturns` and `GenerateReturns`. And the violations of
the five findings, which are counterexamples.

## 5. Plan

Done: queue, sink, validator, service, log, replay, collector process,
generator, publisher, command line, sensor client and analyzer as models with
runs, and theorems for every safety property of these runs. What is left is
what section 6 lists.

## 6. Not modelled

* Printing, formatting, the dispatch on the command's name, the dashboard, the
  sensor plugins, the client's encoder and sample statistics, generated code:
  conversions and layout without state of their own.
* The hash functions and checksums: a hash stands for what was hashed, a
  checksum for the bytes it covers.
* That one seed gives one workload: it rests on `std::mt19937_64` and on the
  order of draws, which a model that draws by choice does not see.
* Benchmarks, fuzzers and tests: drivers of the code above. What the fuzz
  harness expects of `recover` (the file it leaves reads as complete, with the
  records that were there) is part of `CompletedRecordsKept`.
* Two collectors that create one path at once (`log.cpp:103`): `RecordingLog`
  has one writer at a time, and a later one only after it.
* Whether the gRPC library listens to the stream of a connection that fails
  (`grpc_telemetry_publisher.dart:123`) and whether the user answers the permission
  dialog (`telemetry_controller.dart:79`): choices in the model.
* Floating point in the analyzer: rates, intervals and percentiles are exact. The
  code converts each `int64` timestamp to `long double` before it subtracts
  (`analyzer.cpp:66`, `79`). Where `long double` has 64 bits of mantissa that is
  exact; where it is a `double`, nanoseconds since 1970 are rounded to a few
  hundred, and arrivals closer than that can give a span of zero and no rate.
