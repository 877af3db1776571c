------------------------------- MODULE Replay -------------------------------
(***************************************************************************)
(* ReplayEngine (src/replay/replay.cpp) on the file of RecordingLog, which *)
(* a collector may still be writing and storage may damage while a replay  *)
(* runs; and traceforge replay (run_replay in app/main.cpp), which reads   *)
(* its options, builds an engine and replays once.  The engine also has    *)
(* callers with other options and with consumers that may reject a record. *)
(*                                                                         *)
(* The constructor's read_log is RecordingLog's reader.  replay() is one   *)
(* action up to the open of the file and one per turn of its loop.  The    *)
(* input is a buffered stream: a payload may come from the file as it was  *)
(* when the stream was opened or as it is now.                             *)
(*                                                                         *)
(* An event stands for its payload, its source timestamp and the arrival   *)
(* timestamp beside it.  The hash is the sequence of what was hashed.      *)
(* Pacing only delays a turn, and turns are already arbitrarily late.      *)
(***************************************************************************)
EXTENDS RecordingLog, CommandLine, Sorting

CONSTANTS
    Arrival,        \* collector_arrival_timestamp_ns of each event
    ArgumentLists,  \* the arguments of the command, the file name first
    LibraryOptions, \* the ReplayOptions of other callers
    Unset           \* an empty optional

ASSUME ArrivalAssumption == Arrival \in [Events -> Int]
\* An event stands for its payload, so no two events have the same one.
ASSUME PayloadsAssumption == \A d, e \in Events : Payload(d) = Payload(e) => d = e
ASSUME ArgumentsAssumption == ArgumentLists \subseteq Seq(AnyText)
ASSUME OptionsAssumption ==
    /\ Unset \notin Int
    /\ LibraryOptions \subseteq
         [from : Int \cup {Unset}, until : Int \cup {Unset}, speed : Int]

VARIABLES
    engine,         \* "none", "good", or "error" with a non-empty error_
    index,          \* index_
    player,         \* the call of replay() and its ReplayResult
    caller,         \* "start", "command" or "library", "exited"
    options,        \* the ReplayOptions
    exit_code       \* of the command, "none" before

engineVars == <<engine, index, player>>
callerVars == <<caller, options, exit_code>>
replayVars == <<engineVars, callerVars>>
logVars == vars

IdlePlayer ==
    [phase |-> "idle", status |-> "none", current |-> 0,
     opened |-> <<>>, position |-> 0, next_physical_offset |-> Unset,
     hash |-> <<>>, replayed |-> <<>>, opened_ok |-> TRUE]

DefaultOptions == [from |-> Unset, until |-> Unset, speed |-> 0]

Timestamp(entry) == Arrival[entry.event]

ReplayInit ==
    /\ Init
    /\ engine = "none"
    /\ index = <<>>
    /\ player = IdlePlayer
    /\ caller = "start"
    /\ options = DefaultOptions
    /\ exit_code = "none"

-----------------------------------------------------------------------------
(* The callers *)

CommandOptions ==
    [o \in {"--from-ns", "--until-ns", "--speed"} |->
       NumberIn(IF o = "--speed" THEN Nat ELSE Int)]

OptionsOf(line) ==
    [from |-> NumberOr(line, "--from-ns", Unset), speed |-> NumberOr(line, "--speed", 0),
     until |-> NumberOr(line, "--until-ns", Unset)]

Exit(code) ==
    /\ caller' = "exited"
    /\ exit_code' = code

\* run_replay up to the engine: nothing is opened before the options are read.
ReadOptions(arguments) ==
    /\ caller = "start"
    /\ LET line == ReadArguments(Tail(arguments), {"--print-events"}, CommandOptions)
       IN  \/ arguments = <<>> /\ Exit("2") /\ UNCHANGED options
           \/ arguments # <<>> /\ line.outcome = "help" /\ Exit("0") /\ UNCHANGED options
           \/ arguments # <<>> /\ line.outcome = "error" /\ Exit("2") /\ UNCHANGED options
           \/ /\ arguments # <<>> /\ line.outcome = "run"
              /\ caller' = "command"
              /\ options' = OptionsOf(line)
              /\ UNCHANGED exit_code
    /\ UNCHANGED <<logVars, engineVars>>

CallLibrary(o) ==
    /\ caller = "start"
    /\ caller' = "library"
    /\ options' = o
    /\ UNCHANGED <<logVars, engineVars, exit_code>>

-----------------------------------------------------------------------------
(* The constructor *)

Before(a, b) ==
    \/ Timestamp(a) < Timestamp(b)
    \/ Timestamp(a) = Timestamp(b) /\ a.record_index < b.record_index

\* After read_log: only a complete log is indexed.
BuildIndex ==
    /\ engine = "none"
    /\ reader.phase = "done" /\ ~reader.recovers
    /\ reader' = IdleReader
    /\ \/ /\ reader.status # "complete"
          /\ engine' = "error"
          /\ UNCHANGED index
       \/ /\ reader.status = "complete"
          /\ engine' = "good"
          /\ index' = LET entries == {[record_index |-> i - 1,
                                       file_offset |-> reader.index[i].file_offset,
                                       event |-> reader.index[i].event] :
                                        i \in 1 .. Len(reader.index)}
                      IN  Ranked(entries, {p \in entries \X entries : Before(p[1], p[2])})
    /\ UNCHANGED <<disk, writerVars, recovery, damaged, player, callerVars>>

-----------------------------------------------------------------------------
(* replay() *)

\* Mutant: the start of the window is exclusive.
LowerBoundExclusive(timestamp) ==
    1 + Cardinality({i \in DOMAIN index : Timestamp(index[i]) <= timestamp})

\* The first entry not before the timestamp, by binary search.
LowerBound(timestamp) ==
    1 + Cardinality({i \in DOMAIN index : Timestamp(index[i]) < timestamp})

InvalidOptions(o) ==
    \/ o.speed < 0
    \/ o.from # Unset /\ o.until # Unset /\ o.until <= o.from

Result(status) == [player EXCEPT !.phase = "done", !.status = status]

\* Up to the open of the file, which may fail.
StartReplay ==
    /\ engine # "none"
    /\ player.phase = "idle"
    /\ \/ engine = "error" /\ player' = Result("log_error")
       \/ /\ engine = "good" /\ InvalidOptions(options)
          /\ player' = Result("invalid_options")
       \/ /\ engine = "good" /\ ~InvalidOptions(options)
          /\ \/ player' = [Result("io_error") EXCEPT !.opened_ok = FALSE]
             \/ player' = [player EXCEPT
                             !.phase = "playing",
                             !.current = IF options.from = Unset THEN 1
                                         ELSE LowerBound(options.from),
                             !.opened = disk]
    /\ UNCHANGED <<logVars, engine, index, callerVars>>

\* Mutant: the record after a seek is read where the stream happens to be.
SequentialStale(entry) == player.next_physical_offset # Unset

Sequential(entry) == player.next_physical_offset = entry.file_offset

\* Where read_payload reads: it skips a header, or seeks.
PayloadStart(entry) ==
    (IF Sequential(entry) THEN player.position ELSE entry.file_offset) + RecordHeaderSize

BeyondWindow(entry) ==
    options.until # Unset /\ Timestamp(entry) >= options.until

MoreToReplay == player.current <= Len(index) /\ ~BeyondWindow(index[player.current])

\* What the bytes of a payload parse to.
PayloadEvent(bytes) ==
    IF \E e \in Events : Payload(e) = bytes THEN CHOOSE e \in Events : Payload(e) = bytes
    ELSE NoEvent

\* The payload's checksum is the indexed one; then the parse, the schema and
\* the source timestamp are what they were at indexing.
Unchanged(entry, bytes) == PayloadEvent(bytes) = entry.event

\* What the loop body does with an entry and the bytes of the file: the read,
\* the checks, the hash, the consumer and the counters.
Replayed(entry, bytes, accepts) ==
    LET start == PayloadStart(entry)
        size == PayloadSize[entry.event]
        payload == SubSeq(bytes, start + 1, start + size)
        record == [record_index |-> entry.record_index, event |-> PayloadEvent(payload)]
        hashed == [player EXCEPT
                     !.position = start + size,
                     !.next_physical_offset = entry.file_offset + RecordHeaderSize + size,
                     !.hash = Append(@, record)]
    IN  IF Len(bytes) < start + size THEN Result("io_error")
        ELSE IF ~Unchanged(entry, payload) THEN Result("log_error")
        ELSE IF ~accepts
          THEN [hashed EXCEPT !.phase = "done", !.status = "consumer_error"]
        ELSE [hashed EXCEPT !.replayed = Append(@, record), !.current = @ + 1]

\* The command's consumer prints the record.
Answers == IF caller = "library" THEN BOOLEAN ELSE {TRUE}

\* One turn of the loop of replay(), or its end.
ReplayRecord ==
    /\ player.phase = "playing"
    /\ \/ ~MoreToReplay /\ player' = Result("complete")
       \/ /\ MoreToReplay
          /\ \E bytes \in {disk, player.opened}, accepts \in Answers :
               player' = Replayed(index[player.current], bytes, accepts)
    /\ UNCHANGED <<logVars, engine, index, callerVars>>

\* run_replay reports the result.
EndReplay ==
    /\ caller = "command"
    /\ player.phase = "done"
    /\ Exit(IF player.status = "complete" THEN "0" ELSE "3")
    /\ UNCHANGED <<logVars, engineVars, options>>

-----------------------------------------------------------------------------

\* What else happens to the file: a collector records, a byte goes bad, and
\* the engine's read_log runs.  Failed writes, crashes and recover leave files
\* that RecordingLog covers, none of which is a complete log while it changes.
FileNext ==
    \/ OpenLog
    \/ \E n \in 1 .. Len(buffer) : Drain(n)
    \/ \E e \in Events : record_count < MaxAppends /\ AppendSucceeds(e)
    \/ \E k \in 1 .. Len(disk) : Rot(k)
    \/ caller \in {"command", "library"} /\ engine = "none" /\ (StartRead(FALSE) \/ ReadRecord)

ReplayNext ==
    \/ FileNext /\ UNCHANGED replayVars
    \/ BuildIndex
    \/ \E arguments \in ArgumentLists : ReadOptions(arguments)
    \/ \E o \in LibraryOptions : CallLibrary(o)
    \/ StartReplay \/ ReplayRecord \/ EndReplay

ReplaySpec == ReplayInit /\ [][ReplayNext]_<<logVars, replayVars>>

-----------------------------------------------------------------------------
(* Properties *)

\* The records the engine indexed that lie in the half-open window, by arrival
\* and then by append index, taken from what was appended and not from the
\* index (docs/replay.md, "Timeline and ordering").
InWindow(o, i) ==
    /\ o.from # Unset => Arrival[appended[i]] >= o.from
    /\ o.until # Unset => Arrival[appended[i]] < o.until

Selected(o) ==
    LET S == {[record_index |-> i - 1, event |-> appended[i]] :
                i \in {j \in 1 .. Len(index) : InWindow(o, j)}}
    IN  Ranked(S, {p \in S \X S :
                     \/ Arrival[p[1].event] < Arrival[p[2].event]
                     \/ /\ Arrival[p[1].event] = Arrival[p[2].event]
                        /\ p[1].record_index < p[2].record_index})

\* A replay hands over the records of its window, each once and in order,
\* whatever was seeked or read sequentially and whatever happened to the file
\* since it was indexed: all of them if it completes, otherwise a prefix, and so
\* never a record that is damaged, misplaced or out of order.  The hash covers
\* exactly these and the one the consumer failed on, so it is the same for every
\* replay of the window ("Pacing does not affect ordering or the replay hash").
\* The command exits with 0 only after a whole window, or --help.
ReplaysWindow ==
    /\ player.hash # <<>> => IsPrefix(player.hash, Selected(options))
    /\ player.replayed = IF player.status = "consumer_error" THEN Front(player.hash)
                         ELSE player.hash
    /\ player.status = "complete" \/ (exit_code = "0" /\ engine # "none") =>
         player.replayed = Selected(options)

\* The fast path for adjacent records never reads from the wrong place: on an
\* undamaged file, also one that a collector extends meanwhile, every indexed
\* record can be read.
FailsOnlyOnDamage ==
    player.status \in {"io_error", "log_error"} =>
      damaged \/ engine = "error" \/ ~player.opened_ok
=============================================================================
