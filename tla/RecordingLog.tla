---------------------------- MODULE RecordingLog ----------------------------
(***************************************************************************)
(* The recording file and the three programs that work on it               *)
(* (src/recording/log.cpp): LogWriter inside the collector, read_log as    *)
(* run by inspect, replay and analyze, and recover_truncated_tail.         *)
(*                                                                         *)
(* A file is a sequence of bytes, and a byte is what it was written as:    *)
(* <<"F", 0, NoEvent, k>> is byte k of the file header, <<"H", i, e, k>>   *)
(* byte k of the header of record i, which holds the size and the checksum *)
(* of the payload of event e, and <<"P", 0, e, k>> byte k of that payload. *)
(* Anything else is <<"Z", 0, NoEvent, 0>>.  A magic number, a version or  *)
(* a checksum matches when the bytes it covers are the bytes written.      *)
(*                                                                         *)
(* output_ is a buffered stream: what append writes reaches the file       *)
(* later, in any number of pieces (Drain), at the latest with a flush.     *)
(* A crash loses the buffer.  A write may fail at any point, and storage   *)
(* that failed does not come back during the run.  read_log takes the file *)
(* size once and then reads record by record while the file may change.    *)
(***************************************************************************)
EXTENDS Integers, Sequences, FiniteSets

CONSTANTS
    Events,             \* events offered to append
    NoEvent,            \* in a byte that belongs to no event
    PayloadSize,        \* their serialized sizes
    FileHeaderSize,     \* kFileHeaderSize
    RecordHeaderSize,   \* kRecordHeaderSize
    MaximumPayloadSize, \* kMaximumPayloadSize
    FlushEvery,         \* flush_every_records
    MaximumRecords,     \* maximum_records of the reader
    MaxAppends,         \* bound: number of records written
    Damage,             \* BOOLEAN: stored bytes may go bad
    RecoverLive         \* BOOLEAN: recover may be run while the collector records

ASSUME LayoutAssumption ==
    /\ FileHeaderSize \in Nat \ {0}
    /\ RecordHeaderSize \in Nat \ {0}
    /\ MaximumPayloadSize \in Nat
    /\ PayloadSize \in [Events -> Nat]
    /\ NoEvent \notin Events
\* The constructor refuses a zero flush interval.
ASSUME FlushAssumption == FlushEvery \in Nat \ {0}
ASSUME LimitsAssumption == MaximumRecords \in Nat /\ MaxAppends \in Nat
ASSUME SwitchAssumption == Damage \in BOOLEAN /\ RecoverLive \in BOOLEAN

VARIABLES
    disk,           \* the bytes of the file
    writer,         \* the collector's LogWriter: none, open, closed or crashed,
                    \* or the one of a later collector, refused the same path
    error,          \* error_ is not empty, or the stream is bad
    buffer,         \* bytes written to output_ and not yet in the file
    position,       \* file offset of the first byte of buffer
    record_count,   \* record_count_
    bytes_written,  \* bytes_written_
    reader,         \* a run of read_log
    recovery,       \* outcome of the last run of recover_truncated_tail
    appended,       \* history: events of the records counted, in order
    acked,          \* history: how often append returned true
    flushed,        \* history: records counted at the last successful flush
    damaged         \* history: a stored byte went bad

streamVars == <<disk, buffer, position>>
countVars == <<record_count, bytes_written, appended, acked>>
writerVars == <<writer, error, buffer, position, countVars, flushed>>
readerVars == <<reader, recovery>>
vars == <<disk, writerVars, readerVars, damaged>>

Zero == <<"Z", 0, NoEvent, 0>>
FileHeader == [k \in 1 .. FileHeaderSize |-> <<"F", 0, NoEvent, k>>]
RecordHeader(i, e) == [k \in 1 .. RecordHeaderSize |-> <<"H", i, e, k>>]
Payload(e) == [k \in 1 .. PayloadSize[e] |-> <<"P", 0, e, k>>]

\* The file after bytes were written at offset pos; a gap reads as zeros, and
\* writing nothing changes nothing.
Overlay(file, pos, bytes) ==
    LET end == pos + Len(bytes)
        size == IF bytes = <<>> \/ end <= Len(file) THEN Len(file) ELSE end
    IN  [k \in 1 .. size |->
           IF k > pos /\ k <= end THEN bytes[k - pos]
           ELSE IF k <= Len(file) THEN file[k] ELSE Zero]

ProperPrefixes(bytes) == {SubSeq(bytes, 1, n) : n \in 0 .. Len(bytes) - 1}

IdleReader ==
    [phase |-> "idle", recovers |-> FALSE, file_size |-> 0, offset |-> 0,
     index |-> <<>>, valid_bytes |-> 0, status |-> "none", floor |-> 0, rotten |-> FALSE]

Init ==
    /\ disk = <<>>
    /\ writer = "none"
    /\ error = FALSE
    /\ buffer = <<>>
    /\ position = 0
    /\ record_count = 0
    /\ bytes_written = 0
    /\ reader = IdleReader
    /\ recovery = "none"
    /\ appended = <<>>
    /\ acked = 0
    /\ flushed = 0
    /\ damaged = FALSE

Statuses == {"complete", "truncated_tail", "corrupt", "io_error", "resource_limit"}

Bytes == ({"F", "H", "P", "Z"} \X Nat \X (Events \cup {NoEvent}) \X Nat)

\* Besides the types: the writer's counters and its stream position agree
\* with the bytes it produced.
TypeOK ==
    /\ \A k \in 1 .. Len(disk) : disk[k] \in Bytes
    /\ \A k \in 1 .. Len(buffer) : buffer[k] \in Bytes
    /\ writer \in {"none", "open", "closed", "crashed", "refused"}
    /\ error \in BOOLEAN
    /\ position \in Nat
    /\ record_count \in Nat
    /\ bytes_written \in Nat
    /\ writer = "open" /\ ~error => position + Len(buffer) = bytes_written
    /\ reader.phase \in {"idle", "reading", "done"}
    /\ reader.status \in Statuses \cup {"none"}
    /\ recovery \in {"none", "already complete", "removed", "failed", "refused"}
    /\ record_count = Len(appended)

-----------------------------------------------------------------------------
(* LogWriter *)

Good == writer = "open" /\ ~error

\* The stream went bad: a part of out reached the file, the rest is lost.
TornAt(out) ==
    /\ \E part \in ProperPrefixes(out) :
         /\ disk' = Overlay(disk, position, part)
         /\ position' = position + Len(part)
    /\ buffer' = <<>>
    /\ error' = TRUE

\* Mutant: the file header is not counted.
HeaderBytesUncounted == 0

HeaderBytes == FileHeaderSize

\* The constructor on a path that does not exist: open, and the file header
\* goes into the stream.
OpenLog ==
    /\ writer = "none"
    /\ writer' = "open"
    /\ buffer' = FileHeader
    /\ bytes_written' = HeaderBytes
    /\ UNCHANGED <<disk, error, position, record_count, appended, acked, flushed,
                   readerVars, damaged>>

\* The constructor fails on a path that does not exist: the path cannot be
\* checked or opened, and there is no file, or writing the file header fails.
OpenFails ==
    /\ writer = "none"
    /\ writer' = "open"
    /\ \/ error' = TRUE /\ UNCHANGED streamVars
       \/ TornAt(FileHeader)
    /\ UNCHANGED <<countVars, flushed, readerVars, damaged>>

\* Mutant: the file is opened, with ios::trunc, before the test that it exists.
OpenExistingTruncates ==
    /\ writer \in {"closed", "crashed"}
    /\ disk # <<>>
    /\ writer' = "refused"
    /\ error' = TRUE
    /\ disk' = <<>>
    /\ UNCHANGED <<buffer, position, countVars, flushed, readerVars, damaged>>

\* The constructor in a later collector, on the path of the recording an
\* earlier one left, closed or crashed: it refuses, and the file stays.  The
\* counters stay the ones of the writer that made the recording.
OpenExisting ==
    /\ writer \in {"closed", "crashed"}
    /\ disk # <<>>
    /\ writer' = "refused"
    /\ error' = TRUE
    /\ UNCHANGED <<streamVars, countVars, flushed, readerVars, damaged>>

\* The stream hands some of its buffered bytes to the file.
Drain(n) ==
    /\ writer = "open"
    /\ n \in 1 .. Len(buffer)
    /\ disk' = Overlay(disk, position, SubSeq(buffer, 1, n))
    /\ position' = position + n
    /\ buffer' = SubSeq(buffer, n + 1, Len(buffer))
    /\ UNCHANGED <<writer, error, countVars, flushed, readerVars, damaged>>

\* Mutant: nothing is flushed.
FlushedToBuffer(out) ==
    /\ buffer' = out
    /\ UNCHANGED <<disk, position>>

\* The stream ends with the bytes out, all of which reach the file.
FlushedTo(out) ==
    /\ disk' = Overlay(disk, position, out)
    /\ position' = position + Len(out)
    /\ buffer' = <<>>

FlushDue == (record_count + 1) % FlushEvery = 0

\* Mutant: the index of a record counts from one.
NextIndexFromOne == record_count + 1

NextIndex == record_count

Record(e) == RecordHeader(NextIndex, e) \o Payload(e)

\* The record is counted.
CountRecord(e) ==
    /\ record_count' = record_count + 1
    /\ bytes_written' = bytes_written + Len(Record(e))
    /\ appended' = Append(appended, e)

Appendable(e) == Good /\ PayloadSize[e] <= MaximumPayloadSize

\* append returns true.
AppendSucceeds(e) ==
    /\ Appendable(e)
    /\ CountRecord(e)
    /\ acked' = acked + 1
    /\ \/ /\ FlushDue
          /\ FlushedTo(buffer \o Record(e))
          /\ flushed' = record_count + 1
       \/ /\ ~FlushDue
          /\ buffer' = buffer \o Record(e)
          /\ UNCHANGED <<disk, position, flushed>>
    /\ UNCHANGED <<writer, error, readerVars, damaged>>

\* append returns false because writing the header or the payload failed.
\* Only a header written whole is added to bytes_written.
AppendWriteFails(e) ==
    /\ Appendable(e)
    /\ \/ /\ TornAt(buffer \o RecordHeader(NextIndex, e))
          /\ UNCHANGED bytes_written
       \/ /\ TornAt(buffer \o Record(e))
          /\ bytes_written' = bytes_written + RecordHeaderSize
    /\ UNCHANGED <<writer, record_count, appended, acked, flushed, readerVars, damaged>>

\* append counts the record and returns false because the due flush failed.
AppendFlushFails(e) ==
    /\ Appendable(e)
    /\ FlushDue
    /\ CountRecord(e)
    /\ TornAt(buffer \o Record(e))
    /\ UNCHANGED <<writer, acked, flushed, readerVars, damaged>>

\* An event over the payload limit (or that cannot be serialized) fails the
\* writer for good, with nothing written.
AppendRefuses(e) ==
    /\ Good
    /\ PayloadSize[e] > MaximumPayloadSize
    /\ error' = TRUE
    /\ UNCHANGED <<writer, streamVars, countVars, flushed, readerVars, damaged>>

\* flush(), called by the collector after the sink has shut down.
FlushLog ==
    /\ Good
    /\ \/ /\ FlushedTo(buffer)
          /\ flushed' = record_count
          /\ UNCHANGED error
       \/ TornAt(buffer) /\ UNCHANGED flushed
    /\ UNCHANGED <<writer, countVars, readerVars, damaged>>

\* ~LogWriter: one more flush, whose result nobody sees.
CloseLog ==
    /\ writer = "open"
    /\ writer' = "closed"
    /\ \/ FlushedTo(buffer) /\ UNCHANGED error
       \/ TornAt(buffer)
    /\ UNCHANGED <<countVars, flushed, readerVars, damaged>>

\* The collector process dies.
Crash ==
    /\ writer = "open"
    /\ writer' = "crashed"
    /\ buffer' = <<>>
    /\ UNCHANGED <<disk, error, position, countVars, flushed, readerVars, damaged>>

\* A stored byte goes bad.
Rot(k) ==
    /\ Damage /\ ~damaged
    /\ k \in 1 .. Len(disk)
    /\ disk' = [disk EXCEPT ![k] = Zero]
    /\ damaged' = TRUE
    /\ UNCHANGED <<writerVars, readerVars>>

-----------------------------------------------------------------------------
(* read_log *)

HeaderIntact(at) ==
    LET b == disk[at + 1]
    IN  /\ b[1] = "H"
        /\ \A k \in 1 .. RecordHeaderSize : disk[at + k] = <<"H", b[2], b[3], k>>

HeaderIndex(at) == disk[at + 1][2]
HeaderEvent(at) == disk[at + 1][3]

\* What the payload bytes at a record parse to: the event, if they are intact.
ParsedEvent(at) ==
    LET e == HeaderEvent(at)
    IN  IF \A k \in 1 .. PayloadSize[e] :
             disk[at + RecordHeaderSize + k] = <<"P", 0, e, k>>
          THEN e ELSE NoEvent

\* Mutant: payload checksums are not compared.
PayloadUnchecked(at) == TRUE

\* The payload checksum matches.
PayloadIntact(at) == ParsedEvent(at) = HeaderEvent(at)

Finished(status) == [reader EXCEPT !.phase = "done", !.status = status]

\* The file size, the open, and the checks of the file header.
StartRead(recovers) ==
    /\ writer # "none"
    /\ reader.phase = "idle"
    /\ recovers /\ writer = "open" => RecoverLive
    /\ LET size == Len(disk)
           r == [IdleReader EXCEPT !.recovers = recovers, !.file_size = size,
                                   !.floor = flushed, !.rotten = damaged]
           intact == \A k \in 1 .. FileHeaderSize : disk[k] = FileHeader[k]
       IN  reader' =
             IF size < FileHeaderSize \/ ~intact
               THEN [r EXCEPT !.phase = "done", !.status = "corrupt"]
               ELSE [r EXCEPT !.phase = "reading", !.offset = FileHeaderSize,
                              !.valid_bytes = FileHeaderSize]
    /\ recovery' = "none"
    /\ UNCHANGED <<disk, writerVars, damaged>>

PayloadCut(left, n) == left - RecordHeaderSize < n

\* What the loop body decides about the bytes at offset at, in its order:
\* the record limit, the room for a header, the header, the payload limit,
\* the room for the payload, the payload and the record index.
Verdict(at) ==
    LET left == reader.file_size - at IN
    IF Len(reader.index) = MaximumRecords THEN "resource_limit"
    ELSE IF left < RecordHeaderSize THEN "truncated_tail"
    ELSE IF Len(disk) < at + RecordHeaderSize THEN "io_error"
    ELSE IF ~HeaderIntact(at) THEN "corrupt"
    ELSE LET n == PayloadSize[HeaderEvent(at)] IN
         IF n > MaximumPayloadSize THEN "resource_limit"
         ELSE IF PayloadCut(left, n) THEN "truncated_tail"
         ELSE IF Len(disk) < at + RecordHeaderSize + n THEN "io_error"
         ELSE IF ~PayloadIntact(at) \/ HeaderIndex(at) # Len(reader.index) THEN "corrupt"
         ELSE "record"

\* One turn of the loop of read_log, or its end.
ReadRecord ==
    /\ reader.phase = "reading"
    /\ LET at == reader.offset
           verdict == Verdict(at)
           next == at + RecordHeaderSize + PayloadSize[HeaderEvent(at)]
           entry == [file_offset |-> at, event |-> ParsedEvent(at)]
       IN  reader' =
             IF at >= reader.file_size THEN Finished("complete")
             ELSE IF verdict # "record" THEN Finished(verdict)
             ELSE [reader EXCEPT !.index = Append(@, entry), !.offset = next,
                                 !.valid_bytes = next]
    /\ UNCHANGED <<disk, writerVars, recovery, damaged>>

\* inspect, analyze or the index of a replay is done with the result.
EndRead ==
    /\ reader.phase = "done"
    /\ ~reader.recovers
    /\ reader' = IdleReader
    /\ UNCHANGED <<disk, writerVars, recovery, damaged>>

-----------------------------------------------------------------------------
(* recover_truncated_tail, after its read_log *)

\* Mutant: any unreadable tail is cut off.
RecoverableAny == reader.status # "complete" /\ reader.valid_bytes >= FileHeaderSize

\* Mutant: a recording without a whole record is not recovered.
RecoverableNotEmpty ==
    reader.status = "truncated_tail" /\ reader.valid_bytes > FileHeaderSize

Recoverable == reader.status = "truncated_tail" /\ reader.valid_bytes >= FileHeaderSize

\* filesystem::resize_file to valid_bytes, or its error.
Truncate ==
    /\ reader.phase = "done" /\ reader.recovers
    /\ Recoverable
    /\ \/ /\ disk' = [k \in 1 .. reader.valid_bytes |->
                        IF k <= Len(disk) THEN disk[k] ELSE Zero]
          /\ recovery' = "removed"
       \/ recovery' = "failed" /\ UNCHANGED disk
    /\ reader' = IdleReader
    /\ UNCHANGED <<writerVars, damaged>>

LeaveAlone ==
    /\ reader.phase = "done" /\ reader.recovers
    /\ ~Recoverable
    /\ recovery' = IF reader.status = "complete" THEN "already complete" ELSE "refused"
    /\ reader' = IdleReader
    /\ UNCHANGED <<disk, writerVars, damaged>>

-----------------------------------------------------------------------------

AppendEvent(e) ==
    \/ AppendSucceeds(e) \/ AppendWriteFails(e) \/ AppendFlushFails(e) \/ AppendRefuses(e)

Next ==
    \/ OpenLog \/ OpenFails \/ OpenExisting
    \/ \E n \in 1 .. Len(buffer) : Drain(n)
    \/ \E e \in Events : record_count < MaxAppends /\ AppendEvent(e)
    \/ FlushLog \/ CloseLog \/ Crash
    \/ \E k \in 1 .. Len(disk) : Rot(k)
    \/ \E recovers \in BOOLEAN : StartRead(recovers)
    \/ ReadRecord \/ EndRead \/ Truncate \/ LeaveAlone

Spec == Init /\ [][Next]_vars

-----------------------------------------------------------------------------
(* Properties *)

\* End[i] is the offset just after the i-th record the writer counted.
End[i \in 0 .. Len(appended)] ==
    IF i = 0 THEN FileHeaderSize
    ELSE End[i - 1] + RecordHeaderSize + PayloadSize[appended[i]]

\* The records that lie wholly within the first size bytes.
Whole(size) == {i \in 1 .. Len(appended) : End[i] <= size}

\* What read_log must return on size bytes of an undamaged recording.
ExpectedStatus(size) ==
    IF size < FileHeaderSize THEN "corrupt"
    ELSE IF Cardinality(Whole(size)) > MaximumRecords THEN "resource_limit"
    ELSE IF size = End[Cardinality(Whole(size))] THEN "complete"
    ELSE IF Cardinality(Whole(size)) = MaximumRecords THEN "resource_limit"
    ELSE "truncated_tail"

\* On an undamaged file, wherever a crash, a failed write or a live writer
\* cut it, read_log returns exactly the records that lie wholly within the
\* size it saw, at their offsets, and tells a cut tail from a whole file; in
\* particular an interruption is never taken for corruption once the file
\* header is in the file.
ReadsExactly ==
    reader.phase = "done" /\ ~damaged =>
      /\ reader.status = ExpectedStatus(reader.file_size)
      /\ reader.file_size >= FileHeaderSize =>
           LET whole == Cardinality(Whole(reader.file_size)) IN
           /\ Len(reader.index) = IF whole < MaximumRecords THEN whole ELSE MaximumRecords
           /\ reader.valid_bytes = End[Len(reader.index)]

\* Whatever happened to the file, a record read_log exposes is a record that
\* was appended, in its place and with its event: checksums, sizes and
\* indexes let nothing else through.
NeverWrongRecord ==
    /\ Len(reader.index) <= Len(appended)
    /\ \A i \in 1 .. Len(reader.index) :
         reader.index[i] = [file_offset |-> End[i - 1], event |-> appended[i]]

\* A record whose flush succeeded survives a crash of the collector and a
\* later collector that is given the same path ("refusing to overwrite
\* existing telemetry log"): every later read of the undamaged file returns
\* it, up to the record limit of the reader, which stops there.
FlushedSurvive ==
    reader.phase = "done" /\ ~damaged =>
      Len(reader.index) >= (IF reader.floor < MaximumRecords THEN reader.floor
                            ELSE MaximumRecords)

\* The bytes of the first i records, as they were written.
Image[i \in 0 .. Len(appended)] ==
    IF i = 0 THEN FileHeader
    ELSE Image[i - 1] \o RecordHeader(i - 1, appended[i]) \o Payload(appended[i])

\* The file never loses a completed record: recover cuts it exactly at the
\* end of one, behind every record that lies wholly in the file, also when
\* some bytes are damaged ("truncates only that incomplete tail"), and what it
\* leaves is a recording without a flaw, so that the next read is complete
\* (unless a byte went bad while recover was reading).
CompletedRecordsKept ==
    [][Len(disk') < Len(disk) =>
         /\ Whole(Len(disk')) = Whole(Len(disk))
         /\ \E i \in 0 .. Len(appended) :
              Len(disk') = End[i] /\ (damaged = reader.rotten => disk' = Image[i])]_vars

\* What recover refuses: only a file that is really damaged, one that does not
\* even hold its header, or one that goes on behind the last record of the
\* limit, whose tail read_log never looks at, cut or whole (log.cpp:276).
RecoverRefusals ==
    recovery = "refused" =>
      \/ damaged
      \/ Len(disk) < FileHeaderSize
      \/ Cardinality(Whole(Len(disk))) >= MaximumRecords /\ Len(disk) > End[MaximumRecords]

\* "If a shutdown interrupts only the final record, recover all prior complete
\* records" (README.md:239).  Of an undamaged file with its header, recover
\* refuses only one that holds more complete records than the limit.  The code
\* also refuses one with exactly as many and an interrupted record behind them:
\* the limit is tested before the bytes that are left (log.cpp:276).
InterruptedRecovered ==
    recovery = "refused" =>
      \/ damaged
      \/ Len(disk) < FileHeaderSize
      \/ Cardinality(Whole(Len(disk))) > MaximumRecords
=============================================================================
