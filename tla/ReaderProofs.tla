---------------------------- MODULE ReaderProofs ----------------------------
(***************************************************************************)
(* Proofs about the two programs that read a finished log.                 *)
(*                                                                         *)
(* Replay, for any recording, any window and any number of records: a      *)
(* replay hands over the records of its window, in order and as they were  *)
(* recorded, whatever happens to the file meanwhile; and on an undamaged   *)
(* file every indexed record can be read.  The index is the one sorted     *)
(* arrangement of the first records of the recording, each at its offset;  *)
(* what was hashed is a run of the index that starts where the window      *)
(* starts; and the stream is where the next record begins whenever it is   *)
(* read without a seek.                                                    *)
(*                                                                         *)
(* Analyzer, for any log: its counters and its timing are what             *)
(* docs/analysis.md defines.  The accumulators of the single pass are the  *)
(* definitions applied to the records so far, and the lists it sorts are   *)
(* in one-to-one correspondence with the records they were taken from.     *)
(***************************************************************************)
EXTENDS Replay, Analyzer, RecordingLogProofs

-----------------------------------------------------------------------------
(* Replay: the inductive invariant. *)

OptionsType == [from : Int \cup {Unset}, until : Int \cup {Unset}, speed : Int]
Entries == [record_index : Nat, file_offset : Nat, event : Events]
Handed == [record_index : Nat, event : Events]

\* The index entry of the i-th record of the recording s.
EntryOf(s, i) == [record_index |-> i - 1, file_offset |-> Ends(s)[i - 1], event |-> s[i]]

\* x is an index of the first records of s.
Indexes(x, s) ==
    /\ x \in Seq(Entries)
    /\ Len(x) <= Len(s)
    /\ \A k \in 1 .. Len(x) : \E i \in 1 .. Len(x) : x[k] = EntryOf(s, i)
    /\ \A i \in 1 .. Len(x) : \E k \in 1 .. Len(x) : x[k] = EntryOf(s, i)
    /\ \A j, k \in 1 .. Len(x) : Before(x[j], x[k]) <=> j < k

\* The first n records lie wholly in c, as they were written.
Holds(c, s, n, bad) ==
    /\ c \in Seq(Bytes)
    /\ Ends(s)[n] <= Len(c)
    /\ bad \/ \A k \in 1 .. Ends(s)[n] : c[k] = Images(s)[Len(s)][k]

IndexInv ==
    /\ engine \in {"none", "good", "error"}
    /\ engine # "good" => index = <<>>
    /\ engine = "good" =>
         Indexes(index, appended) /\ Holds(disk, appended, Len(index), damaged)

CallerInv ==
    /\ caller \in {"start", "command", "library", "exited"}
    /\ options \in OptionsType
    /\ caller = "start" => engine = "none" /\ reader.phase = "idle" /\ exit_code = "none"
    /\ caller = "exited" => (engine = "none" /\ reader.phase = "idle") \/ player.phase = "done"
    /\ exit_code = "0" /\ engine # "none" => player.status = "complete"
    /\ exit_code # "none" => caller = "exited"

\* Where the window starts in the index.
First == IF options.from = Unset THEN 1 ELSE LowerBound(options.from)

RecordOfEntry(entry) == [record_index |-> entry.record_index, event |-> entry.event]

PlayerType ==
    player \in [phase : {"idle", "playing", "done"},
                status : {"none", "complete", "log_error", "invalid_options", "io_error",
                          "consumer_error"},
                current : Nat, opened : Seq(Bytes), position : Nat,
                next_physical_offset : Nat \cup {Unset},
                hash : Seq(Handed), replayed : Seq(Handed), opened_ok : BOOLEAN]

\* What was hashed are the entries from the start of the window on.
Played ==
    \A k \in 1 .. Len(player.hash) :
      /\ First - 1 + k <= Len(index)
      /\ player.hash[k] = RecordOfEntry(index[First - 1 + k])
      /\ ~BeyondWindow(index[First - 1 + k])

Playing ==
    /\ engine = "good" /\ ~InvalidOptions(options)
    /\ player.status = "none"
    /\ player.current = First + Len(player.hash)
    /\ player.next_physical_offset # Unset => player.position = player.next_physical_offset
    /\ Holds(player.opened, appended, Len(index), damaged)

PlayerInv ==
    /\ PlayerType
    /\ engine = "none" \/ player.phase = "idle" => player = IdlePlayer
    /\ Played
    /\ player.hash # <<>> => engine = "good" /\ ~InvalidOptions(options)
    /\ player.phase = "playing" => Playing
    /\ player.status = "complete" =>
         /\ player.phase = "done" /\ engine = "good" /\ ~InvalidOptions(options)
         /\ First + Len(player.hash) <= Len(index) =>
              BeyondWindow(index[First + Len(player.hash)])
    /\ player.status = "consumer_error" => player.hash # <<>>
    /\ player.replayed = IF player.status = "consumer_error" THEN Front(player.hash)
                         ELSE player.hash
    /\ FailsOnlyOnDamage

ReplayInv == LogInv /\ IndexInv /\ CallerInv /\ PlayerInv

-----------------------------------------------------------------------------
(* The options of the command. *)

LEMMA ScansUnfold ==
    ASSUME NEW arguments, Len(arguments) \in Nat, NEW flags, NEW accepts
    PROVE  /\ Scans(arguments, flags, accepts)[0] = Scanning
           /\ \A n \in 0 .. Len(arguments) : n # Len(arguments) =>
                Scans(arguments, flags, accepts)[n + 1] =
                  Scanned(Scans(arguments, flags, accepts)[n], arguments[n + 1], flags, accepts)
<1> DEFINE Of(f, n) == f = [i \in 0 .. n |-> IF i = 0 THEN Scanning
                              ELSE Scanned(f[i - 1], arguments[i], flags, accepts)]
           T == {n \in 0 .. Len(arguments) : \E f : Of(f, n)}
<1>1. 0 \in T
  <2>1. Of([i \in {0} |-> Scanning], 0)
    OBVIOUS
  <2>2. 0 \in 0 .. Len(arguments)
    OBVIOUS
  <2> HIDE DEF Of
  <2> QED BY <2>1, <2>2
<1>2. ASSUME NEW n \in 0 .. Len(arguments), n # Len(arguments), n \in T PROVE n + 1 \in T
  <2>1. PICK g : Of(g, n)
    BY <1>2
  <2> DEFINE h == [i \in 0 .. n + 1 |-> IF i = n + 1
                     THEN Scanned(g[n], arguments[n + 1], flags, accepts) ELSE g[i]]
  <2>2. ASSUME NEW i \in 0 .. n + 1
        PROVE  h[i] = IF i = 0 THEN Scanning
                      ELSE Scanned(h[i - 1], arguments[i], flags, accepts)
    BY <2>1
  <2>3. Of(h, n + 1)
    BY <2>2
  <2>4. n + 1 \in 0 .. Len(arguments)
    BY <1>2
  <2> QED BY <2>3, <2>4
<1>3. \A n \in 0 .. Len(arguments) : n \in T
  <2> HIDE DEF T
  <2> QED BY <1>1, <1>2, SetInduction
<1>4. \E f : Of(f, Len(arguments))
  BY <1>3
<1>5. Of(Scans(arguments, flags, accepts), Len(arguments))
  BY <1>4 DEF Scans
<1>6. ASSUME NEW n \in 0 .. Len(arguments), n # Len(arguments)
      PROVE  n + 1 \in 0 .. Len(arguments) /\ n + 1 # 0 /\ (n + 1) - 1 = n
  BY <1>6
<1> QED BY <1>5, <1>6

\* What the option loop knows of the values it has taken.
Taken(s, flags, accepts) ==
    /\ DOMAIN s = {"outcome", "option", "values"}
    /\ \A o \in DOMAIN s.values :
         o \in flags \/ (o \in DOMAIN accepts /\ s.values[o] \in accepts[o])

LEMMA ScannedTakes ==
    ASSUME NEW s, NEW a, NEW flags, NEW accepts, Taken(s, flags, accepts)
    PROVE  Taken(Scanned(s, a, flags, accepts), flags, accepts)
<1> DEFINE t == Scanned(s, a, flags, accepts)
<1>1. CASE t.values = s.values /\ DOMAIN t = DOMAIN s
  BY <1>1 DEF Taken
<1>2. CASE /\ s.option[1] \in DOMAIN accepts /\ a \in accepts[s.option[1]]
           /\ t.values = With(s.values, s.option[1], a) /\ DOMAIN t = DOMAIN s
  <2> DEFINE o == s.option[1]
  <2>1. DOMAIN t.values = {o} \cup DOMAIN s.values
    BY <1>2 DEF With
  <2>2. \A x \in DOMAIN t.values : t.values[x] = IF x = o THEN a ELSE s.values[x]
    BY <1>2 DEF With
  <2> HIDE DEF t, o
  <2> QED BY <1>2, <2>1, <2>2 DEF Taken, o, t
<1>3. CASE a.text \in flags /\ t.values = With(s.values, a.text, a) /\ DOMAIN t = DOMAIN s
  <2>1. DOMAIN t.values = {a.text} \cup DOMAIN s.values
    BY <1>3 DEF With
  <2>2. \A x \in DOMAIN t.values : t.values[x] = IF x = a.text THEN a ELSE s.values[x]
    BY <1>3 DEF With
  <2> HIDE DEF t
  <2> QED BY <1>3, <2>1, <2>2 DEF Taken, t
<1> QED BY <1>1, <1>2, <1>3 DEF Scanned, Taken

LEMMA ArgumentsTaken ==
    ASSUME NEW arguments, Len(arguments) \in Nat, NEW flags, NEW accepts
    PROVE  \A o \in DOMAIN ReadArguments(arguments, flags, accepts).values :
             o \in flags \/ (/\ o \in DOMAIN accepts
                             /\ ReadArguments(arguments, flags, accepts).values[o] \in accepts[o])
<1> DEFINE scan == Scans(arguments, flags, accepts)
           T == {n \in 0 .. Len(arguments) : Taken(scan[n], flags, accepts)}
<1>1. Taken(Scanning, flags, accepts)
  BY DEF Taken, Scanning
<1>2. 0 \in T
  BY <1>1, ScansUnfold
<1>3. ASSUME NEW n \in 0 .. Len(arguments), n # Len(arguments), n \in T PROVE n + 1 \in T
  <2>1. scan[n + 1] = Scanned(scan[n], arguments[n + 1], flags, accepts)
    BY <1>3, ScansUnfold
  <2>2. Taken(scan[n + 1], flags, accepts)
    BY <1>3, <2>1, ScannedTakes
  <2> QED BY <1>3, <2>2
<1>4. \A n \in 0 .. Len(arguments) : n \in T
  <2> HIDE DEF T
  <2> QED BY <1>2, <1>3, SetInduction
<1>5. Taken(scan[Len(arguments)], flags, accepts)
  BY <1>4
<1>6. ReadArguments(arguments, flags, accepts).values = scan[Len(arguments)].values
  BY DEF ReadArguments
<1> QED BY <1>5, <1>6 DEF Taken

\* The options the command runs with are numbers, or not given.
LEMMA CommandOptionsTyped ==
    ASSUME NEW arguments \in ArgumentLists, arguments # <<>>
    PROVE  OptionsOf(ReadArguments(Tail(arguments), {"--print-events"}, CommandOptions)) \in OptionsType
<1> DEFINE line == ReadArguments(Tail(arguments), {"--print-events"}, CommandOptions)
<1>1. Len(Tail(arguments)) \in Nat
  BY ArgumentsAssumption
<1>2. \A o \in DOMAIN line.values :
        o = "--print-events" \/ (o \in DOMAIN CommandOptions /\ line.values[o] \in CommandOptions[o])
  BY <1>1, ArgumentsTaken
<1> HIDE DEF line
<1>3. /\ CommandOptions["--from-ns"] = NumberIn(Int) /\ CommandOptions["--until-ns"] = NumberIn(Int)
      /\ CommandOptions["--speed"] = NumberIn(Nat)
  BY DEF CommandOptions
<1>4. NumberOr(line, "--from-ns", Unset) \in Int \cup {Unset}
  <2>1. "--from-ns" # "--print-events"
    OBVIOUS
  <2>2. Given(line, "--from-ns") => line.values["--from-ns"] \in NumberIn(Int)
    BY <1>2, <1>3, <2>1 DEF Given
  <2>3. Given(line, "--from-ns") => line.values["--from-ns"].number \in Int
    BY <2>2 DEF NumberIn
  <2> QED BY <2>3 DEF NumberOr
<1>5. NumberOr(line, "--until-ns", Unset) \in Int \cup {Unset}
  <2>1. "--until-ns" # "--print-events"
    OBVIOUS
  <2>2. Given(line, "--until-ns") => line.values["--until-ns"] \in NumberIn(Int)
    BY <1>2, <1>3, <2>1 DEF Given
  <2>3. Given(line, "--until-ns") => line.values["--until-ns"].number \in Int
    BY <2>2 DEF NumberIn
  <2> QED BY <2>3 DEF NumberOr
<1>6. NumberOr(line, "--speed", 0) \in Int
  <2>1. "--speed" # "--print-events"
    OBVIOUS
  <2>2. Given(line, "--speed") => line.values["--speed"] \in NumberIn(Nat)
    BY <1>2, <1>3, <2>1 DEF Given
  <2>3. Given(line, "--speed") => line.values["--speed"].number \in Nat
    BY <2>2 DEF NumberIn
  <2> QED BY <2>3 DEF NumberOr
<1> QED BY <1>4, <1>5, <1>6 DEF OptionsOf, OptionsType, line

-----------------------------------------------------------------------------
(* The index. *)

\* Arrival and then append index order any records told apart by the latter.
LEMMA TimelineOrders ==
    ASSUME NEW S, \A x \in S : x.record_index \in Int /\ x.event \in Events,
           \A x, y \in S : x.record_index = y.record_index => x = y
    PROVE  LET r == {p \in S \X S : Before(p[1], p[2])} IN
           Orders(r, S) /\ \A x, y \in S : <<x, y>> \in r <=> Before(x, y)
<1> DEFINE r == {p \in S \X S : Before(p[1], p[2])}
<1>1. ASSUME NEW x \in S, NEW y \in S PROVE <<x, y>> \in r <=> Before(x, y)
  OBVIOUS
<1> HIDE DEF r
<1>2. \A x \in S : Timestamp(x) \in Int
  BY ArrivalAssumption DEF Timestamp
<1>3. \A x \in S : ~Before(x, x)
  BY <1>2 DEF Before
<1>4. \A x, y, z \in S : Before(x, y) /\ Before(y, z) => Before(x, z)
  BY <1>2 DEF Before
<1>5. \A x, y \in S : x # y => Before(x, y) \/ Before(y, x)
  BY <1>2 DEF Before
<1>6. Orders(r, S)
  BY <1>1, <1>3, <1>4, <1>5 DEF Orders
<1> QED BY <1>1, <1>6 DEF r

\* std::sort makes an index of the first records.
LEMMA SortIndexes ==
    ASSUME NEW s \in Seq(Events), NEW n \in 0 .. Len(s)
    PROVE  LET S == {EntryOf(s, i) : i \in 1 .. n}
               x == Ranked(S, {p \in S \X S : Before(p[1], p[2])})
           IN  Indexes(x, s) /\ Len(x) = n
<1> DEFINE S == {EntryOf(s, i) : i \in 1 .. n}
           r == {p \in S \X S : Before(p[1], p[2])}
           x == Ranked(S, r)
           t == [i \in 1 .. n |-> EntryOf(s, i)]
<1>1. ASSUME NEW i \in 1 .. n PROVE EntryOf(s, i) \in Entries /\ EntryOf(s, i).record_index = i - 1
  <2>1. i - 1 \in 0 .. Len(s) /\ i - 1 \in Nat /\ s[i] \in Events
    OBVIOUS
  <2>2. Ends(s)[i - 1] \in Nat
    BY <2>1, EndsFacts
  <2> QED BY <2>1, <2>2 DEF EntryOf, Entries
<1>2. S \subseteq Entries
  BY <1>1
<1>3. \A a, b \in S : a.record_index = b.record_index => a = b
  BY <1>1
<1>4. IsFiniteSet(S) /\ Cardinality(S) = n
  <2>1. t \in [1 .. n -> S] /\ \A a \in S : \E k \in 1 .. n : t[k] = a
    OBVIOUS
  <2>2. \A j, k \in 1 .. n : t[j] = t[k] => j = k
    BY <1>1
  <2>3. n \in Nat
    OBVIOUS
  <2> HIDE DEF S, t
  <2> QED BY <2>1, <2>2, <2>3, PlacesCount
<1>5. Orders(r, S) /\ \A a, b \in S : <<a, b>> \in r <=> Before(a, b)
  <2>1. \A a \in S : a.record_index \in Int /\ a.event \in Events
    BY <1>2 DEF Entries
  <2> HIDE DEF S
  <2> QED BY <1>3, <2>1, TimelineOrders
<1>6. /\ x \in [1 .. n -> S]
      /\ \A a \in S : \E k \in 1 .. n : x[k] = a
      /\ \A j, k \in 1 .. n : <<x[j], x[k]>> \in r <=> j < k
  <2> HIDE DEF S, r
  <2> QED BY <1>4, <1>5, RankedSorts
<1> HIDE DEF x, r
<1>7. x \in Seq(Entries) /\ Len(x) = n
  <2>1. x \in [1 .. n -> Entries]
    BY <1>2, <1>6
  <2> QED BY <2>1
<1>8. \A j, k \in 1 .. n : Before(x[j], x[k]) <=> j < k
  <2>1. \A j \in 1 .. n : x[j] \in S
    BY <1>6
  <2> HIDE DEF S
  <2> QED BY <1>5, <1>6, <2>1
<1>9. \A k \in 1 .. n : \E i \in 1 .. n : x[k] = EntryOf(s, i)
  BY <1>6
<1>10. \A i \in 1 .. n : \E k \in 1 .. n : x[k] = EntryOf(s, i)
  BY <1>6
<1>11. Indexes(x, s)
  BY <1>7, <1>8, <1>9, <1>10 DEF Indexes
<1> QED BY <1>7, <1>11 DEF x, r

-----------------------------------------------------------------------------
(* The file while the engine is there. *)

\* The records counted so far stay where they are, and the file never shrinks.
FileMoves ==
    /\ appended \in Seq(Events) /\ appended' \in Seq(Events)
    /\ Len(appended) \in Nat /\ Len(appended') \in Nat /\ Len(appended) <= Len(appended')
    /\ \A i \in 1 .. Len(appended) : appended'[i] = appended[i]
    /\ \A i \in 0 .. Len(appended) : Ends(appended')[i] = Ends(appended)[i]
    /\ \A k \in 1 .. LastEnd :
         Images(appended')[Len(appended')][k] = Images(appended)[Len(appended)][k]
    /\ disk \in Seq(Bytes) /\ disk' \in Seq(Bytes) /\ Len(disk) <= Len(disk')
    /\ damaged \in BOOLEAN /\ damaged' \in BOOLEAN
    /\ damaged => damaged'
    /\ damaged' \/ \A k \in 1 .. Len(disk) : disk'[k] = disk[k]

LEMMA FileSteps ==
    ASSUME LogInv, FileNext
    PROVE  /\ LogInv' /\ FileMoves
           /\ \/ reader' = reader
              \/ caller \in {"command", "library"} /\ engine = "none"
<1>1. /\ WriterType /\ WriterInv /\ appended \in Seq(Events) /\ disk \in Seq(Bytes)
      /\ damaged \in BOOLEAN /\ Len(appended) \in Nat /\ Len(disk) \in Nat
  BY DEF LogInv, WriterType
<1>2. CASE WriterStep
  <2>1. WriterType' /\ WriterInv' /\ WriterMoves
    BY <1>1, <1>2, WriterSteps
  <2>2. ReaderType' /\ ReaderInv' /\ RecoveryInv'
    BY <2>1, ReaderStays
  <2>3. reader' = reader /\ damaged' = damaged /\ Grown
    BY <2>1 DEF WriterMoves, readerVars
  <2>4. disk' \in Seq(Bytes) /\ damaged' \in BOOLEAN
    BY <2>1 DEF WriterType
  <2>5. /\ appended' \in Seq(Events) /\ Len(appended') \in Nat /\ Len(appended) <= Len(appended')
        /\ \A i \in 1 .. Len(appended) : appended'[i] = appended[i]
        /\ \A i \in 0 .. Len(appended) : Ends(appended')[i] = Ends(appended)[i]
        /\ \A k \in 1 .. LastEnd :
             Images(appended')[Len(appended')][k] = Images(appended)[Len(appended)][k]
    BY <1>1, <2>1, OffsetsStay
  <2>6. FileMoves
    BY <1>1, <2>3, <2>4, <2>5 DEF FileMoves, Grown
  <2> QED BY <2>1, <2>2, <2>3, <2>6 DEF LogInv
<1>3. ASSUME NEW k \in 1 .. Len(disk), Rot(k)
      PROVE  LogInv' /\ FileMoves /\ reader' = reader
  <2>1. LogInv'
    BY <1>3, RotStep
  <2>2. reader' = reader /\ appended' = appended /\ damaged' = TRUE
    BY <1>3 DEF Rot, writerVars, readerVars, countVars
  <2>3. disk' \in Seq(Bytes) /\ Len(disk') = Len(disk)
    BY <1>1, <1>3, RotBytes
  <2> QED BY <1>1, <2>1, <2>2, <2>3 DEF FileMoves
<1>4. CASE /\ caller \in {"command", "library"} /\ engine = "none"
           /\ (StartRead(FALSE) \/ ReadRecord)
  <2>1. LogInv'
    BY <1>4, StartReadStep, ReadRecordStep
  <2>2. disk' = disk /\ appended' = appended /\ damaged' = damaged
    BY <1>4 DEF StartRead, ReadRecord, writerVars, countVars
  <2> QED BY <1>1, <1>4, <2>1, <2>2 DEF FileMoves
<1> QED BY <1>2, <1>3, <1>4 DEF FileNext, WriterStep, AppendEvent

LEMMA HoldsStays ==
    ASSUME FileMoves, NEW n \in 0 .. Len(appended), NEW c, NEW d, d \in Seq(Bytes),
           Holds(c, appended, n, damaged), Len(c) <= Len(d),
           damaged' \/ \A k \in 1 .. Len(c) : d[k] = c[k]
    PROVE  Holds(d, appended', n, damaged')
<1>1. /\ Ends(appended)[n] \in Nat /\ LastEnd \in Nat /\ Ends(appended)[n] <= LastEnd
      /\ Ends(appended')[n] = Ends(appended)[n]
  <2>1. appended \in Seq(Events) /\ Len(appended) \in 0 .. Len(appended) /\ n <= Len(appended)
    BY DEF FileMoves
  <2> QED BY <2>1, EndsOrdered DEF FileMoves, LastEnd
<1>2. Len(c) \in Nat /\ Len(d) \in Nat /\ Ends(appended)[n] <= Len(c)
  BY DEF Holds
<1>3. ASSUME ~damaged', NEW k \in 1 .. Ends(appended)[n]
      PROVE  d[k] = Images(appended')[Len(appended')][k]
  <2>1. k \in 1 .. Len(c) /\ k \in 1 .. LastEnd /\ ~damaged
    BY <1>1, <1>2, <1>3 DEF FileMoves
  <2> QED BY <1>3, <2>1 DEF Holds, FileMoves
<1> QED BY <1>1, <1>2, <1>3 DEF Holds

LEMMA IndexesStay ==
    ASSUME FileMoves, NEW x, Indexes(x, appended)
    PROVE  Indexes(x, appended')
<1>1. x \in Seq(Entries) /\ Len(x) \in Nat /\ Len(x) <= Len(appended) /\ Len(x) <= Len(appended')
  BY DEF Indexes, FileMoves
<1>2. ASSUME NEW i \in 1 .. Len(x) PROVE EntryOf(appended', i) = EntryOf(appended, i)
  <2>1. i \in 1 .. Len(appended) /\ i - 1 \in 0 .. Len(appended)
    BY <1>1 DEF FileMoves
  <2> QED BY <2>1 DEF EntryOf, FileMoves
<1> QED BY <1>1, <1>2 DEF Indexes

LEMMA PlayerStays ==
    ASSUME PlayerInv, UNCHANGED <<engine, index, player, options>>,
           damaged => damaged',
           player.phase = "playing" => Holds(player.opened, appended', Len(index), damaged')
    PROVE  PlayerInv'
<1>1. engine' = engine /\ index' = index /\ player' = player /\ options' = options
  OBVIOUS
<1>2. First' = First
  BY <1>1 DEF First, LowerBound
<1>3. \A x : BeyondWindow(x)' <=> BeyondWindow(x)
  BY <1>1 DEF BeyondWindow
<1>4. Played' /\ PlayerType'
  BY <1>1, <1>2, <1>3 DEF PlayerInv, Played, PlayerType, BeyondWindow
<1>5. player.phase = "playing" => Playing'
  BY <1>1, <1>2 DEF PlayerInv, Playing
<1>6. FailsOnlyOnDamage'
  BY <1>1 DEF PlayerInv, FailsOnlyOnDamage
<1> QED BY <1>1, <1>2, <1>4, <1>5, <1>6 DEF PlayerInv, BeyondWindow

\* The file changes, or read_log goes on.
LEMMA FileStep ==
    ASSUME ReplayInv, FileNext, UNCHANGED replayVars
    PROVE  ReplayInv'
<1>1. LogInv /\ IndexInv /\ CallerInv /\ PlayerInv
  BY DEF ReplayInv
<1>2. /\ engine' = engine /\ index' = index /\ player' = player /\ options' = options
      /\ caller' = caller /\ exit_code' = exit_code
  BY DEF replayVars, engineVars, callerVars
<1>3. /\ LogInv' /\ FileMoves
      /\ reader' = reader \/ (caller \in {"command", "library"} /\ engine = "none")
  BY <1>1, FileSteps
<1>4. engine = "good" => Len(index) \in 0 .. Len(appended)
  BY <1>1, <1>3 DEF IndexInv, Indexes, FileMoves
<1>5. IndexInv'
  <2>1. ASSUME engine = "good"
        PROVE  Indexes(index, appended') /\ Holds(disk', appended', Len(index), damaged')
    <3>1. Indexes(index, appended) /\ Holds(disk, appended, Len(index), damaged)
      BY <1>1, <2>1 DEF IndexInv
    <3>2. Indexes(index, appended')
      BY <1>3, <3>1, IndexesStay
    <3>3. /\ disk' \in Seq(Bytes) /\ Len(disk) <= Len(disk')
          /\ damaged' \/ \A k \in 1 .. Len(disk) : disk'[k] = disk[k]
      BY <1>3 DEF FileMoves
    <3> QED BY <1>3, <1>4, <2>1, <3>1, <3>2, <3>3, HoldsStays
  <2> QED BY <1>1, <1>2, <2>1 DEF IndexInv
<1>6. CallerInv'
  BY <1>1, <1>2, <1>3 DEF CallerInv
<1>7. PlayerInv'
  <2>1. ASSUME player.phase = "playing"
        PROVE  Holds(player.opened, appended', Len(index), damaged')
    <3>1. engine = "good" /\ Holds(player.opened, appended, Len(index), damaged)
      BY <1>1, <2>1 DEF PlayerInv, Playing
    <3>2. player.opened \in Seq(Bytes) /\ Len(player.opened) <= Len(player.opened)
      BY <3>1 DEF Holds
    <3> QED BY <1>3, <1>4, <3>1, <3>2, HoldsStays
  <2>2. damaged => damaged'
    BY <1>3 DEF FileMoves
  <2> QED BY <1>1, <1>2, <2>1, <2>2, PlayerStays
<1> QED BY <1>3, <1>5, <1>6, <1>7 DEF ReplayInv

\* Nothing happened yet.
LEMMA IdlePlayerFits ==
    ASSUME player' = IdlePlayer
    PROVE  PlayerInv'
<1>1. IdlePlayer \in [phase : {"idle", "playing", "done"},
                status : {"none", "complete", "log_error", "invalid_options", "io_error",
                          "consumer_error"},
                current : Nat, opened : Seq(Bytes), position : Nat,
                next_physical_offset : Nat \cup {Unset},
                hash : Seq(Handed), replayed : Seq(Handed), opened_ok : BOOLEAN]
  BY DEF IdlePlayer
<1>2. /\ player'.phase = "idle" /\ player'.hash = <<>> /\ player'.replayed = <<>>
      /\ player'.status = "none"
  BY DEF IdlePlayer
<1>3. PlayerType'
  BY <1>1 DEF PlayerType
<1>4. Played'
  BY <1>2 DEF Played
<1> QED BY <1>2, <1>3, <1>4 DEF PlayerInv, FailsOnlyOnDamage

LEMMA ReplayStarts == ReplayInit => ReplayInv
<1> SUFFICES ASSUME ReplayInit PROVE ReplayInv
  OBVIOUS
<1>1. LogInv
  BY LogInit DEF ReplayInit
<1>2. /\ engine = "none" /\ index = <<>> /\ player = IdlePlayer /\ caller = "start"
      /\ options = DefaultOptions /\ exit_code = "none" /\ reader.phase = "idle"
  BY DEF ReplayInit, Init, IdleReader
<1>3. IndexInv
  BY <1>2 DEF IndexInv
<1>4. CallerInv
  BY <1>2 DEF CallerInv, DefaultOptions, OptionsType
<1>5. PlayerType
  BY <1>2 DEF PlayerType, IdlePlayer
<1>6. player.hash = <<>> /\ player.replayed = <<>> /\ player.status = "none" /\ player.phase = "idle"
  BY <1>2 DEF IdlePlayer
<1>7. PlayerInv
  BY <1>2, <1>5, <1>6 DEF PlayerInv, Played, FailsOnlyOnDamage
<1> QED BY <1>1, <1>3, <1>4, <1>7 DEF ReplayInv

-----------------------------------------------------------------------------
(* The constructor and the callers. *)

LEMMA CompleteRead ==
    ASSUME LogInv, reader.phase = "done", reader.status = "complete"
    PROVE  /\ Len(reader.index) \in 0 .. Len(appended)
           /\ Holds(disk, appended, Len(reader.index), damaged)
           /\ \A i \in 1 .. Len(reader.index) :
                reader.index[i] = [file_offset |-> Ends(appended)[i - 1], event |-> appended[i]]
<1>1. /\ WriterType /\ WriterInv /\ ReaderType /\ ReaderInv /\ appended \in Seq(Events)
      /\ disk \in Seq(Bytes) /\ damaged \in BOOLEAN
  BY DEF LogInv, WriterType
<1>2. ~NotReading
  BY DEF NotReading
<1>3. Reading /\ reader.file_size <= Len(disk) /\ NeverWrongRecord
  BY <1>1, <1>2 DEF ReaderInv
<1> DEFINE m == Len(reader.index)
<1>4. m \in 0 .. Len(appended)
  BY <1>1, <1>3 DEF NeverWrongRecord, ReaderType
<1>5. Ends(appended)[m] <= Len(disk)
  BY <1>3 DEF Reading
<1>6. Ends(appended)[m] \in Nat /\ LastEnd \in Nat /\ Ends(appended)[m] <= LastEnd
  BY <1>1, <1>4, EndsOrdered DEF LastEnd
<1>7. damaged \/ \A k \in 1 .. Ends(appended)[m] : disk[k] = Images(appended)[Len(appended)][k]
  <2> SUFFICES ASSUME ~damaged, NEW k \in 1 .. Ends(appended)[m]
               PROVE  disk[k] = Images(appended)[Len(appended)][k]
    OBVIOUS
  <2>1. k \in 1 .. Len(disk) /\ k <= LastEnd
    BY <1>1, <1>5, <1>6
  <2>2. PartOf(disk, appended, damaged)
    BY <1>1, DiskPart
  <2> QED BY <2>1, <2>2 DEF PartOf, Stored, LastEnd
<1>8. Holds(disk, appended, m, damaged)
  BY <1>1, <1>5, <1>7 DEF Holds
<1> QED BY <1>3, <1>4, <1>8, EndIsEnds DEF NeverWrongRecord

LEMMA BuildIndexStep ==
    ASSUME ReplayInv, BuildIndex
    PROVE  ReplayInv'
<1>1. LogInv /\ IndexInv /\ CallerInv /\ PlayerInv
  BY DEF ReplayInv
<1>2. /\ engine = "none" /\ reader.phase = "done" /\ ~reader.recovers /\ reader' = IdleReader
      /\ disk' = disk /\ appended' = appended /\ damaged' = damaged /\ player' = player
      /\ caller' = caller /\ options' = options /\ exit_code' = exit_code
  BY DEF BuildIndex, writerVars, countVars, callerVars
<1>3. EndRead
  BY <1>2 DEF BuildIndex, EndRead
<1>4. LogInv'
  BY <1>1, <1>3, EndReadStep
<1>5. caller \in {"command", "library"} /\ exit_code = "none"
  <2>1. caller # "start"
    BY <1>1, <1>2 DEF CallerInv
  <2>2. player.phase # "done"
    BY <1>1, <1>2 DEF PlayerInv, IdlePlayer
  <2>3. caller # "exited"
    BY <1>1, <1>2, <2>2 DEF CallerInv
  <2> QED BY <1>1, <2>1, <2>3 DEF CallerInv
<1>6. CallerInv'
  BY <1>1, <1>2, <1>5 DEF CallerInv
<1>7. player' = IdlePlayer
  BY <1>1, <1>2 DEF PlayerInv
<1>8. PlayerInv'
  BY <1>7, IdlePlayerFits
<1>9. CASE reader.status # "complete"
  <2>1. engine' = "error" /\ index' = index /\ index = <<>>
    BY <1>1, <1>2, <1>9 DEF BuildIndex, IndexInv
  <2>2. IndexInv'
    BY <2>1 DEF IndexInv
  <2> QED BY <1>4, <1>6, <1>8, <2>2 DEF ReplayInv
<1>10. CASE reader.status = "complete"
  <2> DEFINE n == Len(reader.index)
             S == {[record_index |-> i - 1, file_offset |-> reader.index[i].file_offset,
                    event |-> reader.index[i].event] : i \in 1 .. n}
             Q == {EntryOf(appended, i) : i \in 1 .. n}
  <2>1. engine' = "good" /\ index' = Ranked(S, {p \in S \X S : Before(p[1], p[2])})
    BY <1>10 DEF BuildIndex
  <2>2. /\ n \in 0 .. Len(appended) /\ Holds(disk, appended, n, damaged)
        /\ \A i \in 1 .. n :
             reader.index[i] = [file_offset |-> Ends(appended)[i - 1], event |-> appended[i]]
    BY <1>1, <1>2, <1>10, CompleteRead
  <2>3. S = Q
    <3>1. ASSUME NEW i \in 1 .. n
          PROVE  [record_index |-> i - 1, file_offset |-> reader.index[i].file_offset,
                  event |-> reader.index[i].event] = EntryOf(appended, i)
      <4>1. reader.index[i] = [file_offset |-> Ends(appended)[i - 1], event |-> appended[i]]
        BY <2>2
      <4>2. /\ reader.index[i].file_offset = Ends(appended)[i - 1]
            /\ reader.index[i].event = appended[i]
        BY <4>1
      <4> QED BY <4>2 DEF EntryOf
    <3> QED BY <3>1
  <2>4. appended \in Seq(Events)
    BY <1>1 DEF LogInv, WriterType
  <2>5. index' = Ranked(Q, {p \in Q \X Q : Before(p[1], p[2])})
    BY <2>1, <2>3
  <2>6. Indexes(index', appended) /\ Len(index') = n
    BY <2>2, <2>4, <2>5, SortIndexes
  <2>7. IndexInv'
    BY <1>2, <2>1, <2>2, <2>6 DEF IndexInv
  <2> QED BY <1>4, <1>6, <1>8, <2>7 DEF ReplayInv
<1> QED BY <1>9, <1>10

LEMMA CallerSteps ==
    ASSUME ReplayInv,
           \/ \E arguments \in ArgumentLists : ReadOptions(arguments)
           \/ \E o \in LibraryOptions : CallLibrary(o)
    PROVE  ReplayInv'
<1>1. LogInv /\ IndexInv /\ CallerInv /\ PlayerInv
  BY DEF ReplayInv
<1>2. /\ UNCHANGED <<logVars, engineVars>> /\ caller = "start"
      /\ caller' \in {"command", "library", "exited"}
      /\ caller' = "exited" => options' = options
      /\ caller' # "exited" => exit_code' = exit_code
  BY DEF ReadOptions, CallLibrary, Exit
<1>3. options' \in OptionsType
  <2>1. ASSUME NEW arguments \in ArgumentLists, ReadOptions(arguments), caller' = "command"
        PROVE  options' \in OptionsType
    <3>1. /\ arguments # <<>>
          /\ options' = OptionsOf(ReadArguments(Tail(arguments), {"--print-events"}, CommandOptions))
      BY <2>1 DEF ReadOptions, Exit
    <3> QED BY <3>1, CommandOptionsTyped
  <2>2. ASSUME NEW o \in LibraryOptions, CallLibrary(o) PROVE options' \in OptionsType
    BY <2>2, OptionsAssumption DEF CallLibrary, OptionsType
  <2>3. ASSUME NEW arguments \in ArgumentLists, ReadOptions(arguments), caller' # "command"
        PROVE  options' = options
    BY <2>3 DEF ReadOptions, Exit
  <2> QED BY <1>1, <2>1, <2>2, <2>3 DEF CallerInv
<1>4. UNCHANGED vars /\ engine' = engine /\ index' = index /\ player' = player
  BY <1>2 DEF logVars, engineVars
<1>5. /\ disk' = disk /\ appended' = appended /\ damaged' = damaged /\ reader' = reader
  BY <1>4 DEF vars, writerVars, countVars, readerVars
<1>6. LogInv'
  BY <1>1, <1>4, LogStutters
<1>7. IndexInv'
  BY <1>1, <1>4, <1>5 DEF IndexInv
<1>8. engine = "none" /\ reader.phase = "idle" /\ exit_code = "none" /\ player = IdlePlayer
  BY <1>1, <1>2 DEF CallerInv, PlayerInv
<1>9. CallerInv'
  BY <1>2, <1>3, <1>4, <1>5, <1>8 DEF CallerInv
<1>10. PlayerInv'
  BY <1>4, <1>8, IdlePlayerFits
<1> QED BY <1>6, <1>7, <1>9, <1>10 DEF ReplayInv

\* The parts a step of replay() leaves alone.
LEMMA EngineStays ==
    ASSUME LogInv, IndexInv, UNCHANGED <<logVars, engine, index>>
    PROVE  /\ LogInv' /\ IndexInv'
           /\ disk' = disk /\ appended' = appended /\ damaged' = damaged /\ reader' = reader
<1>1. UNCHANGED vars /\ engine' = engine /\ index' = index
  BY DEF logVars
<1>2. /\ disk' = disk /\ appended' = appended /\ damaged' = damaged /\ reader' = reader
  BY <1>1 DEF vars, writerVars, countVars, readerVars
<1>3. IndexInv'
  BY <1>1, <1>2 DEF IndexInv
<1> QED BY <1>1, <1>2, <1>3, LogStutters

LEMMA EndReplayStep ==
    ASSUME ReplayInv, EndReplay
    PROVE  ReplayInv'
<1>1. LogInv /\ IndexInv /\ CallerInv /\ PlayerInv
  BY DEF ReplayInv
<1>2. /\ UNCHANGED <<logVars, engine, index, player, options>> /\ caller' = "exited"
      /\ player.phase = "done" /\ exit_code' \in {"0", "3"}
      /\ exit_code' = "0" => player.status = "complete"
  BY DEF EndReplay, Exit, engineVars
<1>3. LogInv' /\ IndexInv' /\ appended' = appended /\ damaged' = damaged
  BY <1>1, <1>2, EngineStays
<1>4. CallerInv'
  BY <1>1, <1>2 DEF CallerInv
<1>5. PlayerInv'
  <2>1. player.phase = "playing" => Holds(player.opened, appended', Len(index), damaged')
    BY <1>2
  <2> QED BY <1>1, <1>2, <1>3, <2>1, PlayerStays
<1> QED BY <1>3, <1>4, <1>5 DEF ReplayInv

-----------------------------------------------------------------------------
(* The window in the index. *)

LEMMA EntryTypes ==
    ASSUME NEW s, NEW x, Indexes(x, s)
    PROVE  /\ Len(x) \in Nat /\ DOMAIN x = 1 .. Len(x)
           /\ \A k \in 1 .. Len(x) : /\ x[k] \in Entries /\ x[k].event \in Events
                                     /\ x[k].record_index \in Nat /\ x[k].file_offset \in Nat
                                     /\ Timestamp(x[k]) \in Int
<1>1. x \in Seq(Entries)
  BY DEF Indexes
<1>2. \A k \in 1 .. Len(x) : x[k] \in Entries
  BY <1>1
<1>3. \A e \in Entries : /\ e.event \in Events /\ e.record_index \in Nat /\ e.file_offset \in Nat
                         /\ Timestamp(e) \in Int
  BY ArrivalAssumption DEF Entries, Timestamp
<1> QED BY <1>1, <1>2, <1>3

\* The records before a time are a beginning of the index.
LEMMA EarlierFirst ==
    ASSUME NEW s, NEW x, Indexes(x, s), NEW time \in Int
    PROVE  LET D == {i \in DOMAIN x : Timestamp(x[i]) < time} IN
           Cardinality(D) \in 0 .. Len(x) /\ D = 1 .. Cardinality(D)
<1> DEFINE D == {i \in DOMAIN x : Timestamp(x[i]) < time}
<1>1. /\ Len(x) \in Nat /\ D \subseteq 1 .. Len(x)
      /\ \A k \in 1 .. Len(x) : Timestamp(x[k]) \in Int
  BY EntryTypes
<1>2. ASSUME NEW i \in D, NEW j \in 1 .. i PROVE j \in D
  <2>1. i \in 1 .. Len(x) /\ j \in 1 .. Len(x) /\ Timestamp(x[i]) < time
    BY <1>1
  <2>2. j < i => Before(x[j], x[i])
    BY <2>1 DEF Indexes
  <2>3. Timestamp(x[j]) <= Timestamp(x[i])
    BY <1>1, <2>1, <2>2 DEF Before
  <2>4. Timestamp(x[j]) \in Int /\ Timestamp(x[i]) \in Int
    BY <1>1, <2>1
  <2>5. Timestamp(x[j]) < time
    BY <2>1, <2>3, <2>4
  <2> QED BY <2>1, <2>5, EntryTypes
<1> HIDE DEF D
<1>3. \A i \in D : \A j \in 1 .. i : j \in D
  BY <1>2
<1>4. Cardinality(D) \in 0 .. Len(x) /\ D = 1 .. Cardinality(D)
  BY <1>1, <1>3, Beginning
<1> QED BY <1>4 DEF D

\* First is the first entry that is not before the window.
LEMMA FirstInWindow ==
    ASSUME Indexes(index, appended), options \in OptionsType
    PROVE  /\ First \in 1 .. Len(index) + 1
           /\ \A k \in 1 .. Len(index) :
                k >= First <=> (options.from # Unset => Timestamp(index[k]) >= options.from)
<1>1. CASE options.from = Unset
  BY <1>1, EntryTypes DEF First
<1>2. CASE options.from # Unset
  <2> DEFINE D == {i \in DOMAIN index : Timestamp(index[i]) < options.from}
  <2>1. options.from \in Int
    BY <1>2 DEF OptionsType
  <2>2. Cardinality(D) \in 0 .. Len(index) /\ D = 1 .. Cardinality(D)
    BY <2>1, EarlierFirst
  <2>3. First = 1 + Cardinality(D)
    BY <1>2 DEF First, LowerBound
  <2>4. /\ Len(index) \in Nat /\ DOMAIN index = 1 .. Len(index)
        /\ \A k \in 1 .. Len(index) : Timestamp(index[k]) \in Int
    BY EntryTypes
  <2>5. ASSUME NEW k \in 1 .. Len(index) PROVE k >= First <=> Timestamp(index[k]) >= options.from
    <3>1. k \in D <=> Timestamp(index[k]) < options.from
      BY <2>4
    <3> HIDE DEF D
    <3>2. k \in D <=> k <= Cardinality(D)
      BY <2>2
    <3> QED BY <2>1, <2>2, <2>3, <2>4, <3>1, <3>2
  <2> HIDE DEF D
  <2>6. First \in 1 .. Len(index) + 1
    BY <2>2, <2>3, <2>4
  <2> QED BY <1>2, <2>5, <2>6
<1> QED BY <1>1, <1>2

\* The file is not opened.
LEMMA NotOpened ==
    ASSUME PlayerType', player'.phase = "done", player'.hash = <<>>, player'.replayed = <<>>,
           player'.status \in {"log_error", "invalid_options", "io_error"},
           player'.status = "log_error" => engine' = "error",
           player'.status = "io_error" => ~player'.opened_ok, engine' # "none"
    PROVE  PlayerInv'
<1>1. Played'
  BY DEF Played
<1> QED BY <1>1 DEF PlayerInv, FailsOnlyOnDamage

LEMMA StartReplayStep ==
    ASSUME ReplayInv, StartReplay
    PROVE  ReplayInv'
<1>1. LogInv /\ IndexInv /\ CallerInv /\ PlayerInv
  BY DEF ReplayInv
<1>2. /\ UNCHANGED <<logVars, engine, index>> /\ options' = options /\ caller' = caller
      /\ exit_code' = exit_code /\ engine # "none" /\ player.phase = "idle"
      /\ player = IdlePlayer
  BY <1>1 DEF StartReplay, callerVars, PlayerInv
<1>3. /\ LogInv' /\ IndexInv' /\ disk' = disk /\ appended' = appended /\ damaged' = damaged
      /\ reader' = reader /\ engine' = engine /\ index' = index
  BY <1>1, <1>2, EngineStays
<1>4. caller \in {"command", "library"} /\ exit_code = "none"
  BY <1>1, <1>2 DEF CallerInv
<1>5. CallerInv'
  BY <1>1, <1>2, <1>3, <1>4 DEF CallerInv
<1>6. PlayerType
  BY <1>1 DEF PlayerInv
<1>7. CASE engine = "error" /\ player' = Result("log_error")
  <2>1. PlayerType' /\ player'.phase = "done" /\ player'.hash = <<>> /\ player'.replayed = <<>>
        /\ player'.status = "log_error"
    BY <1>2, <1>6, <1>7 DEF PlayerType, Result, IdlePlayer
  <2>2. PlayerInv'
    BY <1>3, <1>7, <2>1, NotOpened
  <2> QED BY <1>3, <1>5, <2>2 DEF ReplayInv
<1>8. CASE player' = Result("invalid_options")
  <2>1. PlayerType' /\ player'.phase = "done" /\ player'.hash = <<>> /\ player'.replayed = <<>>
        /\ player'.status = "invalid_options"
    BY <1>2, <1>6, <1>8 DEF PlayerType, Result, IdlePlayer
  <2>2. PlayerInv'
    BY <1>2, <1>3, <2>1, NotOpened
  <2> QED BY <1>3, <1>5, <2>2 DEF ReplayInv
<1>9. CASE player' = [Result("io_error") EXCEPT !.opened_ok = FALSE]
  <2>1. PlayerType' /\ player'.phase = "done" /\ player'.hash = <<>> /\ player'.replayed = <<>>
        /\ player'.status = "io_error" /\ ~player'.opened_ok
    BY <1>2, <1>6, <1>9 DEF PlayerType, Result, IdlePlayer
  <2>2. PlayerInv'
    BY <1>2, <1>3, <2>1, NotOpened
  <2> QED BY <1>3, <1>5, <2>2 DEF ReplayInv
<1>10. CASE /\ engine = "good" /\ ~InvalidOptions(options)
            /\ player' = [player EXCEPT !.phase = "playing", !.current = First, !.opened = disk]
  <2>1. Indexes(index, appended) /\ Holds(disk, appended, Len(index), damaged)
    BY <1>1, <1>10 DEF IndexInv
  <2>2. First \in Nat
    BY <1>1, <2>1, FirstInWindow, EntryTypes DEF CallerInv
  <2>3. disk \in Seq(Bytes)
    BY <2>1 DEF Holds
  <2>4. /\ player'.phase = "playing" /\ player'.hash = <<>> /\ player'.replayed = <<>>
        /\ player'.status = "none" /\ player'.current = First /\ player'.opened = disk
        /\ player'.next_physical_offset = Unset
    BY <1>2, <1>10 DEF IdlePlayer
  <2>5. PlayerType'
    BY <1>6, <1>10, <2>2, <2>3 DEF PlayerType
  <2>6. First' = First
    BY <1>2, <1>3 DEF First, LowerBound
  <2>7. Playing'
    BY <1>2, <1>3, <1>10, <2>1, <2>2, <2>4, <2>6 DEF Playing
  <2>8. Played'
    BY <2>4 DEF Played
  <2>9. PlayerInv'
    BY <1>3, <1>10, <2>4, <2>5, <2>7, <2>8 DEF PlayerInv, FailsOnlyOnDamage
  <2> QED BY <1>3, <1>5, <2>9 DEF ReplayInv
<1> QED BY <1>7, <1>8, <1>9, <1>10 DEF StartReplay, First

-----------------------------------------------------------------------------
(* One turn of the loop. *)

LEMMA PayloadParses ==
    ASSUME NEW e \in Events
    PROVE  PayloadEvent(Payload(e)) = e
<1> DEFINE b == Payload(e)
<1>1. \A d \in Events : Payload(d) = b => d = e
  BY PayloadsAssumption
<1>2. Payload(e) = b
  OBVIOUS
<1> HIDE DEF b
<1>3. PayloadEvent(b) = e
  BY <1>1, <1>2 DEF PayloadEvent
<1> QED BY <1>3 DEF b

\* The payload of an indexed record is where its entry says.
LEMMA PayloadThere ==
    ASSUME NEW s \in Seq(Events), NEW n \in 0 .. Len(s), NEW c, Holds(c, s, n, FALSE),
           NEW i \in 1 .. n
    PROVE  LET start == Ends(s)[i - 1] + RecordHeaderSize
               size == PayloadSize[s[i]]
           IN  /\ start + size <= Len(c)
               /\ SubSeq(c, start + 1, start + size) = Payload(s[i])
<1> DEFINE start == Ends(s)[i - 1] + RecordHeaderSize
           size == PayloadSize[s[i]]
<1>1. /\ Len(s) \in Nat /\ n \in Nat /\ i \in Nat /\ n <= Len(s) /\ i <= n /\ i - 1 \in 0 .. Len(s)
      /\ i - 1 # Len(s) /\ (i - 1) + 1 = i /\ s[i] \in Events /\ i \in 0 .. Len(s)
  OBVIOUS
<1>2. size \in Nat /\ RecordHeaderSize \in Nat
  BY <1>1, LayoutAssumption
<1>3. /\ Ends(s)[i - 1] \in Nat /\ Ends(s)[i] = Ends(s)[i - 1] + RecordHeaderSize + size
  <2>1. Ends(s)[i - 1] \in Nat /\ Ends(s)[i] = Ends(s)[i - 1] + RecordSize(s[i])
    BY <1>1, EndsFacts
  <2> QED BY <1>2, <2>1 DEF RecordSize
<1>4. Ends(s)[i] <= Ends(s)[n] /\ Ends(s)[n] \in Nat
  BY <1>1, EndsOrdered
<1>5. c \in Seq(Bytes) /\ Ends(s)[n] <= Len(c) /\ Len(c) \in Nat
      /\ \A k \in 1 .. Ends(s)[n] : c[k] = Images(s)[Len(s)][k]
  BY DEF Holds
<1>6. start + size <= Len(c) /\ start \in Nat
  BY <1>2, <1>3, <1>4, <1>5
<1>7. /\ start = Ends(s)[i - 1] + RecordHeaderSize /\ RecordSize(s[i]) = RecordHeaderSize + size
      /\ start + size <= Ends(s)[n]
  BY <1>2, <1>3, <1>4 DEF RecordSize
<1> HIDE DEF start, size
<1>8. ASSUME NEW k \in 1 .. size PROVE c[start + k] = <<"P", 0, s[i], k>>
  <2> DEFINE j == RecordHeaderSize + k
  <2>1. j \in 1 .. RecordSize(s[i]) /\ Ends(s)[i - 1] + j = start + k /\ ~(j <= RecordHeaderSize)
        /\ j - RecordHeaderSize = k
    BY <1>2, <1>3, <1>7
  <2>2. start + k \in 1 .. Ends(s)[n]
    <3>1. start \in Nat /\ size \in Nat /\ Ends(s)[n] \in Nat /\ start + size <= Ends(s)[n]
      BY <1>2, <1>4, <1>6, <1>7
    <3> DEFINE last == Ends(s)[n]
    <3> HIDE DEF last
    <3>2. start + k \in 1 .. last
      BY <3>1 DEF last
    <3> QED BY <3>2 DEF last
  <2>3. Images(s)[Len(s)][Ends(s)[i - 1] + j] = RecordByte(i - 1, s[i], j)
    BY <1>1, <2>1, ImageBytes
  <2>4. RecordByte(i - 1, s[i], j) = <<"P", 0, s[i], k>>
    BY <2>1 DEF RecordByte
  <2>5. c[start + k] = Images(s)[Len(s)][start + k]
    BY <1>5, <2>2
  <2> QED BY <2>1, <2>3, <2>4, <2>5
<1>9. SubSeq(c, start + 1, start + size) = [k \in 1 .. size |-> c[start + k]]
  <2>1. /\ SubSeq(c, start + 1, start + size) \in Seq(Bytes)
        /\ Len(SubSeq(c, start + 1, start + size)) = size
        /\ \A k \in 1 .. size : SubSeq(c, start + 1, start + size)[k] = c[start + k]
    <3>1. /\ start + 1 \in 1 .. Len(c) + 1 /\ start + size \in (start + 1) - 1 .. Len(c)
          /\ (start + size) - (start + 1) + 1 = size
          /\ \A k \in 1 .. size : (start + 1) + k - 1 = start + k
      <4> DEFINE L == Len(c)
      <4>1. start \in Nat /\ size \in Nat /\ L \in Nat /\ start + size <= L
        BY <1>2, <1>5, <1>6
      <4> HIDE DEF L
      <4>2. start + 1 \in 1 .. L + 1 /\ start + size \in (start + 1) - 1 .. L
        BY <4>1
      <4>3. (start + size) - (start + 1) + 1 = size
        BY <4>1
      <4>4. \A k \in 1 .. size : (start + 1) + k - 1 = start + k
        BY <4>1
      <4> QED BY <4>2, <4>3, <4>4 DEF L
    <3>2. /\ SubSeq(c, start + 1, start + size) \in Seq(Bytes)
          /\ Len(SubSeq(c, start + 1, start + size)) = (start + size) - (start + 1) + 1
          /\ \A k \in 1 .. (start + size) - (start + 1) + 1 :
               SubSeq(c, start + 1, start + size)[k] = c[(start + 1) + k - 1]
      BY <1>5, <3>1, SubSeqProperties
    <3> QED BY <3>1, <3>2
  <2> QED BY <2>1, SMTT(30)
<1>10. Payload(s[i]) = [k \in 1 .. size |-> <<"P", 0, s[i], k>>]
  BY DEF Payload, size
<1>11. SubSeq(c, start + 1, start + size) = Payload(s[i])
  BY <1>8, <1>9, <1>10
<1> QED BY <1>6, <1>11 DEF start, size

LEMMA MorePlayed ==
    ASSUME PlayerInv, player.phase = "playing", MoreToReplay, options \in OptionsType,
           Indexes(index, appended)
    PROVE  /\ player.current \in 1 .. Len(index)
           /\ player.current = First + Len(player.hash)
           /\ First \in Nat /\ First >= 1 /\ Len(player.hash) \in Nat
           /\ PayloadStart(index[player.current]) =
                index[player.current].file_offset + RecordHeaderSize
<1> DEFINE entry == index[player.current]
<1>1. Playing /\ PlayerType /\ Len(player.hash) \in Nat
  BY DEF PlayerInv, PlayerType
<1>2. First \in Nat /\ First >= 1 /\ player.current = First + Len(player.hash) /\ Len(index) \in Nat
  BY <1>1, FirstInWindow, EntryTypes DEF Playing
<1>3. player.current \in 1 .. Len(index)
  BY <1>1, <1>2 DEF MoreToReplay
<1>4. entry.file_offset \in Nat
  BY <1>3, EntryTypes
<1>5. entry.file_offset # Unset
  BY <1>4, OptionsAssumption
<1>6. Sequential(entry) => player.position = entry.file_offset
  BY <1>1, <1>5 DEF Sequential, Playing
<1>7. PayloadStart(entry) = entry.file_offset + RecordHeaderSize
  BY <1>6 DEF PayloadStart
<1> QED BY <1>1, <1>2, <1>3, <1>7

\* On undamaged bytes the read succeeds.
LEMMA ReadSucceeds ==
    ASSUME PlayerInv, player.phase = "playing", MoreToReplay, options \in OptionsType,
           Indexes(index, appended), appended \in Seq(Events), ~damaged,
           NEW bytes, Holds(bytes, appended, Len(index), damaged)
    PROVE  LET entry == index[player.current]
               start == PayloadStart(entry)
               size == PayloadSize[entry.event]
           IN  /\ ~(Len(bytes) < start + size)
               /\ Unchanged(entry, SubSeq(bytes, start + 1, start + size))
<1> DEFINE entry == index[player.current]
           start == PayloadStart(entry)
           size == PayloadSize[entry.event]
<1>1. player.current \in 1 .. Len(index) /\ start = entry.file_offset + RecordHeaderSize
  BY MorePlayed
<1>2. PICK i \in 1 .. Len(index) : entry = EntryOf(appended, i)
  BY <1>1 DEF Indexes
<1>3. entry.file_offset = Ends(appended)[i - 1] /\ entry.event = appended[i]
  BY <1>2 DEF EntryOf
<1>4. Len(index) \in 0 .. Len(appended) /\ appended[i] \in Events
  <2>1. Len(index) \in Nat /\ Len(index) <= Len(appended)
    BY EntryTypes DEF Indexes
  <2> QED BY <2>1
<1>5. Holds(bytes, appended, Len(index), FALSE)
  BY DEF Holds
<1> HIDE DEF entry, start, size
<1>6. /\ (Ends(appended)[i - 1] + RecordHeaderSize) + PayloadSize[appended[i]] <= Len(bytes)
      /\ SubSeq(bytes, (Ends(appended)[i - 1] + RecordHeaderSize) + 1,
                (Ends(appended)[i - 1] + RecordHeaderSize) + PayloadSize[appended[i]])
           = Payload(appended[i])
  BY <1>4, <1>5, PayloadThere
<1>7. start = Ends(appended)[i - 1] + RecordHeaderSize /\ size = PayloadSize[appended[i]]
  BY <1>1, <1>3 DEF size
<1>8. start + size <= Len(bytes) /\ SubSeq(bytes, start + 1, start + size) = Payload(appended[i])
  BY <1>6, <1>7
<1>9. Unchanged(entry, SubSeq(bytes, start + 1, start + size))
  BY <1>3, <1>4, <1>8, PayloadParses DEF Unchanged
<1>10. start \in Nat /\ size \in Nat /\ Len(bytes) \in Nat
  <2>1. Ends(appended)[i - 1] \in Nat
    <3>1. i - 1 \in 0 .. Len(appended)
      BY <1>4
    <3> QED BY <3>1, EndsFacts
  <2>2. PayloadSize[appended[i]] \in Nat /\ RecordHeaderSize \in Nat
    BY <1>4, LayoutAssumption
  <2>3. bytes \in Seq(Bytes)
    BY DEF Holds
  <2>4. Len(bytes) \in Nat
    BY <2>3
  <2>5. start \in Nat
    BY <1>7, <2>1, <2>2
  <2> QED BY <1>7, <2>2, <2>4, <2>5
<1> QED BY <1>8, <1>9, <1>10 DEF entry, start, size

\* What the loop stands on does not change.
LEMMA WindowStays ==
    ASSUME options' = options, index' = index
    PROVE  First' = First /\ \A x : BeyondWindow(x)' <=> BeyondWindow(x)
BY DEF First, LowerBound, BeyondWindow

\* replay() ends without touching another record.
LEMMA LoopEnds ==
    ASSUME PlayerInv, player.phase = "playing", options' = options, index' = index,
           engine' = engine, damaged' = damaged,
           \/ player' = Result("complete") /\ ~MoreToReplay
           \/ (player' = Result("io_error") \/ player' = Result("log_error")) /\ damaged
    PROVE  PlayerInv'
<1>1. PlayerType /\ Playing /\ Played /\ player.replayed = player.hash
  BY DEF PlayerInv, Playing
<1>2. /\ player'.phase = "done" /\ player'.hash = player.hash /\ player'.replayed = player.hash
      /\ player'.status \in {"complete", "io_error", "log_error"}
      /\ player'.status # "complete" => damaged'
      /\ player'.status = "complete" => ~MoreToReplay
  BY <1>1 DEF Result, PlayerType
<1>3. PlayerType'
  BY <1>1, ZenonT(40) DEF PlayerType, Result
<1>4. First' = First /\ \A x : BeyondWindow(x)' <=> BeyondWindow(x)
  BY WindowStays
<1>5. Played'
  BY <1>1, <1>2, <1>4 DEF Played, BeyondWindow
<1>6. engine' = "good" /\ ~InvalidOptions(options')
  BY <1>1 DEF Playing
<1>7. player'.status = "complete" =>
        (First + Len(player.hash) <= Len(index) => BeyondWindow(index[First + Len(player.hash)]))
  BY <1>1, <1>2 DEF Playing, MoreToReplay
<1>8. player'.status = "complete" =>
        (First' + Len(player'.hash) <= Len(index') =>
           (BeyondWindow(index[First + Len(player.hash)]))')
  BY <1>2, <1>4, <1>7 DEF BeyondWindow
<1> QED BY <1>2, <1>3, <1>5, <1>6, <1>8 DEF PlayerInv, FailsOnlyOnDamage

\* A record is hashed, and handed over unless the consumer rejects it.
LEMMA RecordHashed ==
    ASSUME PlayerInv, player.phase = "playing", MoreToReplay, options \in OptionsType,
           Indexes(index, appended), options' = options, index' = index, engine' = engine,
           appended' = appended, damaged' = damaged, NEW accepts \in BOOLEAN,
           LET entry == index[player.current]
               size == PayloadSize[entry.event]
               record == RecordOfEntry(entry)
               hashed == [player EXCEPT
                            !.position = PayloadStart(entry) + size,
                            !.next_physical_offset = entry.file_offset + RecordHeaderSize + size,
                            !.hash = Append(@, record)]
           IN  player' = IF accepts
                           THEN [hashed EXCEPT !.replayed = Append(@, record), !.current = @ + 1]
                           ELSE [hashed EXCEPT !.phase = "done", !.status = "consumer_error"]
    PROVE  PlayerInv'
<1> DEFINE entry == index[player.current]
           size == PayloadSize[entry.event]
           record == RecordOfEntry(entry)
           after == entry.file_offset + RecordHeaderSize + size
<1>1. PlayerType /\ Playing /\ Played /\ player.replayed = player.hash /\ player.hash \in Seq(Handed)
  BY DEF PlayerInv, Playing, PlayerType
<1>2. /\ player.current \in 1 .. Len(index) /\ player.current = First + Len(player.hash)
      /\ First \in Nat /\ First >= 1 /\ Len(player.hash) \in Nat
      /\ PayloadStart(entry) = entry.file_offset + RecordHeaderSize
  BY MorePlayed
<1>3. entry.file_offset \in Nat /\ entry.event \in Events /\ entry.record_index \in Nat
  BY <1>2, EntryTypes
<1>4. record \in Handed /\ after \in Nat
  BY <1>3, LayoutAssumption DEF RecordOfEntry, Handed
<1>5. /\ player' = [player EXCEPT !.position = after, !.next_physical_offset = after,
                      !.hash = Append(player.hash, record),
                      !.replayed = IF accepts THEN Append(player.hash, record) ELSE player.hash,
                      !.current = IF accepts THEN player.current + 1 ELSE player.current,
                      !.phase = IF accepts THEN "playing" ELSE "done",
                      !.status = IF accepts THEN "none" ELSE "consumer_error"]
  <2>1. player.status = "none"
    BY <1>1 DEF Playing
  <2> QED BY <1>1, <1>2, <2>1, ZenonT(40) DEF PlayerType
<1> HIDE DEF record, after
<1>6. Append(player.hash, record) \in Seq(Handed)
  BY <1>1, <1>4
<1>7. PlayerType'
  <2> DEFINE c == IF accepts THEN player.current + 1 ELSE player.current
             h == Append(player.hash, record)
             r == IF accepts THEN h ELSE player.hash
             p == IF accepts THEN "playing" ELSE "done"
             t == IF accepts THEN "none" ELSE "consumer_error"
  <2>1. c \in Nat
    BY <1>2, EntryTypes
  <2>2. h \in Seq(Handed) /\ r \in Seq(Handed)
    BY <1>1, <1>6
  <2>3. p \in {"idle", "playing", "done"}
        /\ t \in {"none", "complete", "log_error", "invalid_options", "io_error", "consumer_error"}
    OBVIOUS
  <2>4. player' = [player EXCEPT !.position = after, !.next_physical_offset = after, !.hash = h,
                     !.replayed = r, !.current = c, !.phase = p, !.status = t]
    BY <1>5
  <2> HIDE DEF c, h, r, p, t
  <2> QED BY <1>1, <1>4, <2>1, <2>2, <2>3, <2>4, ZenonT(40) DEF PlayerType
<1>8. /\ player'.hash = Append(player.hash, record)
      /\ player'.replayed = IF accepts THEN player'.hash ELSE player.hash
      /\ player'.current = IF accepts THEN player.current + 1 ELSE player.current
      /\ player'.phase = IF accepts THEN "playing" ELSE "done"
      /\ player'.status = IF accepts THEN "none" ELSE "consumer_error"
      /\ player'.position = after /\ player'.next_physical_offset = after
      /\ player'.opened = player.opened
  BY <1>1, <1>5, ZenonT(40) DEF PlayerType
<1>9. First' = First /\ \A x : BeyondWindow(x)' <=> BeyondWindow(x)
  BY WindowStays
<1>10. Len(player'.hash) = Len(player.hash) + 1
  BY <1>1, <1>8
<1>11. ASSUME NEW k \in 1 .. Len(player'.hash)
       PROVE  /\ First - 1 + k <= Len(index)
              /\ player'.hash[k] = RecordOfEntry(index[First - 1 + k])
              /\ ~BeyondWindow(index[First - 1 + k])
  <2>1. CASE k \in 1 .. Len(player.hash)
    <3>1. player'.hash[k] = player.hash[k]
      BY <1>1, <1>8, <2>1
    <3> QED BY <1>1, <2>1, <3>1 DEF Played
  <2>2. CASE k = Len(player.hash) + 1
    <3>1. First - 1 + k = player.current
      BY <1>2, <2>2
    <3>2. player'.hash[k] = record
      BY <1>1, <1>8, <2>2
    <3> QED BY <1>2, <3>1, <3>2 DEF MoreToReplay, record
  <2> QED BY <1>2, <1>10, <2>1, <2>2
<1>12. Played'
  BY <1>9, <1>11 DEF Played, BeyondWindow
<1>13. engine' = "good" /\ ~InvalidOptions(options')
  BY <1>1 DEF Playing
<1>14. accepts => Playing'
  <2>1. player'.current = First' + Len(player'.hash) \/ ~accepts
    BY <1>2, <1>8, <1>9, <1>10
  <2>2. Holds(player'.opened, appended', Len(index'), damaged')
    BY <1>1, <1>8 DEF Playing
  <2> QED BY <1>8, <1>13, <2>1, <2>2 DEF Playing
<1>15. player'.hash # <<>>
  <2>1. Len(player'.hash) # 0 /\ Len(<<>>) = 0
    BY <1>2, <1>10
  <2> QED BY <2>1
<1>16. ~accepts => player'.replayed = Front(player'.hash)
  BY <1>1, <1>4, <1>8 DEF Front
<1> QED BY <1>7, <1>8, <1>12, <1>13, <1>14, <1>15, <1>16 DEF PlayerInv, FailsOnlyOnDamage

LEMMA ReplayRecordStep ==
    ASSUME ReplayInv, ReplayRecord
    PROVE  ReplayInv'
<1>1. LogInv /\ IndexInv /\ CallerInv /\ PlayerInv
  BY DEF ReplayInv
<1>2. /\ UNCHANGED <<logVars, engine, index>> /\ options' = options /\ caller' = caller
      /\ exit_code' = exit_code /\ player.phase = "playing"
  BY DEF ReplayRecord, callerVars
<1>3. /\ LogInv' /\ IndexInv' /\ disk' = disk /\ appended' = appended /\ damaged' = damaged
      /\ reader' = reader /\ engine' = engine /\ index' = index
  BY <1>1, <1>2, EngineStays
<1>4. Playing /\ PlayerType
  BY <1>1, <1>2 DEF PlayerInv
<1>5. engine = "good" /\ Indexes(index, appended) /\ Holds(disk, appended, Len(index), damaged)
      /\ options \in OptionsType /\ appended \in Seq(Events)
  BY <1>1, <1>4 DEF Playing, IndexInv, CallerInv, LogInv, WriterType
<1>6. exit_code = "none" /\ caller \in {"command", "library"}
  <2>1. caller # "exited"
    BY <1>1, <1>2, <1>5 DEF CallerInv
  <2> QED BY <1>1, <1>5, <2>1 DEF CallerInv
<1>7. CallerInv'
  BY <1>1, <1>2, <1>3, <1>6 DEF CallerInv
<1>8. CASE ~MoreToReplay /\ player' = Result("complete")
  BY <1>1, <1>2, <1>3, <1>7, <1>8, LoopEnds DEF ReplayInv
<1>9. ASSUME MoreToReplay, NEW bytes \in {disk, player.opened}, NEW accepts \in Answers,
             player' = Replayed(index[player.current], bytes, accepts)
      PROVE  PlayerInv'
  <2> DEFINE entry == index[player.current]
             start == PayloadStart(entry)
             size == PayloadSize[entry.event]
             payload == SubSeq(bytes, start + 1, start + size)
  <2>1. Holds(bytes, appended, Len(index), damaged)
    BY <1>4, <1>5 DEF Playing
  <2>2. ~damaged => ~(Len(bytes) < start + size) /\ Unchanged(entry, payload)
    BY <1>1, <1>2, <1>5, <1>9, <2>1, ReadSucceeds
  <2>3. accepts \in BOOLEAN
    BY DEF Answers
  <2>4. CASE Len(bytes) < start + size
    <3>1. player' = Result("io_error")
      BY <1>9, <2>4 DEF Replayed
    <3>2. damaged
      BY <2>2, <2>4
    <3> QED BY <1>1, <1>2, <1>3, <3>1, <3>2, LoopEnds
  <2>5. CASE ~(Len(bytes) < start + size) /\ ~Unchanged(entry, payload)
    <3>1. player' = Result("log_error")
      BY <1>9, <2>5 DEF Replayed
    <3>2. damaged
      BY <2>2, <2>5
    <3> QED BY <1>1, <1>2, <1>3, <3>1, <3>2, LoopEnds
  <2>6. CASE ~(Len(bytes) < start + size) /\ Unchanged(entry, payload)
    <3> DEFINE record == [record_index |-> entry.record_index, event |-> PayloadEvent(payload)]
               hashed(r) == [player EXCEPT
                            !.position = start + size,
                            !.next_physical_offset = entry.file_offset + RecordHeaderSize + size,
                            !.hash = Append(@, r)]
    <3>1. record = RecordOfEntry(entry)
      BY <2>6 DEF Unchanged, RecordOfEntry
    <3>2. player' = IF accepts
                      THEN [hashed(record) EXCEPT !.replayed = Append(@, record), !.current = @ + 1]
                      ELSE [hashed(record) EXCEPT !.phase = "done", !.status = "consumer_error"]
      BY <1>9, <2>3, <2>6 DEF Replayed
    <3>3. player' = IF accepts
                      THEN [hashed(RecordOfEntry(entry)) EXCEPT
                              !.replayed = Append(@, RecordOfEntry(entry)), !.current = @ + 1]
                      ELSE [hashed(RecordOfEntry(entry)) EXCEPT
                              !.phase = "done", !.status = "consumer_error"]
      BY <3>1, <3>2
    <3> QED BY <1>1, <1>2, <1>3, <1>5, <1>9, <2>3, <3>3, RecordHashed
  <2> QED BY <2>4, <2>5, <2>6
<1>10. PlayerInv'
  BY <1>1, <1>2, <1>3, <1>8, <1>9, LoopEnds DEF ReplayRecord
<1> QED BY <1>3, <1>7, <1>10 DEF ReplayInv

-----------------------------------------------------------------------------
(* What the invariant says of a replay. *)

\* Where the window ends in the index.
Final ==
    IF options.until = Unset THEN Len(index)
    ELSE Cardinality({i \in DOMAIN index : Timestamp(index[i]) < options.until})

LEMMA FinalInWindow ==
    ASSUME Indexes(index, appended), options \in OptionsType
    PROVE  /\ Final \in 0 .. Len(index)
           /\ \A k \in 1 .. Len(index) : k <= Final <=> ~BeyondWindow(index[k])
<1>1. CASE options.until = Unset
  BY <1>1, EntryTypes DEF Final, BeyondWindow
<1>2. CASE options.until # Unset
  <2> DEFINE D == {i \in DOMAIN index : Timestamp(index[i]) < options.until}
  <2>1. options.until \in Int
    BY <1>2 DEF OptionsType
  <2>2. Cardinality(D) \in 0 .. Len(index) /\ D = 1 .. Cardinality(D)
    BY <2>1, EarlierFirst
  <2>3. Final = Cardinality(D)
    BY <1>2 DEF Final
  <2>4. /\ Len(index) \in Nat /\ DOMAIN index = 1 .. Len(index)
        /\ \A k \in 1 .. Len(index) : Timestamp(index[k]) \in Int
    BY EntryTypes
  <2>5. ASSUME NEW k \in 1 .. Len(index) PROVE k <= Final <=> ~BeyondWindow(index[k])
    <3>1. k \in D <=> Timestamp(index[k]) < options.until
      BY <2>4
    <3> HIDE DEF D
    <3>2. k \in D <=> k <= Cardinality(D)
      BY <2>2
    <3>3. BeyondWindow(index[k]) <=> ~(Timestamp(index[k]) < options.until)
      BY <1>2, <2>1, <2>4 DEF BeyondWindow
    <3> QED BY <2>3, <3>1, <3>2, <3>3
  <2> HIDE DEF D
  <2> QED BY <2>2, <2>3, <2>5
<1> QED BY <1>1, <1>2

LEMMA WindowNotReversed ==
    ASSUME Indexes(index, appended), options \in OptionsType, ~InvalidOptions(options)
    PROVE  First - 1 <= Final
<1>1. /\ First \in 1 .. Len(index) + 1 /\ Final \in 0 .. Len(index) /\ Len(index) \in Nat
  BY FirstInWindow, FinalInWindow, EntryTypes
<1>2. SUFFICES ASSUME First - 1 > Final PROVE FALSE
  BY <1>1
<1> DEFINE k == First - 1
<1>3. k \in 1 .. Len(index) /\ ~(k >= First) /\ ~(k <= Final)
  BY <1>1, <1>2
<1> HIDE DEF k
<1>4. options.from # Unset /\ ~(Timestamp(index[k]) >= options.from)
  BY <1>3, FirstInWindow
<1>5. BeyondWindow(index[k])
  BY <1>3, FinalInWindow
<1>6. options.until # Unset /\ Timestamp(index[k]) >= options.until
  BY <1>5 DEF BeyondWindow
<1>7. options.from \in Int /\ options.until \in Int /\ Timestamp(index[k]) \in Int
  BY <1>3, <1>4, <1>6, EntryTypes DEF OptionsType
<1>8. ~(options.until <= options.from)
  BY <1>4, <1>6 DEF InvalidOptions
<1> QED BY <1>4, <1>6, <1>7, <1>8

\* The records of the window are a run of the index.
LEMMA SelectedIsRun ==
    ASSUME Indexes(index, appended), options \in OptionsType, ~InvalidOptions(options)
    PROVE  Selected(options) =
             [k \in 1 .. Final - First + 1 |-> RecordOfEntry(index[First - 1 + k])]
<1> DEFINE R(i) == [record_index |-> i - 1, event |-> appended[i]]
           S == {R(i) : i \in {j \in 1 .. Len(index) : InWindow(options, j)}}
           Q(a, b) == \/ Arrival[a.event] < Arrival[b.event]
                      \/ Arrival[a.event] = Arrival[b.event] /\ a.record_index < b.record_index
           r == {p \in S \X S : Q(p[1], p[2])}
           n == Final - First + 1
           t == [k \in 1 .. n |-> RecordOfEntry(index[First - 1 + k])]
<1>1. /\ First \in 1 .. Len(index) + 1 /\ Final \in 0 .. Len(index) /\ Len(index) \in Nat
      /\ First - 1 <= Final
  BY FirstInWindow, FinalInWindow, EntryTypes, WindowNotReversed
<1>2. n \in Nat /\ \A k \in 1 .. n : First - 1 + k \in 1 .. Len(index) /\ First - 1 + k >= First
                                    /\ First - 1 + k <= Final
  BY <1>1
<1>3. ASSUME NEW m \in 1 .. Len(index), NEW i \in 1 .. Len(index), index[m] = EntryOf(appended, i)
      PROVE  /\ RecordOfEntry(index[m]) = R(i)
             /\ InWindow(options, i) <=> m >= First /\ m <= Final
  <2>1. index[m].event = appended[i] /\ index[m].record_index = i - 1
    BY <1>3 DEF EntryOf
  <2>2. Timestamp(index[m]) = Arrival[appended[i]] /\ Timestamp(index[m]) \in Int
    BY <2>1, EntryTypes DEF Timestamp
  <2>3. m >= First <=> (options.from # Unset => Arrival[appended[i]] >= options.from)
    BY <2>2, FirstInWindow
  <2>4. m <= Final <=> ~BeyondWindow(index[m])
    BY FinalInWindow
  <2>5. options.until # Unset => options.until \in Int
    BY DEF OptionsType
  <2>6. m <= Final <=> (options.until # Unset => Arrival[appended[i]] < options.until)
    BY <2>2, <2>4, <2>5 DEF BeyondWindow
  <2> QED BY <2>1, <2>3, <2>6 DEF RecordOfEntry, InWindow
<1>4. t \in [1 .. n -> S]
  <2>1. ASSUME NEW k \in 1 .. n PROVE RecordOfEntry(index[First - 1 + k]) \in S
    <3> DEFINE m == First - 1 + k
    <3>1. m \in 1 .. Len(index) /\ m >= First /\ m <= Final
      BY <1>2
    <3>2. PICK i \in 1 .. Len(index) : index[m] = EntryOf(appended, i)
      BY <3>1 DEF Indexes
    <3>3. RecordOfEntry(index[m]) = R(i) /\ InWindow(options, i)
      BY <1>3, <3>1, <3>2
    <3> QED BY <3>3
  <2> QED BY <2>1
<1>5. ASSUME NEW x \in S PROVE \E k \in 1 .. n : t[k] = x
  <2>1. PICK i \in 1 .. Len(index) : InWindow(options, i) /\ x = R(i)
    OBVIOUS
  <2>2. PICK m \in 1 .. Len(index) : index[m] = EntryOf(appended, i)
    BY DEF Indexes
  <2>3. RecordOfEntry(index[m]) = x /\ m >= First /\ m <= Final
    BY <1>3, <2>1, <2>2
  <2> DEFINE k == m - First + 1
  <2>4. k \in 1 .. n /\ First - 1 + k = m
    BY <1>1, <2>3
  <2> QED BY <2>3, <2>4
<1>6. ASSUME NEW j \in 1 .. n, NEW k \in 1 .. n PROVE <<t[j], t[k]>> \in r <=> j < k
  <2> DEFINE a == index[First - 1 + j]
             b == index[First - 1 + k]
  <2>1. t[j] \in S /\ t[k] \in S
    BY <1>4
  <2>2. <<t[j], t[k]>> \in r <=> Q(t[j], t[k])
    <3> HIDE DEF S, t, Q
    <3> QED BY <2>1
  <2>3. t[j].event = a.event /\ t[j].record_index = a.record_index
        /\ t[k].event = b.event /\ t[k].record_index = b.record_index
    BY DEF RecordOfEntry
  <2>4. Q(t[j], t[k]) <=> Before(a, b)
    BY <2>3 DEF Before, Timestamp
  <2>5. Before(a, b) <=> First - 1 + j < First - 1 + k
    BY <1>2 DEF Indexes
  <2>6. j < k <=> First - 1 + j < First - 1 + k
    BY <1>1, <1>2
  <2> QED BY <2>2, <2>4, <2>5, <2>6
<1> HIDE DEF S, r, t, n
<1>7. Ranked(S, r) = t
  BY <1>2, <1>4, <1>5, <1>6, SortedIsRanked, SMTT(30)
<1>8. Selected(options) = Ranked(S, r)
  BY DEF Selected, S, r
<1> QED BY <1>7, <1>8 DEF t, n

LEMMA WindowFollows == ReplayInv => ReplaysWindow
<1> SUFFICES ASSUME ReplayInv PROVE ReplaysWindow
  OBVIOUS
<1>1. IndexInv /\ CallerInv /\ PlayerInv /\ options \in OptionsType
  BY DEF ReplayInv, CallerInv
<1>2. Played /\ player.hash \in Seq(Handed) /\ Len(player.hash) \in Nat
  BY <1>1 DEF PlayerInv, PlayerType
<1>3. ASSUME engine = "good", ~InvalidOptions(options)
      PROVE  /\ IsPrefix(player.hash, Selected(options))
             /\ player.status = "complete" => player.hash = Selected(options)
  <2> DEFINE n == Final - First + 1
             s == Selected(options)
  <2>1. Indexes(index, appended)
    BY <1>1, <1>3 DEF IndexInv
  <2>2. /\ First \in 1 .. Len(index) + 1 /\ Final \in 0 .. Len(index) /\ Len(index) \in Nat
        /\ First - 1 <= Final
    BY <1>1, <1>3, <2>1, FirstInWindow, FinalInWindow, EntryTypes, WindowNotReversed
  <2>3. s = [k \in 1 .. n |-> RecordOfEntry(index[First - 1 + k])] /\ n \in Nat
    BY <1>1, <1>3, <2>1, <2>2, SelectedIsRun
  <2>4. ASSUME NEW k \in 1 .. Len(player.hash)
        PROVE  k <= n /\ player.hash[k] = RecordOfEntry(index[First - 1 + k])
    <3>1. /\ First - 1 + k <= Len(index) /\ ~BeyondWindow(index[First - 1 + k])
          /\ player.hash[k] = RecordOfEntry(index[First - 1 + k])
      BY <1>2 DEF Played
    <3>2. First - 1 + k \in 1 .. Len(index)
      BY <2>2, <3>1
    <3>3. First - 1 + k <= Final
      BY <1>1, <2>1, <3>1, <3>2, FinalInWindow
    <3> QED BY <2>2, <3>1, <3>3
  <2>5. Len(player.hash) <= n
    <3>1. Len(player.hash) > 0 => Len(player.hash) \in 1 .. Len(player.hash)
      BY <1>2
    <3> QED BY <1>2, <2>3, <2>4, <3>1
  <2>6. s \in Seq(Handed) /\ Len(s) = n
    <3>1. ASSUME NEW k \in 1 .. n PROVE RecordOfEntry(index[First - 1 + k]) \in Handed
      <4>1. First - 1 + k \in 1 .. Len(index)
        BY <2>2
      <4> QED BY <2>1, <4>1, EntryTypes DEF RecordOfEntry, Handed
    <3>2. s \in [1 .. n -> Handed]
      BY <2>3, <3>1
    <3> HIDE DEF s, n
    <3> QED BY <2>3, <3>2
  <2>7. \A k \in 1 .. Len(player.hash) : k \in 1 .. n /\ s[k] = player.hash[k]
    BY <2>3, <2>4
  <2> HIDE DEF s, n
  <2>8. IsPrefix(player.hash, s)
    <3>1. SubSeq(player.hash, 1, Len(player.hash)) = player.hash
      BY <1>2
    <3>2. /\ SubSeq(s, 1, Len(player.hash)) \in Seq(Handed)
          /\ Len(SubSeq(s, 1, Len(player.hash))) = Len(player.hash)
          /\ \A k \in 1 .. Len(player.hash) : SubSeq(s, 1, Len(player.hash))[k] = s[k]
      BY <1>2, <2>3, <2>5, <2>6
    <3>3. \A k \in 1 .. Len(player.hash) : SubSeq(s, 1, Len(player.hash))[k] = player.hash[k]
      BY <2>7, <3>2
    <3>4. SubSeq(s, 1, Len(player.hash)) = player.hash
      BY <1>2, <3>2, <3>3, SeqEqual
    <3> QED BY <2>5, <2>6, <3>1, <3>4 DEF IsPrefix
  <2>9. player.status = "complete" => Len(player.hash) >= n
    <3> SUFFICES ASSUME player.status = "complete", Len(player.hash) < n PROVE FALSE
      BY <1>2, <2>3
    <3>1. First + Len(player.hash) \in 1 .. Len(index) /\ First + Len(player.hash) <= Final
      BY <1>2, <2>2 DEF n
    <3>2. BeyondWindow(index[First + Len(player.hash)])
      BY <1>1, <3>1 DEF PlayerInv
    <3> QED BY <1>1, <2>1, <3>1, <3>2, FinalInWindow
  <2>10. player.status = "complete" => player.hash = s
    <3> SUFFICES ASSUME player.status = "complete" PROVE player.hash = s
      OBVIOUS
    <3>1. Len(player.hash) = Len(s)
      BY <1>2, <2>3, <2>5, <2>6, <2>9
    <3> QED BY <1>2, <2>6, <2>7, <3>1
  <2> QED BY <2>8, <2>10 DEF s
<1>4. player.hash # <<>> => engine = "good" /\ ~InvalidOptions(options)
  BY <1>1 DEF PlayerInv
<1>5. player.status = "complete" \/ (exit_code = "0" /\ engine # "none") =>
        player.status = "complete" /\ engine = "good" /\ ~InvalidOptions(options)
  BY <1>1 DEF CallerInv, PlayerInv
<1>6. player.replayed = IF player.status = "consumer_error" THEN Front(player.hash) ELSE player.hash
  BY <1>1 DEF PlayerInv
<1>7. player.status = "complete" => player.replayed = player.hash
  BY <1>6
<1> QED BY <1>3, <1>4, <1>5, <1>6, <1>7 DEF ReplaysWindow

LEMMA ReplayNexts ==
    ASSUME ReplayInv, [ReplayNext]_<<logVars, replayVars>>
    PROVE  ReplayInv'
<1>1. CASE FileNext /\ UNCHANGED replayVars
  BY <1>1, FileStep
<1>2. CASE BuildIndex
  BY <1>2, BuildIndexStep
<1>3. CASE \/ \E arguments \in ArgumentLists : ReadOptions(arguments)
           \/ \E o \in LibraryOptions : CallLibrary(o)
  BY <1>3, CallerSteps
<1>4. CASE StartReplay
  BY <1>4, StartReplayStep
<1>5. CASE ReplayRecord
  BY <1>5, ReplayRecordStep
<1>6. CASE EndReplay
  BY <1>6, EndReplayStep
<1>7. CASE UNCHANGED <<logVars, replayVars>>
  <2>1. UNCHANGED <<logVars, engine, index, player, options>> /\ caller' = caller
        /\ exit_code' = exit_code
    BY <1>7 DEF replayVars, engineVars, callerVars
  <2>2. LogInv /\ IndexInv /\ CallerInv /\ PlayerInv
    BY DEF ReplayInv
  <2>3. LogInv' /\ IndexInv' /\ reader' = reader /\ appended' = appended /\ damaged' = damaged
    BY <2>1, <2>2, EngineStays
  <2>4. CallerInv'
    BY <2>1, <2>2, <2>3 DEF CallerInv
  <2>5. player.phase = "playing" => Holds(player.opened, appended', Len(index), damaged')
    BY <2>2, <2>3 DEF PlayerInv, Playing
  <2>6. PlayerInv'
    BY <2>1, <2>2, <2>3, <2>5, PlayerStays
  <2> QED BY <2>3, <2>4, <2>6 DEF ReplayInv
<1> QED BY <1>1, <1>2, <1>3, <1>4, <1>5, <1>6, <1>7 DEF ReplayNext

LEMMA ReplayInvariant == ReplaySpec => []ReplayInv
BY ReplayStarts, ReplayNexts, PTL DEF ReplaySpec

-----------------------------------------------------------------------------
(* The theorems. *)

\* Whatever is appended to the recording and whatever byte goes bad between the
\* indexing and the reading of a record, replay() hands over the records of its
\* window as they were appended, each once, by arrival and then by append
\* index: all of them when it completes, otherwise a prefix, and the hash
\* covers exactly these and the one the consumer failed on; and traceforge
\* replay exits with 0 only after a whole window.
THEOREM ReplaysItsWindow == ReplaySpec => []ReplaysWindow
BY ReplayInvariant, WindowFollows, PTL

\* A replay of an undamaged recording never fails to read a record, also when
\* a collector extends the file meanwhile: read_payload never reads from the
\* wrong place, whether it seeks or goes on where the last record ended.
THEOREM UndamagedReplays == ReplaySpec => []FailsOnlyOnDamage
<1>1. ReplayInv => FailsOnlyOnDamage
  BY DEF ReplayInv, PlayerInv
<1> QED BY <1>1, ReplayInvariant, PTL

-----------------------------------------------------------------------------
(* Analyzer: the last record with a key. *)

\* The greatest of 0 and a set of positions: the last position, or 0.
LEMMA LastPosition ==
    ASSUME NEW n \in Nat, NEW D, D \subseteq 1 .. n
    PROVE  /\ D = {} => Max({0} \cup D) = 0
           /\ D # {} => Max({0} \cup D) \in D
           /\ \A i \in D : i <= Max({0} \cup D)
<1> DEFINE E == {0} \cup D
           Depth == {k \in Nat : \E i \in E : k = n - i}
<1>1. E \subseteq 0 .. n /\ 0 \in E
  OBVIOUS
<1>2. \E k \in Depth : \A j \in Depth : k <= j
  <2>1. Depth \subseteq Nat /\ n \in Depth
    BY <1>1
  <2> HIDE DEF Depth
  <2> QED BY <2>1, LeastNumber
<1>3. PICK m \in E : \A i \in E : m >= i
  <2>1. PICK k \in Depth : \A j \in Depth : k <= j
    BY <1>2
  <2>2. PICK i \in E : k = n - i
    OBVIOUS
  <2>3. ASSUME NEW j \in E PROVE i >= j
    <3>1. n - j \in Depth
      BY <1>1
    <3>2. k <= n - j /\ i \in 0 .. n /\ j \in 0 .. n
      BY <1>1, <2>1, <3>1
    <3> QED BY <2>2, <3>2
  <2> QED BY <2>3
<1>4. Max(E) \in E /\ \A i \in E : Max(E) >= i
  <2> HIDE DEF E, Depth
  <2> QED BY <1>3 DEF Max
<1> DEFINE top == Max(E)
<1>5. top \in E /\ \A i \in E : top >= i
  BY <1>4
<1> HIDE DEF top
<1>6. /\ D = {} => top = 0
      /\ D # {} => top \in D
      /\ \A i \in D : i <= top
  <2>1. D = {} => top = 0
    BY <1>5
  <2>2. ASSUME NEW i \in D PROVE i <= top /\ top \in D
    <3>1. i \in 1 .. n /\ top \in 0 .. n /\ top >= i
      BY <1>1, <1>5
    <3>2. top # 0
      BY <3>1
    <3> QED BY <1>5, <3>1, <3>2
  <2> QED BY <2>1, <2>2
<1> QED BY <1>6 DEF top

-----------------------------------------------------------------------------
(* What the counters of a log are, for a log s as a parameter. *)

Mine(s, p) == {i \in 1 .. Len(s) : s[i].producer = p}
OwnBefore(s, i) == Max({0} \cup {j \in 1 .. i - 1 : s[j].producer = s[i].producer})
Restarts(s, p) ==
    {i \in Mine(s, p) : OwnBefore(s, i) # 0 /\ s[i].number <= s[OwnBefore(s, i)].number}
Missing(s, p) ==
    {m \in Mine(s, p) \X (0 .. Word - 1) :
       /\ OwnBefore(s, m[1]) # 0
       /\ s[OwnBefore(s, m[1])].number < m[2] /\ m[2] < s[m[1]].number}
Account(s, p) ==
    [records |-> Cardinality(Mine(s, p)),
     gaps |-> Cardinality(Missing(s, p)) % Word,
     non_increasing |-> Cardinality(Restarts(s, p)),
     previous_sequence |->
       IF Mine(s, p) = {} THEN Empty ELSE s[Max({0} \cup Mine(s, p))].number]

OfStream(s, k) == {i \in 1 .. Len(s) : StreamKey(s[i]) = k}
OfClock(s, c) == {i \in 1 .. Len(s) : SourceClockKey(s[i]) = c}
ClockBefore(s, i) ==
    Max({0} \cup {j \in 1 .. i - 1 : SourceClockKey(s[j]) = SourceClockKey(s[i])})
Regressions(s, k) ==
    {i \in OfStream(s, k) : ClockBefore(s, i) # 0 /\ s[i].source <= s[ClockBefore(s, i)].source}
OfSeverity(s, v) == {i \in 1 .. Len(s) : s[i].severity = v}

\* The inductive invariant: each counter is what its definition gives for the
\* records so far, and what the next turn compares with is the last record of
\* the producer and of the source clock.
CountersInv ==
    /\ log \in Seq(Records)
    /\ DOMAIN producers = {log[i].producer : i \in 1 .. Len(log)}
    /\ \A p \in DOMAIN producers : producers[p] = Account(log, p)
    /\ DOMAIN streams = {StreamKey(log[i]) : i \in 1 .. Len(log)}
    /\ \A k \in DOMAIN streams : streams[k].regressions = Cardinality(Regressions(log, k))
    /\ DOMAIN previous_source_timestamps = {SourceClockKey(log[i]) : i \in 1 .. Len(log)}
    /\ \A c \in DOMAIN previous_source_timestamps :
         previous_source_timestamps[c] = log[Max({0} \cup OfClock(log, c))].source
    /\ faults = [v \in Severities |-> Cardinality(OfSeverity(log, v))]

LEMMA Positions ==
    ASSUME NEW s \in Seq(Records), NEW T, T \subseteq 1 .. Len(s)
    PROVE  /\ IsFiniteSet(T) /\ Cardinality(T) \in Nat
           /\ Len(s) + 1 \notin T
           /\ Cardinality(T \cup {Len(s) + 1}) = Cardinality(T) + 1
<1>1. Len(s) \in Nat
  OBVIOUS
<1>2. IsFiniteSet(1 .. Len(s))
  BY <1>1, FS_Interval
<1>3. IsFiniteSet(T) /\ Cardinality(T) \in Nat
  BY <1>2, FS_Subset, FS_CardinalityType
<1>4. Len(s) + 1 \notin T
  BY <1>1
<1> QED BY <1>3, <1>4, FS_AddElement

\* A turn leaves the records before it alone.
LEMMA OneMore ==
    ASSUME NEW s \in Seq(Records), NEW r \in Records
    PROVE  LET t == Append(s, r) IN
           /\ t \in Seq(Records)
           /\ Len(s) \in Nat /\ Len(t) = Len(s) + 1
           /\ t[Len(s) + 1] = r
           /\ \A i \in 1 .. Len(s) : t[i] = s[i] /\ s[i] \in Records
           /\ 1 .. Len(t) = (1 .. Len(s)) \cup {Len(s) + 1}
OBVIOUS

LEMMA MineGrows ==
    ASSUME NEW s \in Seq(Records), NEW r \in Records, NEW p
    PROVE  /\ Mine(s, p) \subseteq 1 .. Len(s)
           /\ Mine(Append(s, r), p) =
                IF r.producer = p THEN Mine(s, p) \cup {Len(s) + 1} ELSE Mine(s, p)
BY OneMore DEF Mine

LEMMA OwnBeforeGrows ==
    ASSUME NEW s \in Seq(Records), NEW r \in Records
    PROVE  /\ \A i \in 1 .. Len(s) : OwnBefore(Append(s, r), i) = OwnBefore(s, i)
           /\ OwnBefore(Append(s, r), Len(s) + 1) = Max({0} \cup Mine(s, r.producer))
<1> DEFINE t == Append(s, r)
<1>1. /\ Len(s) \in Nat /\ t[Len(s) + 1] = r
      /\ \A i \in 1 .. Len(s) : t[i] = s[i]
  BY OneMore
<1> HIDE DEF t
<1>2. ASSUME NEW i \in 1 .. Len(s) PROVE OwnBefore(t, i) = OwnBefore(s, i)
  <2>1. \A j \in 1 .. i - 1 : t[j] = s[j]
    BY <1>1
  <2>2. {j \in 1 .. i - 1 : t[j].producer = t[i].producer}
          = {j \in 1 .. i - 1 : s[j].producer = s[i].producer}
    BY <1>1, <2>1
  <2> QED BY <2>2 DEF OwnBefore
<1>3. OwnBefore(t, Len(s) + 1) = Max({0} \cup Mine(s, r.producer))
  <2>1. (Len(s) + 1) - 1 = Len(s)
    BY <1>1
  <2>2. {j \in 1 .. (Len(s) + 1) - 1 : t[j].producer = t[Len(s) + 1].producer} = Mine(s, r.producer)
    BY <1>1, <2>1 DEF Mine
  <2> QED BY <2>2 DEF OwnBefore
<1> QED BY <1>2, <1>3 DEF t

\* The position a record of the producer is compared with is one of its own.
LEMMA OwnBeforeIs ==
    ASSUME NEW s \in Seq(Records), NEW i \in 1 .. Len(s), OwnBefore(s, i) # 0
    PROVE  OwnBefore(s, i) \in 1 .. i - 1 /\ s[OwnBefore(s, i)].number \in 0 .. Word - 1
<1> DEFINE D == {j \in 1 .. i - 1 : s[j].producer = s[i].producer}
<1>1. i - 1 \in Nat /\ D \subseteq 1 .. i - 1
  OBVIOUS
<1>2. OwnBefore(s, i) \in D
  <2>1. OwnBefore(s, i) = Max({0} \cup D)
    BY DEF OwnBefore
  <2> HIDE DEF D
  <2> QED BY <1>1, <2>1, LastPosition
<1>3. OwnBefore(s, i) \in 1 .. i - 1
  BY <1>2
<1>4. OwnBefore(s, i) \in 1 .. Len(s)
  BY <1>3
<1>5. s[OwnBefore(s, i)] \in Records
  BY <1>4
<1> QED BY <1>3, <1>5, RecordsAssumption

\* Restarts: one more when the number does not increase.
LEMMA RestartsGrow ==
    ASSUME NEW s \in Seq(Records), NEW r \in Records, NEW p
    PROVE  LET last == Max({0} \cup Mine(s, p)) IN
           /\ Restarts(s, p) \subseteq 1 .. Len(s)
           /\ Restarts(Append(s, r), p) =
                IF r.producer = p /\ last # 0 /\ r.number <= s[last].number
                  THEN Restarts(s, p) \cup {Len(s) + 1} ELSE Restarts(s, p)
<1> DEFINE t == Append(s, r)
           last == Max({0} \cup Mine(s, p))
           n == Len(s)
<1>1. /\ n \in Nat /\ t[n + 1] = r /\ n + 1 \notin 1 .. n
      /\ \A i \in 1 .. n : t[i] = s[i]
  BY OneMore
<1>2. /\ Mine(s, p) \subseteq 1 .. n
      /\ Mine(t, p) = IF r.producer = p THEN Mine(s, p) \cup {n + 1} ELSE Mine(s, p)
  BY MineGrows
<1>3. /\ \A i \in 1 .. n : OwnBefore(t, i) = OwnBefore(s, i)
      /\ r.producer = p => OwnBefore(t, n + 1) = last
  BY OwnBeforeGrows
<1>4. last # 0 => last \in 1 .. n
  <2> HIDE DEF t
  <2> QED BY <1>1, <1>2, LastPosition
<1> HIDE DEF t, last, n
<1>5. ASSUME NEW i \in 1 .. n, i \in Mine(s, p)
      PROVE  i \in Restarts(t, p) <=> i \in Restarts(s, p)
  <2>1. i \in Mine(t, p)
    BY <1>2, <1>5
  <2>2. t[i] = s[i] /\ OwnBefore(t, i) = OwnBefore(s, i)
    BY <1>1, <1>3
  <2>3. OwnBefore(s, i) # 0 => t[OwnBefore(s, i)] = s[OwnBefore(s, i)]
    <3>1. OwnBefore(s, i) # 0 => OwnBefore(s, i) \in 1 .. i - 1
      BY OwnBeforeIs DEF n
    <3>2. OwnBefore(s, i) # 0 => OwnBefore(s, i) \in 1 .. n
      BY <1>1, <3>1
    <3> QED BY <1>1, <3>2
  <2> QED BY <1>5, <2>1, <2>2, <2>3 DEF Restarts
<1>6. r.producer = p =>
        (n + 1 \in Restarts(t, p) <=> last # 0 /\ r.number <= s[last].number)
  <2>1. SUFFICES ASSUME r.producer = p
                 PROVE  n + 1 \in Restarts(t, p) <=> last # 0 /\ r.number <= s[last].number
    OBVIOUS
  <2>2. n + 1 \in Mine(t, p) /\ OwnBefore(t, n + 1) = last /\ t[n + 1] = r
    BY <1>1, <1>2, <1>3, <2>1
  <2>3. last # 0 => t[last] = s[last]
    BY <1>1, <1>4
  <2> QED BY <2>2, <2>3 DEF Restarts
<1>7. Restarts(s, p) \subseteq Mine(s, p) /\ Restarts(t, p) \subseteq Mine(t, p)
  BY DEF Restarts
<1>8. Restarts(t, p) = IF r.producer = p /\ last # 0 /\ r.number <= s[last].number
                         THEN Restarts(s, p) \cup {n + 1} ELSE Restarts(s, p)
  <2> DEFINE again == r.producer = p /\ last # 0 /\ r.number <= s[last].number
  <2>1. ASSUME NEW i \in Restarts(t, p) PROVE i \in Restarts(s, p) \/ (again /\ i = n + 1)
    <3>1. i \in Mine(s, p) \/ (r.producer = p /\ i = n + 1)
      BY <1>2, <1>7
    <3> QED BY <1>2, <1>5, <1>6, <3>1
  <2>2. ASSUME NEW i \in Restarts(s, p) PROVE i \in Restarts(t, p)
    BY <1>2, <1>5, <1>7
  <2>3. again => n + 1 \in Restarts(t, p)
    BY <1>6
  <2> HIDE DEF again
  <2>4. Restarts(t, p) = IF again THEN Restarts(s, p) \cup {n + 1} ELSE Restarts(s, p)
    BY <2>1, <2>2, <2>3
  <2> QED BY <2>4 DEF again
<1> QED BY <1>2, <1>7, <1>8 DEF t, last, n

\* Gaps: the numbers between the last number of the producer and the new one.
LEMMA MissingGrows ==
    ASSUME NEW s \in Seq(Records), NEW r \in Records, NEW p
    PROVE  LET last == Max({0} \cup Mine(s, p)) IN
           Missing(Append(s, r), p) =
             IF r.producer = p /\ last # 0
               THEN Missing(s, p) \cup
                      ({Len(s) + 1} \X (s[last].number + 1 .. r.number - 1))
               ELSE Missing(s, p)
<1> DEFINE t == Append(s, r)
           last == Max({0} \cup Mine(s, p))
           n == Len(s)
           new == {n + 1} \X (s[last].number + 1 .. r.number - 1)
<1>1. /\ n \in Nat /\ t[n + 1] = r /\ n + 1 \notin 1 .. n
      /\ \A i \in 1 .. n : t[i] = s[i] /\ s[i] \in Records
  BY OneMore
<1>2. /\ Mine(s, p) \subseteq 1 .. n
      /\ Mine(t, p) = IF r.producer = p THEN Mine(s, p) \cup {n + 1} ELSE Mine(s, p)
  BY MineGrows
<1>3. /\ \A i \in 1 .. n : OwnBefore(t, i) = OwnBefore(s, i)
      /\ r.producer = p => OwnBefore(t, n + 1) = last
  BY OwnBeforeGrows
<1>4. last # 0 => last \in 1 .. n
  <2> HIDE DEF t, new
  <2> QED BY <1>1, <1>2, LastPosition
<1> HIDE DEF t, last, n, new
<1>5. ASSUME NEW i \in 1 .. n, i \in Mine(s, p), NEW k \in 0 .. Word - 1
      PROVE  <<i, k>> \in Missing(t, p) <=> <<i, k>> \in Missing(s, p)
  <2>1. i \in Mine(t, p)
    BY <1>2, <1>5
  <2>2. t[i] = s[i] /\ OwnBefore(t, i) = OwnBefore(s, i)
    BY <1>1, <1>3
  <2>3. OwnBefore(s, i) # 0 => t[OwnBefore(s, i)] = s[OwnBefore(s, i)]
    <3>1. OwnBefore(s, i) # 0 => OwnBefore(s, i) \in 1 .. i - 1
      BY OwnBeforeIs DEF n
    <3>2. OwnBefore(s, i) # 0 => OwnBefore(s, i) \in 1 .. n
      BY <1>1, <3>1
    <3> QED BY <1>1, <3>2
  <2> QED BY <1>5, <2>1, <2>2, <2>3 DEF Missing
<1>6. ASSUME r.producer = p, NEW k \in 0 .. Word - 1
      PROVE  <<n + 1, k>> \in Missing(t, p) <=> last # 0 /\ <<n + 1, k>> \in new
  <2>1. n + 1 \in Mine(t, p) /\ OwnBefore(t, n + 1) = last /\ t[n + 1] = r
    BY <1>1, <1>2, <1>3, <1>6
  <2>2. last # 0 => t[last] = s[last] /\ s[last].number \in Int
    BY <1>1, <1>4, RecordsAssumption
  <2>3. r.number \in Int
    BY RecordsAssumption
  <2>4. <<n + 1, k>> \in Missing(t, p) <=> last # 0 /\ s[last].number < k /\ k < r.number
    BY <2>1, <2>2 DEF Missing
  <2>5. last # 0 => (<<n + 1, k>> \in new <=> s[last].number < k /\ k < r.number)
    BY <2>2, <2>3 DEF new
  <2> QED BY <2>4, <2>5
<1>7. /\ Missing(s, p) \subseteq Mine(s, p) \X (0 .. Word - 1)
      /\ Missing(t, p) \subseteq Mine(t, p) \X (0 .. Word - 1)
      /\ last # 0 => new \subseteq {n + 1} \X (0 .. Word - 1)
  <2>1. last # 0 => s[last].number \in 0 .. Word - 1
    BY <1>1, <1>4, RecordsAssumption
  <2>2. r.number \in 0 .. Word - 1 /\ Word \in Nat
    BY RecordsAssumption, WordAssumption
  <2>3. last # 0 => s[last].number + 1 .. r.number - 1 \subseteq 0 .. Word - 1
    BY <2>1, <2>2
  <2> QED BY <2>3 DEF Missing, new
<1>8. Missing(t, p) = IF r.producer = p /\ last # 0 THEN Missing(s, p) \cup new ELSE Missing(s, p)
  <2>1. ASSUME NEW m \in Missing(t, p), r.producer = p, last # 0 PROVE m \in Missing(s, p) \cup new
    <3>1. PICK i \in Mine(t, p), k \in 0 .. Word - 1 : m = <<i, k>>
      BY <1>7
    <3>2. i \in Mine(s, p) \/ i = n + 1
      BY <1>2
    <3> QED BY <1>2, <1>5, <1>6, <2>1, <3>1, <3>2
  <2>2. ASSUME NEW m \in Missing(t, p), ~(r.producer = p /\ last # 0) PROVE m \in Missing(s, p)
    <3>1. PICK i \in Mine(t, p), k \in 0 .. Word - 1 : m = <<i, k>>
      BY <1>7
    <3>2. i \in Mine(s, p) \/ (i = n + 1 /\ r.producer = p)
      BY <1>2
    <3> QED BY <1>2, <1>5, <1>6, <2>2, <3>1, <3>2
  <2>3. ASSUME NEW m \in Missing(s, p) PROVE m \in Missing(t, p)
    <3>1. PICK i \in Mine(s, p), k \in 0 .. Word - 1 : m = <<i, k>>
      BY <1>7
    <3> QED BY <1>2, <1>5, <2>3, <3>1
  <2>4. ASSUME NEW m \in new, r.producer = p, last # 0 PROVE m \in Missing(t, p)
    <3>1. PICK k \in 0 .. Word - 1 : m = <<n + 1, k>>
      BY <1>7, <2>4
    <3> QED BY <1>6, <2>4, <3>1
  <2> QED BY <2>1, <2>2, <2>3, <2>4
<1> QED BY <1>8 DEF t, last, n, new

\* The accounting of one record: Counted gives the account of the longer log.
LEMMA AccountGrows ==
    ASSUME NEW s \in Seq(Records), NEW r \in Records, NEW p
    PROVE  Account(Append(s, r), p) =
             IF r.producer = p THEN Counted(Account(s, p), r.number) ELSE Account(s, p)
<1> DEFINE t == Append(s, r)
           last == Max({0} \cup Mine(s, p))
           n == Len(s)
           new == {n + 1} \X (s[last].number + 1 .. r.number - 1)
<1>1. /\ n \in Nat /\ t[n + 1] = r /\ n + 1 \notin 1 .. n
      /\ \A i \in 1 .. n : t[i] = s[i] /\ s[i] \in Records
  BY OneMore
<1>2. /\ Mine(s, p) \subseteq 1 .. n
      /\ Mine(t, p) = IF r.producer = p THEN Mine(s, p) \cup {n + 1} ELSE Mine(s, p)
  BY MineGrows
<1>3. /\ Restarts(s, p) \subseteq 1 .. n
      /\ Restarts(t, p) = IF r.producer = p /\ last # 0 /\ r.number <= s[last].number
                            THEN Restarts(s, p) \cup {n + 1} ELSE Restarts(s, p)
  BY RestartsGrow
<1>4. Missing(t, p) = IF r.producer = p /\ last # 0 THEN Missing(s, p) \cup new ELSE Missing(s, p)
  BY MissingGrows
<1>5. /\ Mine(s, p) = {} <=> last = 0
      /\ last # 0 => last \in 1 .. n /\ s[last].number \in 0 .. Word - 1
  <2> HIDE DEF t, new
  <2>1. /\ Mine(s, p) = {} => last = 0
        /\ Mine(s, p) # {} => last \in Mine(s, p)
    BY <1>1, <1>2, LastPosition
  <2>2. Mine(s, p) # {} => last \in 1 .. n /\ last # 0
    BY <1>1, <1>2, <2>1
  <2> HIDE DEF last
  <2> QED BY <1>1, <2>1, <2>2, RecordsAssumption
<1>6. /\ Cardinality(Mine(s, p)) \in Nat
      /\ Cardinality(Mine(s, p) \cup {n + 1}) = Cardinality(Mine(s, p)) + 1
      /\ Cardinality(Restarts(s, p)) \in Nat
      /\ Cardinality(Restarts(s, p) \cup {n + 1}) = Cardinality(Restarts(s, p)) + 1
  BY <1>2, <1>3, Positions
<1>7. IsFiniteSet(Missing(s, p)) /\ Cardinality(Missing(s, p)) \in Nat
  <2>1. IsFiniteSet(Mine(s, p)) /\ IsFiniteSet(0 .. Word - 1)
    <3>1. IsFiniteSet(Mine(s, p))
      BY <1>2, Positions
    <3>2. 0 \in Int /\ Word - 1 \in Int
      BY WordAssumption
    <3> QED BY <3>1, <3>2, FS_Interval
  <2>2. IsFiniteSet(Mine(s, p) \X (0 .. Word - 1))
    BY <2>1, FS_Product
  <2>3. Missing(s, p) \in SUBSET (Mine(s, p) \X (0 .. Word - 1))
    BY DEF Missing
  <2> QED BY <2>2, <2>3, FS_Subset, FS_CardinalityType
<1>8. r.number \in 0 .. Word - 1 /\ Word \in Nat \ {0}
  BY RecordsAssumption, WordAssumption
<1> DEFINE before == s[last].number
           missed == IF r.number > before THEN r.number - before - 1 ELSE 0
<1>9. ASSUME last # 0
      PROVE  /\ missed \in Nat
             /\ Cardinality(Missing(s, p) \cup new) = Cardinality(Missing(s, p)) + missed
  <2>1. before \in 0 .. Word - 1
    BY <1>5, <1>9
  <2>2. Missing(s, p) \cap new = {}
    <3>1. \A m \in Missing(s, p) : m[1] \in 1 .. n
      BY <1>2 DEF Missing
    <3> QED BY <1>1, <3>1
  <2> DEFINE numbers == before + 1 .. r.number - 1
  <2>3. missed \in Nat
    BY <1>8, <2>1
  <2>4. IsFiniteSet(numbers) /\ Cardinality(numbers) = missed
    <3>1. before + 1 \in Int /\ r.number - 1 \in Int
      BY <1>8, <2>1
    <3>2. IsFiniteSet(numbers) /\
          Cardinality(numbers) =
            IF before + 1 > r.number - 1 THEN 0 ELSE (r.number - 1) - (before + 1) + 1
      BY <3>1, FS_Interval
    <3> HIDE DEF numbers
    <3> QED BY <1>8, <2>1, <3>2, SMTT(30)
  <2>5. IsFiniteSet({n + 1}) /\ Cardinality({n + 1}) = 1
    BY FS_Singleton
  <2>6. IsFiniteSet(new) /\ Cardinality(new) = 1 * Cardinality(numbers)
    BY <2>4, <2>5, FS_Product
  <2> HIDE DEF new, numbers, missed
  <2>7. Cardinality(Missing(s, p) \cup new)
          = Cardinality(Missing(s, p)) + Cardinality(new) - Cardinality(Missing(s, p) \cap new)
    BY <1>7, <2>6, FS_Union
  <2>8. Cardinality(Missing(s, p) \cap new) = 0
    BY <2>2, FS_EmptySet
  <2> QED BY <1>7, <2>3, <2>4, <2>6, <2>7, <2>8
<1>10. Max({0} \cup (Mine(s, p) \cup {n + 1})) = n + 1
  <2>1. n + 1 \in Nat /\ Mine(s, p) \cup {n + 1} \subseteq 1 .. n + 1
    BY <1>1, <1>2
  <2> DEFINE D == Mine(s, p) \cup {n + 1}
             top == Max({0} \cup D)
  <2>2. n + 1 \in D /\ D # {} /\ D \subseteq 1 .. n + 1
    BY <2>1
  <2>3. top \in D /\ \A i \in D : i <= top
    <3> HIDE DEF D
    <3> QED BY <2>1, <2>2, LastPosition
  <2> HIDE DEF top
  <2>4. top = n + 1
    <3>1. top \in 1 .. n + 1
      BY <2>2, <2>3
    <3>2. n + 1 <= top
      BY <2>2, <2>3
    <3> HIDE DEF n
    <3> QED BY <1>1, <3>1, <3>2
  <2> QED BY <2>4 DEF top
<1> DEFINE a == Account(s, p)
<1>11. /\ a.records = Cardinality(Mine(s, p))
       /\ a.gaps = Cardinality(Missing(s, p)) % Word
       /\ a.non_increasing = Cardinality(Restarts(s, p))
       /\ a.previous_sequence = IF last = 0 THEN Empty ELSE before
  BY <1>5 DEF Account
<1>12. last # 0 => before # Empty
  BY <1>5, EmptyAssumption
<1> HIDE DEF t, last, new
<1>13. CASE r.producer # p
  <2>1. Mine(t, p) = Mine(s, p) /\ Restarts(t, p) = Restarts(s, p) /\ Missing(t, p) = Missing(s, p)
    BY <1>2, <1>3, <1>4, <1>13
  <2>2. Mine(s, p) # {} => t[last] = s[last]
    BY <1>1, <1>5
  <2>3. Account(t, p) = Account(s, p)
    BY <2>1, <2>2 DEF Account, last
  <2> QED BY <1>13, <2>3 DEF t
<1>14. CASE r.producer = p /\ last = 0
  <2>1. /\ Mine(t, p) = Mine(s, p) \cup {n + 1} /\ Restarts(t, p) = Restarts(s, p)
        /\ Missing(t, p) = Missing(s, p) /\ Mine(t, p) # {}
    BY <1>2, <1>3, <1>4, <1>14
  <2>2. Account(t, p) = [records |-> Cardinality(Mine(s, p)) + 1,
                         gaps |-> Cardinality(Missing(s, p)) % Word,
                         non_increasing |-> Cardinality(Restarts(s, p)),
                         previous_sequence |-> r.number]
    BY <1>1, <1>6, <1>10, <2>1 DEF Account
  <2> DEFINE g == Cardinality(Missing(s, p))
  <2>3. ((g % Word) + 0) % Word = g % Word
    <3>1. g \in Nat
      BY <1>7
    <3> HIDE DEF g
    <3>2. ((g % Word) + 0) % Word = (g + 0) % Word
      BY <1>8, <3>1, RemainderAdds
    <3> QED BY <3>1, <3>2
  <2>4. Counted(a, r.number) = [records |-> Cardinality(Mine(s, p)) + 1,
                                non_increasing |-> Cardinality(Restarts(s, p)) + 0,
                                gaps |-> ((g % Word) + 0) % Word,
                                previous_sequence |-> r.number]
    <3> HIDE DEF a
    <3> QED BY <1>11, <1>14 DEF Counted, Missed
  <2>5. Cardinality(Restarts(s, p)) + 0 = Cardinality(Restarts(s, p))
    BY <1>6
  <2>6. Account(t, p) = Counted(a, r.number)
    BY <2>2, <2>3, <2>4, <2>5
  <2> QED BY <1>14, <2>6 DEF t
<1>15. CASE r.producer = p /\ last # 0
  <2> DEFINE again == r.number <= before
             g == Cardinality(Missing(s, p))
  <2>1. /\ Mine(t, p) = Mine(s, p) \cup {n + 1} /\ Mine(t, p) # {}
        /\ Restarts(t, p) = IF again THEN Restarts(s, p) \cup {n + 1} ELSE Restarts(s, p)
        /\ Missing(t, p) = Missing(s, p) \cup new
    BY <1>2, <1>3, <1>4, <1>15
  <2>2. Cardinality(Restarts(t, p)) = Cardinality(Restarts(s, p)) + (IF again THEN 1 ELSE 0)
    BY <1>6, <2>1
  <2>3. Cardinality(Missing(t, p)) = g + missed
    BY <1>9, <1>15, <2>1
  <2>4. (g + missed) % Word = ((g % Word) + missed) % Word
    <3>1. g \in Nat /\ missed \in Nat
      BY <1>7, <1>9, <1>15
    <3> HIDE DEF g, missed
    <3> QED BY <1>8, <3>1, RemainderAdds
  <2>5. Account(t, p) = [records |-> Cardinality(Mine(s, p)) + 1,
                         gaps |-> (g + missed) % Word,
                         non_increasing |-> Cardinality(Restarts(s, p)) + (IF again THEN 1 ELSE 0),
                         previous_sequence |-> r.number]
    <3> HIDE DEF missed, again
    <3> QED BY <1>1, <1>6, <1>10, <2>1, <2>2, <2>3 DEF Account
  <2>6. Counted(a, r.number) = [records |-> Cardinality(Mine(s, p)) + 1,
                                non_increasing |->
                                  Cardinality(Restarts(s, p)) + (IF again THEN 1 ELSE 0),
                                gaps |-> ((g % Word) + missed) % Word,
                                previous_sequence |-> r.number]
    <3>1. a.previous_sequence = before /\ before # Empty
      BY <1>11, <1>12, <1>15
    <3>2. Missed(before, r.number) = missed
      BY <3>1 DEF Missed
    <3>3. (before # Empty /\ r.number <= before) <=> again
      BY <3>1
    <3> HIDE DEF a, before, missed, again
    <3> QED BY <1>11, <3>1, <3>2, <3>3 DEF Counted
  <2>7. Account(t, p) = Counted(a, r.number)
    BY <2>4, <2>5, <2>6
  <2> QED BY <1>15, <2>7 DEF t
<1> QED BY <1>13, <1>14, <1>15

\* A producer without records has the account operator[] inserts.
LEMMA NoRecords ==
    ASSUME NEW s \in Seq(Records), NEW p, Mine(s, p) = {}
    PROVE  Account(s, p) = NewProducer
<1>1. Missing(s, p) = {} /\ Restarts(s, p) = {}
  BY DEF Missing, Restarts
<1>2. Cardinality({}) = 0 /\ 0 % Word = 0
  BY FS_EmptySet, WordAssumption
<1> QED BY <1>1, <1>2 DEF Account, NewProducer

LEMMA ClockBeforeGrows ==
    ASSUME NEW s \in Seq(Records), NEW r \in Records
    PROVE  /\ \A i \in 1 .. Len(s) : ClockBefore(Append(s, r), i) = ClockBefore(s, i)
           /\ ClockBefore(Append(s, r), Len(s) + 1) = Max({0} \cup OfClock(s, SourceClockKey(r)))
<1> DEFINE t == Append(s, r)
<1>1. /\ Len(s) \in Nat /\ t[Len(s) + 1] = r
      /\ \A i \in 1 .. Len(s) : t[i] = s[i]
  BY OneMore
<1> HIDE DEF t
<1>2. ASSUME NEW i \in 1 .. Len(s) PROVE ClockBefore(t, i) = ClockBefore(s, i)
  <2>1. \A j \in 1 .. i - 1 : t[j] = s[j]
    BY <1>1
  <2>2. {j \in 1 .. i - 1 : SourceClockKey(t[j]) = SourceClockKey(t[i])}
          = {j \in 1 .. i - 1 : SourceClockKey(s[j]) = SourceClockKey(s[i])}
    BY <1>1, <2>1
  <2> QED BY <2>2 DEF ClockBefore
<1>3. ClockBefore(t, Len(s) + 1) = Max({0} \cup OfClock(s, SourceClockKey(r)))
  <2>1. (Len(s) + 1) - 1 = Len(s)
    BY <1>1
  <2>2. {j \in 1 .. (Len(s) + 1) - 1 : SourceClockKey(t[j]) = SourceClockKey(t[Len(s) + 1])}
          = OfClock(s, SourceClockKey(r))
    BY <1>1, <2>1 DEF OfClock
  <2> QED BY <2>2 DEF ClockBefore
<1> QED BY <1>2, <1>3 DEF t

LEMMA ClockBeforeIs ==
    ASSUME NEW s \in Seq(Records), NEW i \in 1 .. Len(s), ClockBefore(s, i) # 0
    PROVE  ClockBefore(s, i) \in 1 .. Len(s)
<1> DEFINE D == {j \in 1 .. i - 1 : SourceClockKey(s[j]) = SourceClockKey(s[i])}
<1>1. i - 1 \in Nat /\ D \subseteq 1 .. i - 1
  OBVIOUS
<1>2. ClockBefore(s, i) \in D
  <2>1. ClockBefore(s, i) = Max({0} \cup D)
    BY DEF ClockBefore
  <2> HIDE DEF D
  <2> QED BY <1>1, <2>1, LastPosition
<1>3. ClockBefore(s, i) \in 1 .. i - 1
  BY <1>2
<1> QED BY <1>3

\* Regressions: one more when the time is not later than the last one of the
\* same source clock.
LEMMA RegressionsGrow ==
    ASSUME NEW s \in Seq(Records), NEW r \in Records, NEW k
    PROVE  LET last == Max({0} \cup OfClock(s, SourceClockKey(r))) IN
           /\ Regressions(s, k) \subseteq 1 .. Len(s)
           /\ last # 0 => last \in 1 .. Len(s)
           /\ last = 0 <=> OfClock(s, SourceClockKey(r)) = {}
           /\ Regressions(Append(s, r), k) =
                IF StreamKey(r) = k /\ last # 0 /\ r.source <= s[last].source
                  THEN Regressions(s, k) \cup {Len(s) + 1} ELSE Regressions(s, k)
<1> DEFINE t == Append(s, r)
           D == OfClock(s, SourceClockKey(r))
           last == Max({0} \cup D)
           n == Len(s)
<1>1. /\ n \in Nat /\ Len(t) = n + 1 /\ t[n + 1] = r /\ n + 1 \notin 1 .. n
      /\ \A i \in 1 .. n : t[i] = s[i]
      /\ 1 .. Len(t) = (1 .. n) \cup {n + 1}
  BY OneMore
<1>2. /\ OfStream(s, k) \subseteq 1 .. n
      /\ OfStream(t, k) = IF StreamKey(r) = k THEN OfStream(s, k) \cup {n + 1} ELSE OfStream(s, k)
  <2> HIDE DEF t
  <2> QED BY <1>1 DEF OfStream
<1>3. /\ \A i \in 1 .. n : ClockBefore(t, i) = ClockBefore(s, i)
      /\ ClockBefore(t, n + 1) = last
  BY ClockBeforeGrows
<1>4. (last # 0 => last \in 1 .. n) /\ (last = 0 <=> D = {})
  <2>1. D \subseteq 1 .. n
    BY DEF OfClock
  <2> HIDE DEF t, D
  <2>2. (D = {} => last = 0) /\ (D # {} => last \in D)
    BY <1>1, <2>1, LastPosition
  <2>3. 0 \notin 1 .. n
    OBVIOUS
  <2> HIDE DEF last, n
  <2> QED BY <2>1, <2>2, <2>3
<1> HIDE DEF t, last, n, D
<1>5. ASSUME NEW i \in OfStream(s, k) PROVE i \in Regressions(t, k) <=> i \in Regressions(s, k)
  <2>1. i \in OfStream(t, k) /\ i \in 1 .. n
    BY <1>2
  <2>2. t[i] = s[i] /\ ClockBefore(t, i) = ClockBefore(s, i)
    BY <1>1, <1>3, <2>1
  <2>3. ClockBefore(s, i) # 0 => t[ClockBefore(s, i)] = s[ClockBefore(s, i)]
    <3>1. ClockBefore(s, i) # 0 => ClockBefore(s, i) \in 1 .. n
      BY <2>1, ClockBeforeIs DEF n
    <3> QED BY <1>1, <3>1
  <2> QED BY <1>5, <2>1, <2>2, <2>3 DEF Regressions
<1> DEFINE again == StreamKey(r) = k /\ last # 0 /\ r.source <= s[last].source
<1>6. StreamKey(r) = k => (n + 1 \in Regressions(t, k) <=> last # 0 /\ r.source <= s[last].source)
  <2>1. SUFFICES ASSUME StreamKey(r) = k
                 PROVE  n + 1 \in Regressions(t, k) <=> last # 0 /\ r.source <= s[last].source
    OBVIOUS
  <2>2. n + 1 \in OfStream(t, k) /\ ClockBefore(t, n + 1) = last /\ t[n + 1] = r
    BY <1>1, <1>2, <1>3, <2>1
  <2>3. last # 0 => t[last] = s[last]
    BY <1>1, <1>4
  <2> QED BY <2>2, <2>3 DEF Regressions
<1>7. Regressions(s, k) \subseteq OfStream(s, k) /\ Regressions(t, k) \subseteq OfStream(t, k)
  BY DEF Regressions
<1>8. Regressions(t, k) = IF again THEN Regressions(s, k) \cup {n + 1} ELSE Regressions(s, k)
  <2>1. ASSUME NEW i \in Regressions(t, k) PROVE i \in Regressions(s, k) \/ (again /\ i = n + 1)
    <3>1. i \in OfStream(s, k) \/ (StreamKey(r) = k /\ i = n + 1)
      BY <1>2, <1>7
    <3> QED BY <1>5, <1>6, <3>1
  <2>2. ASSUME NEW i \in Regressions(s, k) PROVE i \in Regressions(t, k)
    BY <1>5, <1>7
  <2>3. again => n + 1 \in Regressions(t, k)
    BY <1>6
  <2> HIDE DEF again
  <2> QED BY <2>1, <2>2, <2>3
<1> QED BY <1>2, <1>4, <1>7, <1>8 DEF t, last, n, D

\* One turn of the loop.
LEMMA AnalyzeStep ==
    ASSUME CountersInv, NEW r \in Records, AnalyzeRecord(r)
    PROVE  CountersInv'
<1> DEFINE t == Append(log, r)
           n == Len(log)
<1>0. log \in Seq(Records) /\ log' = t
  BY DEF CountersInv, AnalyzeRecord
<1>1. /\ t \in Seq(Records) /\ n \in Nat /\ t[n + 1] = r /\ Len(t) = n + 1
      /\ \A i \in 1 .. n : t[i] = log[i]
      /\ 1 .. Len(t) = (1 .. n) \cup {n + 1} /\ n + 1 \notin 1 .. n
  BY <1>0, OneMore
<1>2. /\ {t[i].producer : i \in 1 .. Len(t)} = {log[i].producer : i \in 1 .. n} \cup {r.producer}
      /\ {StreamKey(t[i]) : i \in 1 .. Len(t)} = {StreamKey(log[i]) : i \in 1 .. n} \cup {StreamKey(r)}
      /\ {SourceClockKey(t[i]) : i \in 1 .. Len(t)}
           = {SourceClockKey(log[i]) : i \in 1 .. n} \cup {SourceClockKey(r)}
  <2> HIDE DEF t, n
  <2> QED BY <1>1
<1> HIDE DEF t, n
<1>3. /\ DOMAIN producers' = {t[i].producer : i \in 1 .. Len(t)}
      /\ \A p \in DOMAIN producers' : producers'[p] = Account(t, p)
  <2> DEFINE p0 == r.producer
             found == Lookup(producers, p0, NewProducer)
             value == Counted(found, r.number)
  <2>1. producers' = Put(producers, p0, value)
    BY DEF AnalyzeRecord
  <2>2. DOMAIN producers = {log[i].producer : i \in 1 .. n}
    BY DEF CountersInv, n
  <2> HIDE DEF value
  <2>3. /\ DOMAIN producers' = DOMAIN producers \cup {p0}
        /\ \A p \in DOMAIN producers' : p = p0 => producers'[p] = value
        /\ \A p \in DOMAIN producers' : p # p0 => producers'[p] = producers[p]
    <3> HIDE DEF p0
    <3> QED BY <2>1 DEF Put
  <2>4. found = Account(log, p0)
    <3>1. CASE p0 \in DOMAIN producers
      BY <3>1 DEF Lookup, CountersInv
    <3>2. CASE p0 \notin DOMAIN producers
      <4>1. Mine(log, p0) = {}
        BY <2>2, <3>2 DEF Mine, n
      <4>2. Account(log, p0) = NewProducer
        BY <1>0, <4>1, NoRecords
      <4> QED BY <3>2, <4>2 DEF Lookup
    <3> QED BY <3>1, <3>2
  <2>5. ASSUME NEW p \in DOMAIN producers' PROVE producers'[p] = Account(t, p)
    <3>1. Account(t, p) = IF p0 = p THEN Counted(Account(log, p), r.number) ELSE Account(log, p)
      BY <1>0, AccountGrows DEF t
    <3>2. CASE p = p0
      <4>1. producers'[p] = Counted(found, r.number)
        BY <2>3, <3>2 DEF value
      <4> QED BY <2>4, <3>1, <3>2, <4>1
    <3>3. CASE p # p0
      <4>1. p \in DOMAIN producers
        BY <2>3, <3>3
      <4>2. producers'[p] = producers[p]
        BY <2>3, <3>3
      <4>3. producers[p] = Account(log, p)
        BY <4>1 DEF CountersInv
      <4> QED BY <3>1, <3>3, <4>2, <4>3
    <3> QED BY <3>2, <3>3
  <2> QED BY <1>2, <2>2, <2>3, <2>5
<1> DEFINE c0 == SourceClockKey(r)
           last == Max({0} \cup OfClock(log, c0))
<1>4. DOMAIN previous_source_timestamps = {SourceClockKey(log[i]) : i \in 1 .. n}
  BY DEF CountersInv, n
<1>5. /\ last # 0 => last \in 1 .. n
      /\ c0 \in DOMAIN previous_source_timestamps <=> last # 0
  <2>1. (last # 0 => last \in 1 .. n) /\ (last = 0 <=> OfClock(log, c0) = {})
    BY <1>0, RegressionsGrow DEF n
  <2>2. c0 \in DOMAIN previous_source_timestamps <=> OfClock(log, c0) # {}
    BY <1>4 DEF OfClock, n
  <2> HIDE DEF last, c0
  <2> QED BY <2>1, <2>2
<1>6. Regresses(r) <=> last # 0 /\ r.source <= log[last].source
  <2>1. c0 \in DOMAIN previous_source_timestamps => previous_source_timestamps[c0] = log[last].source
    BY DEF CountersInv
  <2> QED BY <1>5, <2>1 DEF Regresses
<1>7. /\ DOMAIN streams' = {StreamKey(t[i]) : i \in 1 .. Len(t)}
      /\ \A k \in DOMAIN streams' : streams'[k].regressions = Cardinality(Regressions(t, k))
  <2> DEFINE k0 == StreamKey(r)
             found == Lookup(streams, k0, NewStream)
             value == [records |-> found.records + 1,
                       regressions |-> found.regressions + (IF Regresses(r) THEN 1 ELSE 0),
                       collector_timestamps |-> Append(found.collector_timestamps, r.arrival)]
  <2>1. streams' = Put(streams, k0, value)
    BY DEF AnalyzeRecord
  <2>2. DOMAIN streams = {StreamKey(log[i]) : i \in 1 .. n}
    BY DEF CountersInv, n
  <2>3. found.regressions = Cardinality(Regressions(log, k0))
    <3>1. CASE k0 \in DOMAIN streams
      BY <3>1 DEF Lookup, CountersInv
    <3>2. CASE k0 \notin DOMAIN streams
      <4>1. Regressions(log, k0) = {}
        BY <2>2, <3>2 DEF Regressions, OfStream, n
      <4>2. found.regressions = 0
        BY <3>2 DEF Lookup, NewStream
      <4> QED BY <4>1, <4>2, FS_EmptySet
    <3> QED BY <3>1, <3>2
  <2>4. value.regressions = found.regressions + (IF Regresses(r) THEN 1 ELSE 0)
    OBVIOUS
  <2> HIDE DEF value, found
  <2>5. /\ DOMAIN streams' = DOMAIN streams \cup {k0}
        /\ \A k \in DOMAIN streams' : k = k0 => streams'[k] = value
        /\ \A k \in DOMAIN streams' : k # k0 => streams'[k] = streams[k]
    <3> HIDE DEF k0
    <3> QED BY <2>1 DEF Put
  <2>6. ASSUME NEW k \in DOMAIN streams'
        PROVE  streams'[k].regressions = Cardinality(Regressions(t, k))
    <3>1. /\ Regressions(log, k) \subseteq 1 .. n
          /\ Regressions(t, k) = IF k0 = k /\ last # 0 /\ r.source <= log[last].source
                                   THEN Regressions(log, k) \cup {n + 1} ELSE Regressions(log, k)
      BY <1>0, RegressionsGrow DEF t, n
    <3>2. /\ Cardinality(Regressions(log, k)) \in Nat
          /\ Cardinality(Regressions(log, k) \cup {n + 1}) = Cardinality(Regressions(log, k)) + 1
      BY <1>0, <3>1, Positions DEF n
    <3>3. Cardinality(Regressions(t, k))
            = Cardinality(Regressions(log, k)) + (IF k0 = k /\ Regresses(r) THEN 1 ELSE 0)
      <4> HIDE DEF last, k0
      <4> QED BY <1>6, <3>1, <3>2
    <3>4. CASE k = k0
      <4>1. streams'[k] = value
        BY <2>5, <3>4
      <4> QED BY <2>3, <2>4, <3>3, <3>4, <4>1
    <3>5. CASE k # k0
      <4>1. k \in DOMAIN streams
        BY <2>5, <3>5
      <4>2. streams'[k] = streams[k]
        BY <2>5, <3>5
      <4>3. streams[k].regressions = Cardinality(Regressions(log, k))
        BY <4>1 DEF CountersInv
      <4> QED BY <3>2, <3>3, <3>5, <4>2, <4>3
    <3> QED BY <3>4, <3>5
  <2> QED BY <1>2, <2>2, <2>5, <2>6
<1>8. /\ DOMAIN previous_source_timestamps' = {SourceClockKey(t[i]) : i \in 1 .. Len(t)}
      /\ \A c \in DOMAIN previous_source_timestamps' :
           previous_source_timestamps'[c] = t[Max({0} \cup OfClock(t, c))].source
  <2>1. previous_source_timestamps' = Put(previous_source_timestamps, c0, r.source)
    BY DEF AnalyzeRecord, Remembered
  <2>2. /\ DOMAIN previous_source_timestamps' = DOMAIN previous_source_timestamps \cup {c0}
        /\ \A c \in DOMAIN previous_source_timestamps' :
             c = c0 => previous_source_timestamps'[c] = r.source
        /\ \A c \in DOMAIN previous_source_timestamps' :
             c # c0 => previous_source_timestamps'[c] = previous_source_timestamps[c]
    <3> HIDE DEF c0
    <3> QED BY <2>1 DEF Put
  <2>3. ASSUME NEW c \in DOMAIN previous_source_timestamps'
        PROVE  previous_source_timestamps'[c] = t[Max({0} \cup OfClock(t, c))].source
    <3>1. OfClock(log, c) \subseteq 1 .. n
      BY DEF OfClock, n
    <3>2. OfClock(t, c) = IF c = c0 THEN OfClock(log, c) \cup {n + 1} ELSE OfClock(log, c)
      BY <1>1 DEF OfClock, n
    <3>3. CASE c = c0
      <4> DEFINE D == OfClock(log, c) \cup {n + 1}
                 top == Max({0} \cup D)
      <4>1. n + 1 \in D /\ D # {} /\ D \subseteq 1 .. n + 1 /\ n + 1 \in Nat
        BY <1>1, <3>1
      <4>2. top \in D /\ \A i \in D : i <= top
        <5> HIDE DEF D
        <5> QED BY <4>1, LastPosition
      <4> HIDE DEF top
      <4>3. top \in 1 .. n + 1 /\ n + 1 <= top
        BY <4>1, <4>2
      <4>4. top = n + 1
        BY <1>1, <4>3
      <4>5. previous_source_timestamps'[c] = r.source
        BY <2>2, <3>3
      <4> QED BY <1>1, <3>2, <3>3, <4>4, <4>5 DEF top
    <3>4. CASE c # c0
      <4>1. c \in DOMAIN previous_source_timestamps
        BY <2>2, <3>4
      <4>2. previous_source_timestamps'[c] = previous_source_timestamps[c]
        BY <2>2, <3>4
      <4> DEFINE D == OfClock(log, c)
                 top == Max({0} \cup D)
      <4>3. previous_source_timestamps[c] = log[top].source
        BY <4>1 DEF CountersInv
      <4>4. D # {}
        BY <1>4, <4>1 DEF OfClock, n
      <4>5. top \in D
        <5> HIDE DEF D
        <5> QED BY <1>1, <3>1, <4>4, LastPosition DEF D
      <4> HIDE DEF top
      <4>6. t[top] = log[top]
        BY <1>1, <3>1, <4>5
      <4>7. Max({0} \cup OfClock(t, c)) = top
        BY <3>2, <3>4 DEF top
      <4> QED BY <4>2, <4>3, <4>6, <4>7
    <3> QED BY <3>3, <3>4
  <2> QED BY <1>2, <1>4, <2>2, <2>3
<1>9. faults' = [v \in Severities |-> Cardinality(OfSeverity(t, v))]
  <2>1. faults' = [v \in Severities |-> faults[v] + (IF v = r.severity THEN 1 ELSE 0)]
    BY DEF AnalyzeRecord, FaultsWith
  <2>2. faults = [v \in Severities |-> Cardinality(OfSeverity(log, v))]
    BY DEF CountersInv
  <2>3. ASSUME NEW v \in Severities
        PROVE  Cardinality(OfSeverity(t, v)) = faults[v] + (IF v = r.severity THEN 1 ELSE 0)
    <3>1. OfSeverity(log, v) \subseteq 1 .. n
      BY DEF OfSeverity, n
    <3>2. OfSeverity(t, v) = IF v = r.severity THEN OfSeverity(log, v) \cup {n + 1}
                             ELSE OfSeverity(log, v)
      BY <1>1 DEF OfSeverity, n
    <3>3. /\ Cardinality(OfSeverity(log, v)) \in Nat
          /\ Cardinality(OfSeverity(log, v) \cup {n + 1}) = Cardinality(OfSeverity(log, v)) + 1
      BY <1>0, <3>1, Positions DEF n
    <3>4. faults[v] = Cardinality(OfSeverity(log, v))
      BY <2>2
    <3> QED BY <3>2, <3>3, <3>4
  <2> QED BY <2>1, <2>3
<1> QED BY <1>0, <1>1, <1>3, <1>7, <1>8, <1>9 DEF CountersInv

\* The invariant gives the definitions of docs/analysis.md.
LEMMA CountersCount ==
    ASSUME CountersInv
    PROVE  CountsAsDocumented
<1>0. log \in Seq(Records) /\ DOMAIN log = 1 .. Len(log)
  BY DEF CountersInv
<1>1. SequencesAccounted
  <2>1. \A i : Preceding(Producer, i) = OwnBefore(log, i)
    BY DEF Preceding, Producer, OwnBefore
  <2> SUFFICES ASSUME NEW p \in DOMAIN producers
               PROVE  /\ producers[p].records = Cardinality({i \in DOMAIN log : log[i].producer = p})
                      /\ producers[p].gaps =
                           Cardinality({m \in {i \in DOMAIN log : log[i].producer = p} \X (0 .. Word - 1) :
                              /\ Preceding(Producer, m[1]) # 0
                              /\ log[Preceding(Producer, m[1])].number < m[2]
                              /\ m[2] < log[m[1]].number}) % Word
                      /\ producers[p].non_increasing =
                           Cardinality({i \in {i \in DOMAIN log : log[i].producer = p} :
                              /\ Preceding(Producer, i) # 0
                              /\ log[i].number <= log[Preceding(Producer, i)].number})
    BY ZenonT(40) DEF SequencesAccounted
  <2>2. producers[p] = Account(log, p)
    BY DEF CountersInv
  <2>3. {i \in DOMAIN log : log[i].producer = p} = Mine(log, p)
    BY <1>0 DEF Mine
  <2>4. Missing(log, p) =
          {m \in Mine(log, p) \X (0 .. Word - 1) :
             /\ Preceding(Producer, m[1]) # 0
             /\ log[Preceding(Producer, m[1])].number < m[2]
             /\ m[2] < log[m[1]].number}
    BY <2>1 DEF Missing
  <2>5. Restarts(log, p) =
          {i \in Mine(log, p) :
             /\ Preceding(Producer, i) # 0
             /\ log[i].number <= log[Preceding(Producer, i)].number}
    BY <2>1 DEF Restarts
  <2>6. /\ producers[p].records = Cardinality(Mine(log, p))
        /\ producers[p].gaps = Cardinality(Missing(log, p)) % Word
        /\ producers[p].non_increasing = Cardinality(Restarts(log, p))
    BY <2>2 DEF Account
  <2>7. producers[p].records = Cardinality({i \in DOMAIN log : log[i].producer = p})
    BY <2>3, <2>6
  <2>8. producers[p].gaps =
          Cardinality({m \in {i \in DOMAIN log : log[i].producer = p} \X (0 .. Word - 1) :
             /\ Preceding(Producer, m[1]) # 0
             /\ log[Preceding(Producer, m[1])].number < m[2]
             /\ m[2] < log[m[1]].number}) % Word
    BY <2>3, <2>4, <2>6
  <2>9. producers[p].non_increasing =
          Cardinality({i \in {i \in DOMAIN log : log[i].producer = p} :
             /\ Preceding(Producer, i) # 0
             /\ log[i].number <= log[Preceding(Producer, i)].number})
    BY <2>3, <2>5, <2>6
  <2> QED BY <2>7, <2>8, <2>9
<1>2. RegressionsCounted
  <2>1. \A i : Preceding(SourceClockKey, i) = ClockBefore(log, i)
    BY DEF Preceding, ClockBefore
  <2> SUFFICES ASSUME NEW k \in DOMAIN streams
               PROVE  streams[k].regressions =
                        Cardinality({i \in DOMAIN log :
                          /\ StreamKey(log[i]) = k
                          /\ Preceding(SourceClockKey, i) # 0
                          /\ log[i].source <= log[Preceding(SourceClockKey, i)].source})
    BY DEF RegressionsCounted
  <2>2. streams[k].regressions = Cardinality(Regressions(log, k))
    BY DEF CountersInv
  <2>3. Regressions(log, k) =
          {i \in DOMAIN log :
             /\ StreamKey(log[i]) = k
             /\ Preceding(SourceClockKey, i) # 0
             /\ log[i].source <= log[Preceding(SourceClockKey, i)].source}
    BY <1>0, <2>1 DEF Regressions, OfStream
  <2> QED BY <2>2, <2>3
<1>3. FaultsCounted
  <2> SUFFICES ASSUME NEW v \in Severities
               PROVE  faults[v] = Cardinality({i \in DOMAIN log : log[i].severity = v})
    BY DEF FaultsCounted
  <2>1. OfSeverity(log, v) = {i \in DOMAIN log : log[i].severity = v}
    BY <1>0 DEF OfSeverity
  <2> QED BY <2>1 DEF CountersInv
<1> QED BY <1>1, <1>2, <1>3 DEF CountsAsDocumented

\* The counters of a report are, at every turn of the loop and after it, what
\* docs/analysis.md defines for the whole log: for logs of any length, any
\* number of producers and streams that interleave, and a 64-bit sum that wraps.
THEOREM CountsAreTheDefinitions == AnalyzerSpec => []CountsAsDocumented
<1>1. AnalyzerInit => CountersInv
  <2> SUFFICES ASSUME AnalyzerInit PROVE CountersInv
    OBVIOUS
  <2>1. log = <<>> /\ log \in Seq(Records) /\ Len(log) = 0 /\ 1 .. Len(log) = {}
    BY DEF AnalyzerInit
  <2>2. DOMAIN producers = {} /\ DOMAIN streams = {} /\ DOMAIN previous_source_timestamps = {}
    BY DEF AnalyzerInit
  <2>3. \A v \in Severities : OfSeverity(log, v) = {}
    BY <2>1 DEF OfSeverity
  <2>4. faults = [v \in Severities |-> Cardinality(OfSeverity(log, v))]
    BY <2>3, FS_EmptySet DEF AnalyzerInit
  <2> QED BY <2>1, <2>2, <2>4 DEF CountersInv
<1>2. CountersInv /\ [AnalyzerNext]_analyzerVars => CountersInv'
  <2> SUFFICES ASSUME CountersInv, [AnalyzerNext]_analyzerVars PROVE CountersInv'
    OBVIOUS
  <2>1. ASSUME NEW r \in Records, AnalyzeRecord(r) PROVE CountersInv'
    BY <2>1, AnalyzeStep
  <2>2. CASE FinishReport
    BY <2>2 DEF FinishReport, CountersInv
  <2>3. CASE UNCHANGED analyzerVars
    BY <2>3 DEF analyzerVars, CountersInv
  <2> QED BY <2>1, <2>2, <2>3 DEF AnalyzerNext
<1> QED BY <1>1, <1>2, CountersCount, PTL DEF AnalyzerSpec

-----------------------------------------------------------------------------
(* Sorted values and percentiles. *)

\* f lists S without repetition.
OneToOne(f, D, S) ==
    /\ f \in [D -> S]
    /\ \A x \in S : \E i \in D : f[i] = x
    /\ \A i, j \in D : f[i] = f[j] => i = j

\* A part of D has as many elements as its image.
LEMMA SameCount ==
    ASSUME NEW D, NEW S, NEW f, OneToOne(f, D, S), NEW A, A \subseteq D, IsFiniteSet(A),
           NEW B, B \subseteq S, \A i \in D : i \in A <=> f[i] \in B
    PROVE  IsFiniteSet(B) /\ Cardinality(B) = Cardinality(A)
<1> DEFINE g == [i \in A |-> f[i]]
<1>1. g \in [A -> B]
  BY DEF OneToOne
<1>2. \A x \in B : \E i \in A : g[i] = x
  BY DEF OneToOne
<1>3. \A i, j \in A : g[i] = g[j] => i = j
  BY DEF OneToOne
<1> HIDE DEF g
<1>4. ExistsBijection(A, B)
  BY <1>1, <1>2, <1>3 DEF ExistsBijection, Bijection, Injection, Surjection, IsInjective
<1> QED BY <1>4, FS_Bijection

\* Values that are the same one by one have the same percentiles.
LEMMA SamePercentile ==
    ASSUME NEW n \in Nat, NEW S, NEW f, OneToOne(f, 1 .. n, S), NEW a, DOMAIN a = 1 .. n,
           NEW b, DOMAIN b = S, \A i \in 1 .. n : a[i] = b[f[i]],
           NEW v, NEW h, NearestRank(v, a, h)
    PROVE  NearestRank(v, b, h)
<1>0. IsFiniteSet(1 .. n)
  <2>1. 1 \in Int /\ n \in Int
    OBVIOUS
  <2> QED BY <2>1, FS_Interval
<1>1. Cardinality(S) = Cardinality(1 .. n)
  <2>1. \A i \in 1 .. n : i \in 1 .. n <=> f[i] \in S
    BY DEF OneToOne
  <2> QED BY <1>0, <2>1, SameCount
<1> DEFINE A1 == {i \in 1 .. n : a[i] <= v}
           B1 == {j \in S : b[j] <= v}
           A2 == {i \in 1 .. n : a[i] < v}
           B2 == {j \in S : b[j] < v}
<1>2. Cardinality(B1) = Cardinality(A1)
  <2>1. \A i \in 1 .. n : i \in A1 <=> f[i] \in B1
    BY DEF OneToOne
  <2>2. A1 \subseteq 1 .. n /\ B1 \subseteq S
    OBVIOUS
  <2>3. IsFiniteSet(A1)
    BY <1>0, <2>2, FS_Subset
  <2> DEFINE D == 1 .. n
  <2>4. OneToOne(f, D, S) /\ A1 \subseteq D /\ B1 \subseteq S
        /\ \A i \in D : i \in A1 <=> f[i] \in B1
    BY <2>1, <2>2
  <2> HIDE DEF A1, B1, D
  <2> QED BY <2>3, <2>4, SameCount
<1>3. Cardinality(B2) = Cardinality(A2)
  <2>1. \A i \in 1 .. n : i \in A2 <=> f[i] \in B2
    BY DEF OneToOne
  <2>2. A2 \subseteq 1 .. n /\ B2 \subseteq S
    OBVIOUS
  <2>3. IsFiniteSet(A2)
    BY <1>0, <2>2, FS_Subset
  <2> DEFINE D == 1 .. n
  <2>4. OneToOne(f, D, S) /\ A2 \subseteq D /\ B2 \subseteq S
        /\ \A i \in D : i \in A2 <=> f[i] \in B2
    BY <2>1, <2>2
  <2> HIDE DEF A2, B2, D
  <2> QED BY <2>3, <2>4, SameCount
<1>4. /\ v \in Range(a)
      /\ 100 * Cardinality(A1) >= h * Cardinality(1 .. n)
      /\ 100 * Cardinality(A2) < h * Cardinality(1 .. n)
  BY DEF NearestRank
<1>5. v \in Range(b)
  <2>1. PICK i \in 1 .. n : v = a[i]
    BY <1>4 DEF Range
  <2>2. f[i] \in DOMAIN b /\ v = b[f[i]]
    BY <2>1 DEF OneToOne
  <2> QED BY <2>2 DEF Range
<1> HIDE DEF A1, A2
<1> QED BY <1>1, <1>2, <1>3, <1>4, <1>5 DEF NearestRank

\* What sorting returns: the values, each from its place, in order; equal ones
\* in the order of their places.
SortedBy(g, a) ==
    /\ OneToOne(g, 1 .. Len(a), 1 .. Len(a))
    /\ Sorted(a) = [k \in 1 .. Len(a) |-> a[g[k]]]
    /\ \A j, k \in 1 .. Len(a) :
         j < k <=> a[g[j]] < a[g[k]] \/ (a[g[j]] = a[g[k]] /\ g[j] < g[k])

LEMMA SortedIs ==
    ASSUME NEW a \in Seq(Int)
    PROVE  \E g : SortedBy(g, a)
<1> DEFINE P == 1 .. Len(a)
           order == {p \in P \X P : \/ a[p[1]] < a[p[2]]
                                    \/ a[p[1]] = a[p[2]] /\ p[1] < p[2]}
           g == Ranked(P, order)
<1>0. Len(a) \in Nat /\ \A i \in P : a[i] \in Int /\ i \in Int
  OBVIOUS
<1>1. \A i, j \in P : <<i, j>> \in order <=> a[i] < a[j] \/ (a[i] = a[j] /\ i < j)
  OBVIOUS
<1>2. IsFiniteSet(P) /\ Cardinality(P) = Len(a)
  <2>1. 1 \in Int /\ Len(a) \in Int
    BY <1>0
  <2>2. IsFiniteSet(P) /\ Cardinality(P) = IF 1 > Len(a) THEN 0 ELSE Len(a) - 1 + 1
    BY <2>1, FS_Interval
  <2> QED BY <1>0, <2>2
<1>3. Sorted(a) = [k \in 1 .. Len(a) |-> a[g[k]]]
  BY DEF Sorted
<1> HIDE DEF order, P
<1>4. Orders(order, P)
  <2>1. \A x \in P : <<x, x>> \notin order
    BY <1>0, <1>1
  <2>2. \A x, y \in P : x # y => <<x, y>> \in order \/ <<y, x>> \in order
    BY <1>0, <1>1
  <2>3. ASSUME NEW x \in P, NEW y \in P, NEW z \in P, <<x, y>> \in order, <<y, z>> \in order
        PROVE  <<x, z>> \in order
    <3>1. /\ a[x] < a[y] \/ (a[x] = a[y] /\ x < y)
          /\ a[y] < a[z] \/ (a[y] = a[z] /\ y < z)
      BY <1>1, <2>3
    <3>2. a[x] < a[z] \/ (a[x] = a[z] /\ x < z)
      BY <1>0, <3>1
    <3> QED BY <1>1, <3>2
  <2> QED BY <2>1, <2>2, <2>3 DEF Orders
<1>5. /\ g \in [1 .. Len(a) -> P]
      /\ \A x \in P : \E k \in 1 .. Len(a) : g[k] = x
      /\ \A j, k \in 1 .. Len(a) : <<g[j], g[k]>> \in order <=> j < k
  BY <1>2, <1>4, RankedSorts
<1> HIDE DEF g
<1>6. \A j, k \in 1 .. Len(a) :
         j < k <=> a[g[j]] < a[g[k]] \/ (a[g[j]] = a[g[k]] /\ g[j] < g[k])
  BY <1>1, <1>5
<1>7. ASSUME NEW j \in 1 .. Len(a), NEW k \in 1 .. Len(a), g[j] = g[k] PROVE j = k
  <2>1. ~(j < k) /\ ~(k < j)
    BY <1>4, <1>5, <1>7 DEF Orders
  <2> QED BY <1>0, <2>1
<1> QED BY <1>3, <1>5, <1>6, <1>7 DEF SortedBy, OneToOne, P

LEMMA RankIs ==
    ASSUME NEW n \in Nat \ {0}, NEW h \in 1 .. 100
    PROVE  LET r == (h * n + 99) \div 100 IN
           /\ r \in 1 .. n /\ 100 * r >= h * n /\ 100 * (r - 1) < h * n
           /\ h = 100 => r = n
<1> DEFINE x == h * n
           q == (x + 99) \div 100
           m == (x + 99) % 100
<1>1. x \in Nat /\ 1 <= x /\ x <= 100 * n /\ (h = 100 => x = 100 * n)
  <2>1. h \in Nat /\ h >= 1 /\ h <= 100 /\ n >= 1
    OBVIOUS
  <2>2. 1 * n <= h * n /\ h * n <= 100 * n
    BY <2>1
  <2> QED BY <2>1, <2>2
<1> HIDE DEF x
<1>2. q \in Nat /\ m \in 0 .. 99 /\ x + 99 = 100 * q + m
  <2>1. x + 99 \in Nat /\ 100 \in Nat \ {0}
    BY <1>1
  <2>2. ((x + 99) % 100) \in 0 .. 100 - 1 /\ ((x + 99) \div 100) \in Nat
        /\ x + 99 = 100 * ((x + 99) \div 100) + ((x + 99) % 100)
    BY <2>1, Division
  <2> QED BY <2>2
<1> HIDE DEF q, m
<1>3. q \in 1 .. n /\ 100 * q >= x /\ 100 * (q - 1) < x /\ (h = 100 => q = n)
  BY <1>1, <1>2
<1> QED BY <1>3 DEF x, q

LEMMA PercentileIs ==
    ASSUME NEW a \in Seq(Int), Len(a) # 0, NEW h \in 1 .. 100
    PROVE  LET v == percentile(a, h) IN
           /\ v \in Int /\ NearestRank(v, a, h)
           /\ h = 100 => v \in Range(a) /\ \A i \in 1 .. Len(a) : a[i] <= v
<1> DEFINE n == Len(a)
           r == (h * n + 99) \div 100
           P == 1 .. n
           v == percentile(a, h)
<1>1. n \in Nat \ {0} /\ DOMAIN a = P /\ \A i \in P : a[i] \in Int
  OBVIOUS
<1>2. /\ r \in 1 .. n /\ 100 * r >= h * n /\ 100 * (r - 1) < h * n
      /\ h = 100 => r = n
  BY <1>1, RankIs
<1>3. PICK g : SortedBy(g, a)
  BY SortedIs
<1>4. /\ OneToOne(g, P, P) /\ \A k \in P : Sorted(a)[k] = a[g[k]]
      /\ \A j, k \in P :
           j < k <=> a[g[j]] < a[g[k]] \/ (a[g[j]] = a[g[k]] /\ g[j] < g[k])
  BY <1>3 DEF SortedBy
<1>5. percentile(a, h) = Sorted(a)[Least(IF r = 0 THEN 1 ELSE r, n)]
  BY DEF percentile
<1> HIDE DEF r, n, v
<1>6. v = a[g[r]] /\ r \in P /\ g[r] \in P /\ r \in Nat
  <2>1. r \in Nat /\ r # 0 /\ r <= n
    BY <1>1, <1>2
  <2>2. Least(IF r = 0 THEN 1 ELSE r, n) = r
    BY <1>1, <2>1 DEF Least
  <2> QED BY <1>2, <1>4, <1>5, <2>1, <2>2 DEF OneToOne, v
<1>7. \A k \in P : g[k] \in P /\ a[g[k]] \in Int
  BY <1>1, <1>4 DEF OneToOne
<1>8. /\ \A k \in P : k <= r => a[g[k]] <= v
      /\ \A k \in P : a[g[k]] < v => k < r
  <2>1. ASSUME NEW k \in P, k <= r PROVE a[g[k]] <= v
    <3>1. k = r \/ k < r
      BY <1>1, <1>6, <2>1
    <3>2. k < r => a[g[k]] < a[g[r]] \/ a[g[k]] = a[g[r]]
      BY <1>4, <1>6
    <3> QED BY <1>6, <1>7, <3>1, <3>2
  <2>2. ASSUME NEW k \in P, a[g[k]] < v PROVE k < r
    BY <1>4, <1>6, <2>2
  <2> QED BY <2>1, <2>2
<1>9. IsFiniteSet(P) /\ Cardinality(P) = n
  <2>1. 1 \in Int /\ n \in Int
    BY <1>1
  <2>2. IsFiniteSet(P) /\ Cardinality(P) = IF 1 > n THEN 0 ELSE n - 1 + 1
    BY <2>1, FS_Interval
  <2> QED BY <1>1, <2>2
<1> DEFINE U == {i \in P : a[i] <= v}
           B == {i \in P : a[i] < v}
           U0 == {k \in P : a[g[k]] <= v}
           B0 == {k \in P : a[g[k]] < v}
<1>10. IsFiniteSet(U0) /\ IsFiniteSet(B0) /\ Cardinality(U) = Cardinality(U0)
       /\ Cardinality(B) = Cardinality(B0)
  <2>1. U0 \subseteq P /\ B0 \subseteq P /\ U \subseteq P /\ B \subseteq P
    OBVIOUS
  <2>2. IsFiniteSet(U0) /\ IsFiniteSet(B0)
    BY <1>9, <2>1, FS_Subset
  <2>3. \A k \in P : (k \in U0 <=> g[k] \in U) /\ (k \in B0 <=> g[k] \in B)
    BY <1>7
  <2> HIDE DEF U, B, U0, B0, P
  <2>4. Cardinality(U) = Cardinality(U0)
    BY <1>4, <2>1, <2>2, <2>3, SameCount
  <2>5. Cardinality(B) = Cardinality(B0)
    BY <1>4, <2>1, <2>2, <2>3, SameCount
  <2> QED BY <2>2, <2>4, <2>5
<1>11. r <= Cardinality(U0) /\ Cardinality(U0) \in Nat
  <2>1. 1 .. r \subseteq U0
    BY <1>1, <1>2, <1>6, <1>8
  <2>2. 1 \in Int /\ r \in Int
    BY <1>6
  <2>3. Cardinality(1 .. r) = IF 1 > r THEN 0 ELSE r - 1 + 1
    BY <2>2, FS_Interval
  <2>4. Cardinality(1 .. r) = r
    BY <1>2, <1>6, <2>3
  <2> HIDE DEF U0
  <2>5. Cardinality(1 .. r) <= Cardinality(U0)
    BY <1>10, <2>1, FS_Subset
  <2> QED BY <1>10, <2>4, <2>5, FS_CardinalityType
<1>12. Cardinality(B0) <= r - 1 /\ Cardinality(B0) \in Nat
  <2>1. B0 \subseteq 1 .. r - 1
    BY <1>1, <1>6, <1>8
  <2>2. 1 \in Int /\ r - 1 \in Int
    BY <1>6
  <2>3. IsFiniteSet(1 .. r - 1) /\ Cardinality(1 .. r - 1) = IF 1 > r - 1 THEN 0 ELSE (r - 1) - 1 + 1
    BY <2>2, FS_Interval
  <2>4. Cardinality(1 .. r - 1) = r - 1
    BY <1>2, <1>6, <2>3
  <2> HIDE DEF B0
  <2>5. Cardinality(B0) <= Cardinality(1 .. r - 1)
    BY <2>1, <2>3, FS_Subset
  <2> QED BY <1>10, <2>4, <2>5, FS_CardinalityType
<1>13. v \in Range(a) /\ v \in Int
  BY <1>1, <1>6 DEF Range
<1>14. NearestRank(v, a, h)
  <2> DEFINE x == h * n
  <2>1. x \in Int /\ 100 * r >= x /\ 100 * (r - 1) < x
    BY <1>1, <1>2
  <2> HIDE DEF x, U, B, U0, B0, P
  <2>2. 100 * Cardinality(U) >= x
    BY <1>6, <1>10, <1>11, <2>1
  <2>3. 100 * Cardinality(B) < x
    BY <1>6, <1>10, <1>12, <2>1
  <2> QED BY <1>1, <1>9, <1>13, <2>2, <2>3 DEF NearestRank, x, U, B
<1>15. h = 100 => \A i \in P : a[i] <= v
  <2>1. SUFFICES ASSUME h = 100, NEW i \in P PROVE a[i] <= v
    OBVIOUS
  <2>2. PICK k \in P : g[k] = i
    BY <1>4 DEF OneToOne
  <2>3. k <= r
    BY <1>1, <1>2, <2>1
  <2> QED BY <1>8, <2>2, <2>3
<1> QED BY <1>13, <1>14, <1>15 DEF v, n

-----------------------------------------------------------------------------
(* The arrivals of a stream. *)

LEMMA MinIs ==
    ASSUME NEW S, S \subseteq Int, NEW x \in S, \A y \in S : x <= y
    PROVE  Min(S) = x
<1>1. Min(S) \in S /\ \A y \in S : Min(S) <= y
  BY DEF Min
<1>2. Min(S) \in Int /\ x \in Int /\ Min(S) <= x /\ x <= Min(S)
  BY <1>1
<1> HIDE DEF Min
<1> QED BY <1>2

LEMMA MaxIs ==
    ASSUME NEW S, S \subseteq Int, NEW x \in S, \A y \in S : y <= x
    PROVE  Max(S) = x
<1>0. \A y \in S : x >= y
  OBVIOUS
<1>1. Max(S) \in S /\ \A y \in S : Max(S) >= y
  BY <1>0 DEF Max
<1>2. Max(S) \in Int /\ x \in Int /\ Max(S) >= x /\ x >= Max(S)
  BY <1>0, <1>1
<1> HIDE DEF Max
<1> QED BY <1>2

\* t has the values that val gives the positions in S, in the order of the log.
Collects(f, t, S, val) ==
    /\ t \in Seq(Int) /\ S \subseteq Int
    /\ OneToOne(f, 1 .. Len(t), S)
    /\ \A i, j \in 1 .. Len(t) : i < j => f[i] < f[j]
    /\ \A i \in 1 .. Len(t) : t[i] = val[f[i]]

\* h lists S in the order of the values, equal ones in the order of the log.
ByValue(h, n, S, val) ==
    /\ n \in Nat /\ OneToOne(h, 1 .. n, S)
    /\ \A j, k \in 1 .. n :
         j < k <=> val[h[j]] < val[h[k]] \/ (val[h[j]] = val[h[k]] /\ h[j] < h[k])

LEMMA SortedCollects ==
    ASSUME NEW f, NEW t, NEW S, NEW val, Collects(f, t, S, val)
    PROVE  \E h : /\ ByValue(h, Len(t), S, val)
                  /\ Sorted(t) = [k \in 1 .. Len(t) |-> val[h[k]]]
                  /\ \A k \in 1 .. Len(t) : val[h[k]] \in Int
<1> DEFINE n == Len(t)
<1>1. /\ t \in Seq(Int) /\ n \in Nat /\ OneToOne(f, 1 .. n, S) /\ S \subseteq Int
      /\ \A i, j \in 1 .. n : i < j => f[i] < f[j]
      /\ \A i \in 1 .. n : t[i] = val[f[i]] /\ t[i] \in Int
  BY DEF Collects
<1>2. PICK g : SortedBy(g, t)
  BY <1>1, SortedIs
<1>3. /\ OneToOne(g, 1 .. n, 1 .. n) /\ Sorted(t) = [k \in 1 .. n |-> t[g[k]]]
      /\ \A j, k \in 1 .. n :
           j < k <=> t[g[j]] < t[g[k]] \/ (t[g[j]] = t[g[k]] /\ g[j] < g[k])
  BY <1>2 DEF SortedBy
<1> HIDE DEF n
<1> DEFINE h == [k \in 1 .. n |-> f[g[k]]]
<1>4. ASSUME NEW k \in 1 .. n
      PROVE  g[k] \in 1 .. n /\ h[k] = f[g[k]] /\ h[k] \in S /\ t[g[k]] = val[h[k]] /\ val[h[k]] \in Int
  BY <1>1, <1>3 DEF OneToOne
<1>5. \A i, j \in 1 .. n : i < j <=> f[i] < f[j]
  <2>1. SUFFICES ASSUME NEW i \in 1 .. n, NEW j \in 1 .. n, f[i] < f[j] PROVE i < j
    BY <1>1
  <2>2. f[i] \in Int /\ f[j] \in Int
    BY <1>1 DEF OneToOne
  <2>3. ~(j < i) /\ i # j
    BY <1>1, <2>1, <2>2
  <2> QED BY <1>1, <2>3
<1>6. OneToOne(h, 1 .. n, S)
  <2>1. h \in [1 .. n -> S]
    BY <1>4
  <2>2. ASSUME NEW x \in S PROVE \E k \in 1 .. n : h[k] = x
    <3>1. PICK i \in 1 .. n : f[i] = x
      BY <1>1 DEF OneToOne
    <3>2. PICK k \in 1 .. n : g[k] = i
      BY <1>3 DEF OneToOne
    <3> QED BY <3>1, <3>2
  <2>3. ASSUME NEW j \in 1 .. n, NEW k \in 1 .. n, h[j] = h[k] PROVE j = k
    <3>1. g[j] \in 1 .. n /\ g[k] \in 1 .. n /\ f[g[j]] = f[g[k]]
      BY <1>4, <2>3
    <3>2. g[j] = g[k]
      BY <1>1, <3>1 DEF OneToOne
    <3> QED BY <1>3, <3>2 DEF OneToOne
  <2> HIDE DEF h
  <2> QED BY <2>1, <2>2, <2>3 DEF OneToOne
<1>7. Sorted(t) = [k \in 1 .. n |-> val[h[k]]]
  BY <1>3, <1>4
<1> HIDE DEF h
<1>8. ASSUME NEW j \in 1 .. n, NEW k \in 1 .. n
      PROVE  j < k <=> val[h[j]] < val[h[k]] \/ (val[h[j]] = val[h[k]] /\ h[j] < h[k])
  <2>1. g[j] < g[k] <=> h[j] < h[k]
    BY <1>4, <1>5
  <2> QED BY <1>3, <1>4, <2>1
<1>9. ByValue(h, n, S, val)
  BY <1>1, <1>6, <1>8 DEF ByValue
<1> QED BY <1>4, <1>7, <1>9 DEF n

\* The extremes of the values.
LEMMA SpanIs ==
    ASSUME NEW h, NEW n \in Nat \ {0}, NEW S, NEW val, ByValue(h, n, S, val),
           \A k \in 1 .. n : val[h[k]] \in Int
    PROVE  Span({val[i] : i \in S}) = val[h[n]] - val[h[1]]
<1> DEFINE V == {val[i] : i \in S}
<1>1. \A v \in V : \E k \in 1 .. n : v = val[h[k]]
  BY DEF ByValue, OneToOne
<1>2. \A k \in 1 .. n : val[h[k]] \in V
  BY DEF ByValue, OneToOne
<1>3. V \subseteq Int
  BY <1>1
<1>4. 1 \in 1 .. n /\ n \in 1 .. n /\ \A k \in 1 .. n : (k = 1 \/ 1 < k) /\ (k = n \/ k < n)
  OBVIOUS
<1>5. \A j, k \in 1 .. n : j < k => val[h[j]] <= val[h[k]]
  BY DEF ByValue
<1> HIDE DEF V
<1>6. \A k \in 1 .. n : val[h[1]] <= val[h[k]] /\ val[h[k]] <= val[h[n]]
  BY <1>4, <1>5
<1>7. Min(V) = val[h[1]]
  <2>1. val[h[1]] \in V
    BY <1>2, <1>4
  <2>2. \A v \in V : val[h[1]] <= v
    BY <1>1, <1>6
  <2> DEFINE x == val[h[1]]
  <2>3. x \in V /\ \A v \in V : x <= v
    BY <2>1, <2>2
  <2> HIDE DEF x
  <2>4. Min(V) = x
    BY <1>3, <2>3, MinIs
  <2> QED BY <2>4 DEF x
<1>8. Max(V) = val[h[n]]
  <2>1. val[h[n]] \in V
    BY <1>2, <1>4
  <2>2. \A v \in V : v <= val[h[n]]
    BY <1>1, <1>6
  <2> DEFINE x == val[h[n]]
  <2>3. x \in V /\ \A v \in V : v <= x
    BY <2>1, <2>2
  <2> HIDE DEF x
  <2>4. Max(V) = x
    BY <1>3, <2>3, MaxIs
  <2> QED BY <2>4 DEF x
<1> QED BY <1>7, <1>8 DEF Span, V

\* What Analyzer.After and Analyzer.Intervals are for the positions in S.
LaterThan(S, val, i) == {j \in S : val[j] > val[i] \/ (val[j] = val[i] /\ j > i)}
Gaps(S, val) ==
    [i \in {j \in S : LaterThan(S, val, j) # {}} |->
       Min({val[j] : j \in LaterThan(S, val, i)}) - val[i]]

\* e lists the places of the gaps, which are the differences of neighbours.
GapsListed(e, h, n, S, val) ==
    /\ OneToOne(e, 1 .. n - 1, DOMAIN Gaps(S, val))
    /\ \A j \in 1 .. n - 1 : Gaps(S, val)[h[j]] = val[h[j + 1]] - val[h[j]]

\* The time from a value to the next larger one is the difference of two
\* neighbours in the sorted list.
LEMMA GapsAre ==
    ASSUME NEW h, NEW n \in Nat \ {0}, NEW S, S \subseteq Int, NEW val, ByValue(h, n, S, val),
           \A k \in 1 .. n : val[h[k]] \in Int, NEW e,
           e \in [1 .. n - 1 -> S], \A j \in 1 .. n - 1 : e[j] = h[j]
    PROVE  GapsListed(e, h, n, S, val)
<1> DEFINE D == {j \in S : LaterThan(S, val, j) # {}}
<1>1. /\ \A k \in 1 .. n : h[k] \in S /\ h[k] \in Int /\ val[h[k]] \in Int
      /\ \A x \in S : \E k \in 1 .. n : h[k] = x
      /\ \A j, k \in 1 .. n : h[j] = h[k] => j = k
  BY DEF ByValue, OneToOne
<1>2. ASSUME NEW j \in 1 .. n, NEW m \in 1 .. n
      PROVE  h[m] \in LaterThan(S, val, h[j]) <=> j < m
  <2>1. j < m <=> val[h[j]] < val[h[m]] \/ (val[h[j]] = val[h[m]] /\ h[j] < h[m])
    BY DEF ByValue
  <2>2. h[m] \in S /\ h[j] \in Int /\ h[m] \in Int /\ val[h[m]] \in Int /\ val[h[j]] \in Int
    BY <1>1
  <2>3. h[m] \in LaterThan(S, val, h[j])
          <=> val[h[m]] > val[h[j]] \/ (val[h[m]] = val[h[j]] /\ h[m] > h[j])
    BY <2>2 DEF LaterThan
  <2>4. (val[h[m]] > val[h[j]] <=> val[h[j]] < val[h[m]]) /\ (h[m] > h[j] <=> h[j] < h[m])
    BY <2>2
  <2> QED BY <2>1, <2>3, <2>4
<1>3. ASSUME NEW j \in 1 .. n PROVE h[j] \in D <=> j \in 1 .. n - 1
  <2>1. \A x \in LaterThan(S, val, h[j]) : x \in S
    BY DEF LaterThan
  <2>2. h[j] \in D <=> \E m \in 1 .. n : h[m] \in LaterThan(S, val, h[j])
    <3> DEFINE L == LaterThan(S, val, h[j])
    <3>1. h[j] \in D <=> L # {}
      BY <1>1
    <3>2. \A x \in L : x \in S
      BY <2>1
    <3> HIDE DEF L, D
    <3>3. L # {} <=> \E x \in L : TRUE
      OBVIOUS
    <3>4. ASSUME NEW x \in L PROVE \E m \in 1 .. n : h[m] \in L
      <4>1. PICK m \in 1 .. n : h[m] = x
        BY <1>1, <3>2
      <4> QED BY <4>1
    <3> QED BY <3>1, <3>3, <3>4 DEF L
  <2>3. h[j] \in D <=> \E m \in 1 .. n : j < m
    BY <1>2, <2>2
  <2>4. (\E m \in 1 .. n : j < m) <=> j \in 1 .. n - 1
    <3>1. ASSUME NEW m \in 1 .. n, j < m PROVE j \in 1 .. n - 1
      BY <3>1
    <3>2. j \in 1 .. n - 1 => j < n /\ n \in 1 .. n
      OBVIOUS
    <3> QED BY <3>1, <3>2
  <2> QED BY <2>3, <2>4
<1>4. DOMAIN Gaps(S, val) = D
  BY DEF Gaps
<1>5. \A j \in 1 .. n - 1 : j \in 1 .. n /\ j + 1 \in 1 .. n /\ j < j + 1 /\ e[j] = h[j]
  OBVIOUS
<1>6. OneToOne(e, 1 .. n - 1, D)
  <2>1. e \in [1 .. n - 1 -> D]
    BY <1>3, <1>5
  <2>2. ASSUME NEW x \in D PROVE \E j \in 1 .. n - 1 : e[j] = x
    <3>1. PICK k \in 1 .. n : h[k] = x
      BY <1>1
    <3>2. k \in 1 .. n - 1
      BY <1>3, <3>1
    <3> QED BY <1>5, <3>1, <3>2
  <2>3. \A i, j \in 1 .. n - 1 : e[i] = e[j] => i = j
    BY <1>1, <1>5
  <2> HIDE DEF D
  <2> QED BY <2>1, <2>2, <2>3 DEF OneToOne
<1>7. ASSUME NEW j \in 1 .. n - 1
      PROVE  Gaps(S, val)[h[j]] = val[h[j + 1]] - val[h[j]]
  <2> DEFINE L == LaterThan(S, val, h[j])
             V == {val[i] : i \in L}
             x == val[h[j + 1]]
  <2>1. h[j] \in D
    BY <1>3, <1>5
  <2>2. Gaps(S, val)[h[j]] = Min(V) - val[h[j]]
    BY <2>1 DEF Gaps
  <2>3. h[j + 1] \in L
    BY <1>2, <1>5
  <2>4. x \in V
    BY <2>3
  <2>5. ASSUME NEW i \in L PROVE val[i] \in Int /\ x <= val[i]
    <3>1. i \in S
      BY DEF LaterThan
    <3>2. PICK m \in 1 .. n : h[m] = i
      BY <1>1, <3>1
    <3>3. j < m
      BY <1>2, <1>5, <3>2
    <3>4. m = j + 1 \/ j + 1 < m
      BY <3>3
    <3>5. j + 1 < m => val[h[j + 1]] < val[h[m]] \/ val[h[j + 1]] = val[h[m]]
      BY <1>5 DEF ByValue
    <3>6. val[h[j + 1]] \in Int /\ val[h[m]] \in Int
      BY <1>1, <1>5
    <3> QED BY <3>2, <3>4, <3>5, <3>6
  <2>6. V \subseteq Int /\ \A v \in V : x <= v
    BY <2>5
  <2> HIDE DEF V, x
  <2>7. Min(V) = x
    BY <2>4, <2>6, MinIs
  <2> QED BY <2>2, <2>7 DEF x
<1> QED BY <1>4, <1>6, <1>7 DEF GapsListed

\* What finish_stream makes of the arrivals of the positions in S.
LEMMA StreamTiming ==
    ASSUME NEW f, NEW st, NEW S, NEW val, Collects(f, st.collector_timestamps, S, val)
    PROVE  LET t == finish_stream(st)
               n == Cardinality(S)
               span == Span({val[i] : i \in S})
               med == t.interarrival
           IN  IF n < 2 THEN t = [rate |-> Empty, interarrival |-> Empty, jitter |-> Empty]
               ELSE /\ t.rate = (IF span = 0 THEN Empty ELSE <<n - 1, span>>)
                    /\ NearestRank(med, Gaps(S, val), 50)
                    /\ NearestRank(t.jitter,
                         [i \in DOMAIN Gaps(S, val) |-> Magnitude(Gaps(S, val)[i] - med)], 95)
<1> DEFINE ct == st.collector_timestamps
           n == Len(ct)
           s == Arrivals(st)
           intervals == [i \in 1 .. n - 1 |-> s[i + 1] - s[i]]
           median == percentile(intervals, 50)
           deviations == [i \in 1 .. n - 1 |-> Magnitude(intervals[i] - median)]
           span == s[n] - s[1]
           V == {val[i] : i \in S}
           G == Gaps(S, val)
           d == [i \in DOMAIN G |-> Magnitude(G[i] - median)]
<1>0. /\ ct \in Seq(Int) /\ n \in Nat /\ S \subseteq Int /\ OneToOne(f, 1 .. n, S)
  BY DEF Collects
<1>1. Cardinality(S) = n
  <2> DEFINE P == 1 .. n
  <2>1. 1 \in Int /\ n \in Int
    BY <1>0
  <2>2. IsFiniteSet(P) /\ Cardinality(P) = IF 1 > n THEN 0 ELSE n - 1 + 1
    BY <2>1, FS_Interval
  <2>3. Cardinality(P) = n
    BY <1>0, <2>2
  <2>4. OneToOne(f, P, S) /\ P \subseteq P /\ S \subseteq S /\ \A i \in P : i \in P <=> f[i] \in S
    BY <1>0 DEF OneToOne
  <2> HIDE DEF P, n
  <2> QED BY <2>2, <2>3, <2>4, SameCount
<1>2. PICK h : /\ ByValue(h, n, S, val)
               /\ s = [k \in 1 .. n |-> val[h[k]]]
               /\ \A k \in 1 .. n : val[h[k]] \in Int
  BY SortedCollects DEF Arrivals
<1>3. Len(s) = n
  BY <1>0, <1>2
<1>4. finish_stream(st)
        = IF n < 2 THEN [rate |-> Empty, interarrival |-> Empty, jitter |-> Empty]
          ELSE [rate |-> IF span > 0 THEN <<n - 1, span>> ELSE Empty,
                interarrival |-> median, jitter |-> percentile(deviations, 95)]
  BY <1>3 DEF finish_stream
<1> HIDE DEF ct, n, s
<1>5. CASE n < 2
  BY <1>1, <1>4, <1>5
<1>6. CASE ~(n < 2)
  <2>0. n \in Nat \ {0} /\ n - 1 \in Nat \ {0} /\ 1 \in 1 .. n /\ n \in 1 .. n
    BY <1>0, <1>6
  <2>1. \A i \in 1 .. n - 1 : i \in 1 .. n /\ i + 1 \in 1 .. n
    BY <1>0
  <2>2. \A i \in 1 .. n : s[i] = val[h[i]] /\ s[i] \in Int
    BY <1>2
  <2>3. Span(V) = span
    <3>1. Span({val[i] : i \in S}) = val[h[n]] - val[h[1]]
      BY <1>2, <2>0, SpanIs
    <3> QED BY <2>0, <2>2, <3>1
  <2>4. span \in Int /\ span >= 0
    <3>1. 1 < n
      BY <2>0
    <3>2. val[h[1]] < val[h[n]] \/ val[h[1]] = val[h[n]]
      BY <1>2, <2>0, <3>1 DEF ByValue
    <3> QED BY <2>0, <2>2, <3>2
  <2>5. (IF span > 0 THEN <<n - 1, span>> ELSE Empty) = (IF Span(V) = 0 THEN Empty ELSE <<n - 1, Span(V)>>)
    <3>1. span > 0 <=> Span(V) # 0
      <4> HIDE DEF span, V
      <4> QED BY <2>3, <2>4
    <3> QED BY <2>3, <3>1
  <2> DEFINE hh == [j \in 1 .. n - 1 |-> h[j]]
  <2>6. /\ OneToOne(hh, 1 .. n - 1, DOMAIN G)
        /\ \A j \in 1 .. n - 1 : hh[j] = h[j] /\ G[h[j]] = val[h[j + 1]] - val[h[j]]
    <3>1. /\ n \in Nat \ {0} /\ S \subseteq Int /\ ByValue(h, n, S, val)
          /\ \A k \in 1 .. n : val[h[k]] \in Int
      BY <1>0, <1>2, <2>0
    <3>2. \A j \in 1 .. n - 1 : hh[j] = h[j]
      OBVIOUS
    <3>3. hh \in [1 .. n - 1 -> S]
      BY <2>1, <3>1, <3>2 DEF ByValue, OneToOne
    <3> HIDE DEF hh
    <3>4. GapsListed(hh, h, n, S, val)
      BY <3>1, <3>2, <3>3, GapsAre
    <3> QED BY <3>2, <3>4 DEF GapsListed
  <2>7. \A j \in 1 .. n - 1 : intervals[j] = G[hh[j]] /\ intervals[j] \in Int
    BY <2>1, <2>2, <2>6
  <2>8. intervals \in Seq(Int) /\ Len(intervals) = n - 1
    BY <2>0, <2>1, <2>2
  <2>9. DOMAIN intervals = 1 .. n - 1 /\ DOMAIN deviations = 1 .. n - 1
    OBVIOUS
  <2>10. median \in Int /\ NearestRank(median, intervals, 50)
    <3>1. 50 \in 1 .. 100 /\ Len(intervals) # 0
      BY <2>0, <2>8
    <3> HIDE DEF intervals
    <3> QED BY <2>8, <3>1, PercentileIs
  <2>11. \A j \in 1 .. n - 1 : deviations[j] = Magnitude(intervals[j] - median) /\ deviations[j] \in Int
    <3> HIDE DEF intervals, median
    <3> QED BY <2>7, <2>10 DEF Magnitude
  <2>12. deviations \in Seq(Int) /\ Len(deviations) = n - 1
    <3> HIDE DEF intervals, median
    <3>1. deviations \in [1 .. n - 1 -> Int]
      BY <2>11
    <3> QED BY <2>0, <3>1
  <2> HIDE DEF intervals, median, hh, G
  <2>13. \A j \in 1 .. n - 1 : deviations[j] = d[hh[j]]
    <3>1. \A j \in 1 .. n - 1 : hh[j] \in DOMAIN G
      BY <2>6 DEF OneToOne, hh
    <3> QED BY <2>7, <3>1
  <2>14. DOMAIN d = DOMAIN G /\ OneToOne(hh, 1 .. n - 1, DOMAIN G)
    BY <2>6 DEF hh
  <2> HIDE DEF deviations, d
  <2>15. LET v == percentile(deviations, 95) IN NearestRank(v, deviations, 95)
    <3>1. 95 \in 1 .. 100 /\ Len(deviations) # 0
      BY <2>0, <2>12
    <3> QED BY <2>12, <3>1, PercentileIs
  <2>16. NearestRank(median, G, 50)
    BY <2>0, <2>7, <2>9, <2>10, <2>14, SamePercentile
  <2>17. NearestRank(percentile(deviations, 95), d, 95)
    <3> DEFINE v == percentile(deviations, 95)
    <3>1. NearestRank(v, deviations, 95) /\ n - 1 \in Nat
      BY <2>0, <2>15
    <3> HIDE DEF v
    <3>2. NearestRank(v, d, 95)
      BY <2>9, <2>13, <2>14, <3>1, SamePercentile
    <3> QED BY <3>2 DEF v
  <2> DEFINE fs == finish_stream(st)
  <2>18. /\ fs.rate = (IF Span(V) = 0 THEN Empty ELSE <<n - 1, Span(V)>>)
         /\ fs.interarrival = median /\ fs.jitter = percentile(deviations, 95)
    BY <1>4, <1>6, <2>5
  <2> HIDE DEF fs, V
  <2>19. /\ NearestRank(fs.interarrival, G, 50)
         /\ NearestRank(fs.jitter, [i \in DOMAIN G |-> Magnitude(G[i] - fs.interarrival)], 95)
    BY <2>16, <2>17, <2>18 DEF d
  <2> QED BY <1>1, <1>6, <2>18, <2>19 DEF fs, V, G
<1> QED BY <1>5, <1>6

-----------------------------------------------------------------------------
(* The lists a turn of the loop extends. *)

Collected(t, S, val) == \E f : Collects(f, t, S, val)

LEMMA CollectedGrows ==
    ASSUME NEW n \in Nat, NEW S, S \subseteq 1 .. n, NEW t, NEW val, Collected(t, S, val),
           NEW val2, \A i \in 1 .. n : val2[i] = val[i], NEW v \in Int
    PROVE  /\ Collected(t, S, val2)
           /\ val2[n + 1] = v => Collected(Append(t, v), S \cup {n + 1}, val2)
<1>1. PICK f : Collects(f, t, S, val)
  BY DEF Collected
<1> DEFINE L == Len(t)
<1>2. /\ t \in Seq(Int) /\ L \in Nat /\ S \subseteq Int /\ f \in [1 .. L -> S]
      /\ \A i \in 1 .. L : f[i] \in 1 .. n /\ t[i] = val2[f[i]]
  <2>1. /\ t \in Seq(Int) /\ L \in Nat /\ S \subseteq Int /\ f \in [1 .. L -> S]
        /\ \A i \in 1 .. L : t[i] = val[f[i]]
    BY <1>1 DEF Collects, OneToOne
  <2> HIDE DEF L
  <2>2. ASSUME NEW i \in 1 .. L PROVE f[i] \in 1 .. n /\ t[i] = val2[f[i]]
    <3>1. f[i] \in S
      BY <2>1
    <3>2. f[i] \in 1 .. n
      BY <3>1
    <3> QED BY <2>1, <3>2
  <2> QED BY <2>1, <2>2
<1>3. Collects(f, t, S, val2)
  BY <1>1, <1>2 DEF Collects
<1>4. ASSUME val2[n + 1] = v PROVE Collected(Append(t, v), S \cup {n + 1}, val2)
  <2> DEFINE u == Append(t, v)
             g == [i \in 1 .. L + 1 |-> IF i = L + 1 THEN n + 1 ELSE f[i]]
             T == S \cup {n + 1}
  <2>1. u \in Seq(Int) /\ Len(u) = L + 1 /\ u[L + 1] = v /\ \A i \in 1 .. L : u[i] = t[i]
    BY <1>2
  <2>2. \A i \in 1 .. L + 1 : i = L + 1 \/ i \in 1 .. L
    BY <1>2
  <2>3. L + 1 \in 1 .. L + 1 /\ \A i \in 1 .. L : i \in 1 .. L + 1 /\ i # L + 1 /\ i < L + 1 /\ ~(L + 1 < i)
    BY <1>2
  <2>4. g[L + 1] = n + 1 /\ \A i \in 1 .. L : g[i] = f[i]
    BY <2>3
  <2>5. g \in [1 .. L + 1 -> T]
    <3>1. \A i \in 1 .. L + 1 : g[i] \in T
      BY <1>2, <2>2, <2>4
    <3>2. g = [i \in 1 .. L + 1 |-> g[i]]
      OBVIOUS
    <3> HIDE DEF g, T
    <3> QED BY <3>1, <3>2
  <2>6. \A i \in 1 .. L : f[i] \in Int /\ f[i] < n + 1 /\ ~(n + 1 < f[i]) /\ f[i] # n + 1
    BY <1>2
  <2> HIDE DEF u, g, L
  <2>7. \A i, j \in 1 .. L + 1 : i < j => g[i] < g[j]
    <3>1. \A i, j \in 1 .. L : i < j => f[i] < f[j]
      BY <1>1 DEF Collects, L
    <3>2. ~(L + 1 < L + 1)
      BY <1>2
    <3> SUFFICES ASSUME NEW i \in 1 .. L + 1, NEW j \in 1 .. L + 1, i < j PROVE g[i] < g[j]
      OBVIOUS
    <3>3. i \in 1 .. L
      BY <2>2, <2>3, <3>2
    <3>4. CASE j \in 1 .. L
      BY <2>4, <3>1, <3>3, <3>4
    <3>5. CASE j = L + 1
      BY <2>4, <2>6, <3>3, <3>5
    <3> QED BY <2>2, <3>4, <3>5
  <2>8. ASSUME NEW i \in 1 .. L + 1, NEW j \in 1 .. L + 1, g[i] = g[j] PROVE i = j
    <3>1. g[i] \in Int /\ g[j] \in Int
      BY <2>2, <2>4, <2>6
    <3>2. ~(i < j) /\ ~(j < i)
      BY <2>7, <2>8, <3>1
    <3> QED BY <1>2, <3>2
  <2>9. ASSUME NEW x \in T PROVE \E i \in 1 .. L + 1 : g[i] = x
    <3>1. CASE x = n + 1
      BY <2>3, <2>4, <3>1
    <3>2. CASE x \in S
      <4>1. PICK i \in 1 .. L : f[i] = x
        BY <1>1, <3>2 DEF Collects, OneToOne, L
      <4> QED BY <2>3, <2>4, <4>1
    <3> QED BY <3>1, <3>2
  <2>10. \A i \in 1 .. L + 1 : u[i] = val2[g[i]]
    BY <1>2, <1>4, <2>1, <2>2, <2>4
  <2>11. T \subseteq Int
    <3>1. n + 1 \in Int
      OBVIOUS
    <3> QED BY <1>2, <3>1
  <2> HIDE DEF T
  <2>12. OneToOne(g, 1 .. L + 1, T)
    BY <2>5, <2>8, <2>9 DEF OneToOne
  <2>13. Collects(g, u, T, val2)
    BY <2>1, <2>7, <2>10, <2>11, <2>12 DEF Collects
  <2> QED BY <2>13 DEF Collected, u, T
<1> QED BY <1>3, <1>4 DEF Collected

LEMMA NothingCollected ==
    ASSUME NEW val
    PROVE  Collected(<<>>, {}, val)
<1> DEFINE f == [i \in {} |-> 0]
<1>1. <<>> \in Seq(Int) /\ Len(<<>>) = 0 /\ 1 .. 0 = {}
  OBVIOUS
<1>2. f \in [{} -> {}]
  OBVIOUS
<1> HIDE DEF f
<1>3. Collects(f, <<>>, {}, val)
  BY <1>1, <1>2 DEF Collects, OneToOne
<1> QED BY <1>3 DEF Collected

LEMMA CollectedCount ==
    ASSUME NEW t, NEW S, NEW val, Collected(t, S, val)
    PROVE  t \in Seq(Int) /\ Cardinality(S) = Len(t) /\ (S = {} <=> t = <<>>)
<1>1. PICK f : Collects(f, t, S, val)
  BY DEF Collected
<1> DEFINE n == Len(t)
           P == 1 .. n
<1>2. t \in Seq(Int) /\ n \in Nat /\ OneToOne(f, P, S)
  BY <1>1 DEF Collects
<1>3. IsFiniteSet(P) /\ Cardinality(P) = n
  <2>1. 1 \in Int /\ n \in Int
    BY <1>2
  <2>2. IsFiniteSet(P) /\ Cardinality(P) = IF 1 > n THEN 0 ELSE n - 1 + 1
    BY <2>1, FS_Interval
  <2> QED BY <1>2, <2>2
<1>4. P = {} <=> t = <<>>
  <2>1. n = 0 <=> t = <<>>
    BY <1>2
  <2>2. n # 0 => 1 \in 1 .. n
    BY <1>2
  <2>3. n = 0 => 1 .. n = {}
    OBVIOUS
  <2> QED BY <2>1, <2>2, <2>3
<1> HIDE DEF n, P
<1>5. \A i \in P : i \in P <=> f[i] \in S
  BY <1>2 DEF OneToOne
<1>6. Cardinality(S) = n
  BY <1>2, <1>3, <1>5, SameCount
<1>7. S = {} <=> P = {}
  BY <1>2 DEF OneToOne
<1> QED BY <1>2, <1>4, <1>6, <1>7 DEF n

LEMMA CollectedPercentile ==
    ASSUME NEW t, NEW S, NEW val, Collected(t, S, val), S # {}, NEW h \in 1 .. 100,
           NEW delta, DOMAIN delta = S, \A i \in S : delta[i] = val[i]
    PROVE  /\ NearestRank(percentile(t, h), delta, h)
           /\ h = 100 => percentile(t, h) = Max(Range(delta))
<1>1. PICK f : Collects(f, t, S, val)
  BY DEF Collected
<1> DEFINE n == Len(t)
           v == percentile(t, h)
<1>2. /\ t \in Seq(Int) /\ n \in Nat /\ n # 0 /\ DOMAIN t = 1 .. n /\ OneToOne(f, 1 .. n, S)
      /\ \A i \in 1 .. n : t[i] \in Int
  <2>1. t \in Seq(Int) /\ OneToOne(f, 1 .. n, S)
    BY <1>1 DEF Collects
  <2>2. t # <<>>
    BY CollectedCount
  <2> QED BY <2>1, <2>2
<1>3. ASSUME NEW i \in 1 .. n PROVE f[i] \in S /\ t[i] = delta[f[i]]
  BY <1>1, <1>2 DEF Collects, OneToOne
<1>4. /\ v \in Int /\ NearestRank(v, t, h)
      /\ h = 100 => v \in Range(t) /\ \A i \in 1 .. n : t[i] <= v
  BY <1>2, PercentileIs
<1> HIDE DEF v, n
<1>5. NearestRank(v, delta, h)
  BY <1>2, <1>3, <1>4, SamePercentile
<1>6. ASSUME h = 100 PROVE v = Max(Range(delta))
  <2> DEFINE R == Range(delta)
  <2>1. \A x \in R : \E i \in 1 .. n : x = t[i]
    <3> SUFFICES ASSUME NEW x \in R PROVE \E i \in 1 .. n : x = t[i]
      OBVIOUS
    <3>1. PICK p \in S : x = delta[p]
      BY DEF Range
    <3>2. PICK i \in 1 .. n : f[i] = p
      BY <1>2 DEF OneToOne
    <3> QED BY <1>3, <3>1, <3>2
  <2>2. v \in R
    BY <1>5 DEF NearestRank
  <2> HIDE DEF R
  <2>3. R \subseteq Int /\ \A x \in R : x <= v
    BY <1>2, <1>4, <1>6, <2>1
  <2>4. Max(R) = v
    BY <2>2, <2>3, MaxIs
  <2> QED BY <2>4 DEF R
<1> QED BY <1>5, <1>6 DEF v

-----------------------------------------------------------------------------
(* The times of the log s, and the inductive invariant. *)

ArrivalsOf(s) == [i \in 1 .. Len(s) |-> s[i].arrival]
DeltasOf(s) == [i \in 1 .. Len(s) |-> s[i].arrival - s[i].source]
OfUtc(s) == {i \in 1 .. Len(s) : s[i].clock = "UTC"}

\* The first and the last arrival, if there is one.
Extremes(first, last, s) ==
    IF s = <<>> THEN first = Empty /\ last = Empty
    ELSE /\ first \in Int /\ last \in Int
         /\ \A i \in 1 .. Len(s) : first <= s[i].arrival /\ s[i].arrival <= last
         /\ \E i \in 1 .. Len(s) : s[i].arrival = first
         /\ \E i \in 1 .. Len(s) : s[i].arrival = last

TimingReport ==
    [streams |-> [k \in DOMAIN streams |-> finish_stream(streams[k])],
     duration |-> IF first_collector_timestamp = Empty THEN Empty
                  ELSE last_collector_timestamp - first_collector_timestamp,
     utc |-> IF utc_arrival_delta = <<>> THEN Empty ELSE distribution(utc_arrival_delta)]

\* The inductive invariant: the lists hold the times of the records they are
\* about, one for one and in file order; the report is made of them.
TimesInv ==
    /\ log \in Seq(Records)
    /\ DOMAIN streams = {StreamKey(log[i]) : i \in 1 .. Len(log)}
    /\ \A k \in DOMAIN streams :
         Collected(streams[k].collector_timestamps, OfStream(log, k), ArrivalsOf(log))
    /\ Collected(utc_arrival_delta, OfUtc(log), DeltasOf(log))
    /\ Extremes(first_collector_timestamp, last_collector_timestamp, log)
    /\ finished => report = TimingReport

LEMMA ExtremesGrow ==
    ASSUME NEW s \in Seq(Records), NEW r \in Records, NEW first, NEW last,
           Extremes(first, last, s)
    PROVE  Extremes(IF first = Empty \/ r.arrival < first THEN r.arrival ELSE first,
                    IF last = Empty \/ r.arrival > last THEN r.arrival ELSE last, Append(s, r))
<1> DEFINE t == Append(s, r)
           n == Len(s)
           a == r.arrival
           f1 == IF first = Empty \/ a < first THEN a ELSE first
           l1 == IF last = Empty \/ a > last THEN a ELSE last
<1>1. /\ t \in Seq(Records) /\ n \in Nat /\ t[n + 1] = r /\ Len(t) = n + 1
      /\ \A i \in 1 .. n : t[i] = s[i] /\ s[i] \in Records
      /\ 1 .. Len(t) = (1 .. n) \cup {n + 1}
  BY OneMore
<1>2. t # <<>> /\ a \in Int
  BY <1>1, RecordsAssumption
<1>3. \A i \in 1 .. n : s[i].arrival \in Int
  BY <1>1, RecordsAssumption
<1>4. CASE s = <<>>
  <2>1. first = Empty /\ last = Empty /\ n = 0
    BY <1>4 DEF Extremes
  <2>2. f1 = a /\ l1 = a
    BY <2>1
  <2>3. 1 .. Len(t) = {n + 1}
    BY <1>1, <2>1
  <2> HIDE DEF f1, l1, n, t
  <2>4. \A i \in 1 .. Len(t) : t[i].arrival = a
    BY <1>1, <2>3 DEF a
  <2>5. n + 1 \in 1 .. Len(t)
    BY <2>3
  <2> HIDE DEF a
  <2>6. Extremes(f1, l1, t)
    BY <1>2, <2>2, <2>4, <2>5 DEF Extremes
  <2> QED BY <2>6 DEF f1, l1, t, a
<1>5. CASE s # <<>>
  <2>1. /\ first \in Int /\ last \in Int
        /\ \A i \in 1 .. n : first <= s[i].arrival /\ s[i].arrival <= last
        /\ \E i \in 1 .. n : s[i].arrival = first
        /\ \E i \in 1 .. n : s[i].arrival = last
    BY <1>5 DEF Extremes
  <2>2. f1 = (IF a < first THEN a ELSE first) /\ l1 = (IF a > last THEN a ELSE last)
    BY <2>1, EmptyAssumption
  <2>3. /\ f1 \in Int /\ f1 <= a /\ f1 <= first /\ (f1 = a \/ f1 = first)
        /\ l1 \in Int /\ a <= l1 /\ last <= l1 /\ (l1 = a \/ l1 = last)
    <3> HIDE DEF f1, l1, a
    <3> QED BY <1>2, <2>1, <2>2
  <2>4. n + 1 \in 1 .. Len(t) /\ t[n + 1].arrival = a
    BY <1>1
  <2>5. \A i \in 1 .. n : i \in 1 .. Len(t) /\ t[i].arrival = s[i].arrival
    BY <1>1
  <2> HIDE DEF f1, l1, n, t, a
  <2>6. \A i \in 1 .. Len(t) : f1 <= t[i].arrival /\ t[i].arrival <= l1
    <3> SUFFICES ASSUME NEW i \in 1 .. Len(t) PROVE f1 <= t[i].arrival /\ t[i].arrival <= l1
      OBVIOUS
    <3>1. CASE i = n + 1
      BY <2>3, <2>4, <3>1
    <3>2. CASE i \in 1 .. n
      <4> DEFINE b == s[i].arrival
      <4>1. b \in Int /\ first <= b /\ b <= last /\ t[i].arrival = b
        BY <1>3, <2>1, <2>5, <3>2
      <4> HIDE DEF b
      <4>2. f1 <= b /\ b <= l1
        BY <2>1, <2>3, <4>1
      <4> QED BY <4>1, <4>2
    <3> QED BY <1>1, <3>1, <3>2
  <2>7. \E i \in 1 .. Len(t) : t[i].arrival = f1
    BY <2>1, <2>3, <2>4, <2>5
  <2>8. \E i \in 1 .. Len(t) : t[i].arrival = l1
    BY <2>1, <2>3, <2>4, <2>5
  <2>9. Extremes(f1, l1, t)
    BY <1>2, <2>3, <2>6, <2>7, <2>8 DEF Extremes
  <2> QED BY <2>9 DEF f1, l1, t, a
<1> QED BY <1>4, <1>5

\* What a turn adds to the positions and the values of the lists.
LEMMA TimesGrow ==
    ASSUME NEW s \in Seq(Records), NEW r \in Records
    PROVE  LET t == Append(s, r) n == Len(s) IN
           /\ n \in Nat /\ r.arrival \in Int /\ r.arrival - r.source \in Int
           /\ \A i \in 1 .. n : ArrivalsOf(t)[i] = ArrivalsOf(s)[i] /\ DeltasOf(t)[i] = DeltasOf(s)[i]
           /\ ArrivalsOf(t)[n + 1] = r.arrival
           /\ DeltasOf(t)[n + 1] = r.arrival - r.source
           /\ OfUtc(s) \subseteq 1 .. n
           /\ OfUtc(t) = IF r.clock = "UTC" THEN OfUtc(s) \cup {n + 1} ELSE OfUtc(s)
           /\ \A k : /\ OfStream(s, k) \subseteq 1 .. n
                     /\ OfStream(t, k) = IF StreamKey(r) = k THEN OfStream(s, k) \cup {n + 1}
                                         ELSE OfStream(s, k)
<1> DEFINE t == Append(s, r)
           n == Len(s)
<1>1. /\ t \in Seq(Records) /\ n \in Nat /\ t[n + 1] = r /\ Len(t) = n + 1
      /\ \A i \in 1 .. n : t[i] = s[i] /\ s[i] \in Records
      /\ 1 .. Len(t) = (1 .. n) \cup {n + 1}
  BY OneMore
<1>2. r.arrival \in Int /\ r.arrival - r.source \in Int
  BY RecordsAssumption
<1> HIDE DEF t
<1>3. \A i \in 1 .. n : ArrivalsOf(t)[i] = ArrivalsOf(s)[i] /\ DeltasOf(t)[i] = DeltasOf(s)[i]
  BY <1>1 DEF ArrivalsOf, DeltasOf
<1>4. ArrivalsOf(t)[n + 1] = r.arrival /\ DeltasOf(t)[n + 1] = r.arrival - r.source
  BY <1>1 DEF ArrivalsOf, DeltasOf
<1> HIDE DEF n
<1>5. /\ OfUtc(s) \subseteq 1 .. n
      /\ OfUtc(t) = IF r.clock = "UTC" THEN OfUtc(s) \cup {n + 1} ELSE OfUtc(s)
  BY <1>1 DEF OfUtc, n
<1>6. ASSUME NEW k
      PROVE  /\ OfStream(s, k) \subseteq 1 .. n
             /\ OfStream(t, k) = IF StreamKey(r) = k THEN OfStream(s, k) \cup {n + 1}
                                 ELSE OfStream(s, k)
  BY <1>1 DEF OfStream, n
<1> QED BY <1>1, <1>2, <1>3, <1>4, <1>5, <1>6 DEF t, n

LEMMA TimesStep ==
    ASSUME TimesInv, NEW r \in Records, AnalyzeRecord(r)
    PROVE  TimesInv'
<1> DEFINE t == Append(log, r)
           n == Len(log)
           A == ArrivalsOf(log)
           A2 == ArrivalsOf(t)
           D == DeltasOf(log)
           D2 == DeltasOf(t)
           a == r.arrival
           d == r.arrival - r.source
           U == OfUtc(log)
           k0 == StreamKey(r)
<1>0. log \in Seq(Records) /\ log' = t
  BY DEF TimesInv, AnalyzeRecord
<1>1. /\ n \in Nat /\ a \in Int /\ d \in Int
      /\ \A i \in 1 .. n : A2[i] = A[i] /\ D2[i] = D[i]
      /\ A2[n + 1] = a /\ D2[n + 1] = d
      /\ U \subseteq 1 .. n
      /\ OfUtc(t) = IF r.clock = "UTC" THEN U \cup {n + 1} ELSE U
      /\ \A k : /\ OfStream(log, k) \subseteq 1 .. n
                /\ OfStream(t, k) = IF k0 = k THEN OfStream(log, k) \cup {n + 1}
                                    ELSE OfStream(log, k)
  BY <1>0, TimesGrow
<1>2. /\ t \in Seq(Records) /\ t[n + 1] = r
      /\ \A i \in 1 .. n : t[i] = log[i]
      /\ 1 .. Len(t) = (1 .. n) \cup {n + 1}
  BY <1>0, OneMore
<1>3. DOMAIN streams = {StreamKey(log[i]) : i \in 1 .. n}
  BY DEF TimesInv
<1>4. {StreamKey(t[i]) : i \in 1 .. Len(t)} = DOMAIN streams \cup {k0}
  <2> HIDE DEF t, n
  <2> QED BY <1>2, <1>3
<1> HIDE DEF t, n, A, A2, D, D2, a, d, U, k0
<1>5. Collected(utc_arrival_delta', OfUtc(t), D2)
  <2>1. Collected(utc_arrival_delta, U, D)
    BY DEF TimesInv, U, D
  <2>2. Collected(utc_arrival_delta, U, D2) /\ Collected(Append(utc_arrival_delta, d), U \cup {n + 1}, D2)
    BY <1>1, <2>1, CollectedGrows
  <2>3. utc_arrival_delta' = IF r.clock = "UTC" THEN Append(utc_arrival_delta, d) ELSE utc_arrival_delta
    BY DEF AnalyzeRecord, d
  <2>4. CASE r.clock = "UTC"
    BY <1>1, <2>2, <2>3, <2>4
  <2>5. CASE r.clock # "UTC"
    BY <1>1, <2>2, <2>3, <2>5
  <2> QED BY <2>4, <2>5
<1>6. Extremes(first_collector_timestamp', last_collector_timestamp', t)
  <2>1. Extremes(first_collector_timestamp, last_collector_timestamp, log)
    BY DEF TimesInv
  <2>2. /\ first_collector_timestamp' =
             IF first_collector_timestamp = Empty \/ r.arrival < first_collector_timestamp
               THEN r.arrival ELSE first_collector_timestamp
        /\ last_collector_timestamp' =
             IF last_collector_timestamp = Empty \/ r.arrival > last_collector_timestamp
               THEN r.arrival ELSE last_collector_timestamp
    BY DEF AnalyzeRecord
  <2> QED BY <1>0, <2>1, <2>2, ExtremesGrow DEF t
<1> DEFINE found == Lookup(streams, k0, NewStream)
           ct == found.collector_timestamps
           value == [records |-> found.records + 1,
                     regressions |-> found.regressions + (IF Regresses(r) THEN 1 ELSE 0),
                     collector_timestamps |-> Append(ct, a)]
<1>7. streams' = Put(streams, k0, value)
  BY DEF AnalyzeRecord, k0, a
<1>8. value.collector_timestamps = Append(ct, a)
  OBVIOUS
<1> HIDE DEF value
<1>9. /\ DOMAIN streams' = DOMAIN streams \cup {k0}
      /\ \A k \in DOMAIN streams' : k = k0 => streams'[k] = value
      /\ \A k \in DOMAIN streams' : k # k0 => streams'[k] = streams[k]
  BY <1>7 DEF Put
<1>10. Collected(ct, OfStream(log, k0), A)
  <2>1. CASE k0 \in DOMAIN streams
    BY <2>1 DEF Lookup, TimesInv, A
  <2>2. CASE k0 \notin DOMAIN streams
    <3>1. OfStream(log, k0) = {}
      BY <1>3, <2>2 DEF OfStream, n
    <3>2. ct = <<>>
      BY <2>2 DEF Lookup, NewStream
    <3> HIDE DEF ct
    <3> QED BY <3>1, <3>2, NothingCollected
  <2> QED BY <2>1, <2>2
<1> HIDE DEF ct, found
<1>11. ASSUME NEW k \in DOMAIN streams'
       PROVE  Collected(streams'[k].collector_timestamps, OfStream(t, k), A2)
  <2>1. CASE k = k0
    <3>1. Collected(Append(ct, a), OfStream(log, k0) \cup {n + 1}, A2)
      BY <1>1, <1>10, CollectedGrows
    <3>2. streams'[k].collector_timestamps = Append(ct, a)
      BY <1>8, <1>9, <2>1
    <3> QED BY <1>1, <2>1, <3>1, <3>2
  <2>2. CASE k # k0
    <3> DEFINE c == streams[k].collector_timestamps
    <3>1. k \in DOMAIN streams /\ streams'[k].collector_timestamps = c
      BY <1>9, <2>2
    <3>2. Collected(c, OfStream(log, k), A)
      BY <3>1 DEF TimesInv, A
    <3> HIDE DEF c
    <3>3. Collected(c, OfStream(log, k), A2)
      BY <1>1, <3>2, CollectedGrows
    <3> QED BY <1>1, <2>2, <3>1, <3>3
  <2> QED BY <2>1, <2>2
<1>12. ~finished'
  BY DEF AnalyzeRecord
<1> QED BY <1>0, <1>2, <1>4, <1>5, <1>6, <1>9, <1>11, <1>12 DEF TimesInv, A2, D2

LEMMA TimesAreTiming ==
    ASSUME TimesInv
    PROVE  TimingAsDocumented
<1> SUFFICES ASSUME finished PROVE TimingAsDocumented
  BY DEF TimingAsDocumented
<1>0. log \in Seq(Records) /\ DOMAIN log = 1 .. Len(log) /\ Len(log) \in Nat
  BY DEF TimesInv
<1>1. report = TimingReport
  BY DEF TimesInv
<1>2. /\ report.streams = [k \in DOMAIN streams |-> finish_stream(streams[k])]
      /\ report.duration = (IF first_collector_timestamp = Empty THEN Empty
                            ELSE last_collector_timestamp - first_collector_timestamp)
      /\ report.utc = (IF utc_arrival_delta = <<>> THEN Empty ELSE distribution(utc_arrival_delta))
  BY <1>1 DEF TimingReport
<1> DEFINE A == ArrivalsOf(log)
<1>3. \A i \in DOMAIN log : A[i] = log[i].arrival
  BY <1>0 DEF ArrivalsOf
<1>4. ASSUME NEW k \in DOMAIN streams
      PROVE  LET t == report.streams[k]
                 n == Cardinality(Members(k))
                 span == Span({log[i].arrival : i \in Members(k)})
             IN  IF n < 2 THEN t = [rate |-> Empty, interarrival |-> Empty, jitter |-> Empty]
                 ELSE /\ t.rate = (IF span = 0 THEN Empty ELSE <<n - 1, span>>)
                      /\ NearestRank(t.interarrival, Intervals(k), 50)
                      /\ NearestRank(t.jitter, Deviations(k, t.interarrival), 95)
  <2> DEFINE S == OfStream(log, k)
             st == streams[k]
             t == finish_stream(st)
  <2>1. S = Members(k) /\ \A i \in S : i \in DOMAIN log
    BY <1>0 DEF OfStream, Members
  <2>2. report.streams[k] = t
    BY <1>2
  <2>3. PICK f : Collects(f, st.collector_timestamps, S, A)
    BY DEF TimesInv, Collected
  <2> HIDE DEF S, st, A
  <2>4. /\ Cardinality(S) < 2
             => t = [rate |-> Empty, interarrival |-> Empty, jitter |-> Empty]
        /\ ~(Cardinality(S) < 2)
             => /\ t.rate = (IF Span({A[i] : i \in S}) = 0 THEN Empty
                             ELSE <<Cardinality(S) - 1, Span({A[i] : i \in S})>>)
                /\ NearestRank(t.interarrival, Gaps(S, A), 50)
                /\ NearestRank(t.jitter,
                     [i \in DOMAIN Gaps(S, A) |-> Magnitude(Gaps(S, A)[i] - t.interarrival)], 95)
    BY <2>3, StreamTiming, ZenonT(40)
  <2>5. {A[i] : i \in S} = {log[i].arrival : i \in Members(k)}
    BY <1>3, <2>1
  <2>6. \A i \in S : LaterThan(S, A, i) = After(k, i)
    <3> SUFFICES ASSUME NEW i \in S PROVE LaterThan(S, A, i) = After(k, i)
      OBVIOUS
    <3>1. A[i] = log[i].arrival /\ \A j \in S : A[j] = log[j].arrival
      BY <1>3, <2>1
    <3> QED BY <2>1, <3>1 DEF LaterThan, After
  <2>7. Gaps(S, A) = Intervals(k)
    <3> DEFINE DG == {j \in S : LaterThan(S, A, j) # {}}
               DI == {j \in Members(k) : After(k, j) # {}}
    <3>1. DG = DI
      BY <2>1, <2>6
    <3>2. \A i \in DG : Min({A[j] : j \in LaterThan(S, A, i)}) - A[i]
                          = Min({log[j].arrival : j \in After(k, i)}) - log[i].arrival
      <4> SUFFICES ASSUME NEW i \in DG
                   PROVE  Min({A[j] : j \in LaterThan(S, A, i)}) - A[i]
                            = Min({log[j].arrival : j \in After(k, i)}) - log[i].arrival
        OBVIOUS
      <4>1. i \in S /\ LaterThan(S, A, i) = After(k, i) /\ A[i] = log[i].arrival
        BY <1>3, <2>1, <2>6
      <4>2. \A j \in After(k, i) : A[j] = log[j].arrival
        BY <1>3, <2>1 DEF After
      <4>3. {A[j] : j \in After(k, i)} = {log[j].arrival : j \in After(k, i)}
        BY <4>2
      <4> QED BY <4>1, <4>3
    <3> HIDE DEF DG, DI
    <3>3. Gaps(S, A) = [i \in DG |-> Min({A[j] : j \in LaterThan(S, A, i)}) - A[i]]
      BY DEF Gaps, DG
    <3>4. Intervals(k) = [i \in DI |-> Min({log[j].arrival : j \in After(k, i)}) - log[i].arrival]
      BY DEF Intervals, DI
    <3> QED BY <3>1, <3>2, <3>3, <3>4
  <2> HIDE DEF t
  <2>8. Deviations(k, t.interarrival)
          = [i \in DOMAIN Gaps(S, A) |-> Magnitude(Gaps(S, A)[i] - t.interarrival)]
    BY <2>7 DEF Deviations
  <2> QED BY <2>1, <2>2, <2>4, <2>5, <2>7, <2>8
<1>5. LET utc == {i \in DOMAIN log : log[i].clock = "UTC"}
          delta == [i \in utc |-> log[i].arrival - log[i].source]
      IN  IF utc = {} THEN report.utc = Empty
          ELSE /\ NearestRank(report.utc.p50, delta, 50)
               /\ NearestRank(report.utc.p95, delta, 95)
               /\ NearestRank(report.utc.p99, delta, 99)
               /\ report.utc.maximum = Max(Range(delta))
               /\ report.utc.samples = Cardinality(utc)
  <2> DEFINE utc == {i \in DOMAIN log : log[i].clock = "UTC"}
             delta == [i \in utc |-> log[i].arrival - log[i].source]
             D == DeltasOf(log)
             q == utc_arrival_delta
  <2>1. utc = OfUtc(log)
    BY <1>0 DEF OfUtc
  <2>2. Collected(q, utc, D)
    BY <2>1 DEF TimesInv
  <2>3. DOMAIN delta = utc /\ \A i \in utc : delta[i] = D[i]
    BY <1>0 DEF DeltasOf
  <2> HIDE DEF utc, delta, D, q
  <2>4. Cardinality(utc) = Len(q) /\ (utc = {} <=> q = <<>>)
    BY <2>2, CollectedCount
  <2>5. CASE utc = {}
    BY <1>2, <2>4, <2>5 DEF utc, q
  <2>6. CASE utc # {}
    <3>1. report.utc = distribution(q)
      BY <1>2, <2>4, <2>6 DEF q
    <3>2. /\ report.utc.p50 = percentile(q, 50) /\ report.utc.p95 = percentile(q, 95)
          /\ report.utc.p99 = percentile(q, 99) /\ report.utc.maximum = percentile(q, 100)
          /\ report.utc.samples = Len(q)
      BY <3>1 DEF distribution
    <3>3. 50 \in 1 .. 100 /\ 95 \in 1 .. 100 /\ 99 \in 1 .. 100 /\ 100 \in 1 .. 100
      OBVIOUS
    <3>4. NearestRank(percentile(q, 50), delta, 50)
      BY <2>2, <2>3, <2>6, <3>3, CollectedPercentile
    <3>5. NearestRank(percentile(q, 95), delta, 95)
      BY <2>2, <2>3, <2>6, <3>3, CollectedPercentile
    <3>6. NearestRank(percentile(q, 99), delta, 99)
      BY <2>2, <2>3, <2>6, <3>3, CollectedPercentile
    <3>7. percentile(q, 100) = Max(Range(delta))
      BY <2>2, <2>3, <2>6, <3>3, CollectedPercentile
    <3>8. /\ NearestRank(report.utc.p50, delta, 50) /\ NearestRank(report.utc.p95, delta, 95)
          /\ NearestRank(report.utc.p99, delta, 99) /\ report.utc.maximum = Max(Range(delta))
          /\ report.utc.samples = Cardinality(utc)
      BY <2>4, <3>2, <3>4, <3>5, <3>6, <3>7
    <3> QED BY <2>6, <3>8 DEF delta, utc
  <2> QED BY <2>5, <2>6
<1>6. log # <<>> => report.duration = Span({log[i].arrival : i \in DOMAIN log})
  <2> SUFFICES ASSUME log # <<>> PROVE report.duration = Span({log[i].arrival : i \in DOMAIN log})
    OBVIOUS
  <2> DEFINE V == {log[i].arrival : i \in DOMAIN log}
             first == first_collector_timestamp
             last == last_collector_timestamp
  <2>1. /\ first \in Int /\ last \in Int
        /\ \A i \in DOMAIN log : first <= log[i].arrival /\ log[i].arrival <= last
        /\ \E i \in DOMAIN log : log[i].arrival = first
        /\ \E i \in DOMAIN log : log[i].arrival = last
    BY <1>0 DEF TimesInv, Extremes
  <2>2. \A i \in DOMAIN log : log[i].arrival \in Int
    BY <1>0, RecordsAssumption
  <2>3. /\ V \subseteq Int /\ first \in V /\ last \in V
        /\ \A v \in V : first <= v /\ v <= last
    BY <2>1, <2>2
  <2>4. report.duration = last - first
    BY <1>2, <2>1, EmptyAssumption
  <2> HIDE DEF V, first, last
  <2>5. Min(V) = first
    BY <2>3, MinIs
  <2>6. Max(V) = last
    BY <2>3, MaxIs
  <2> QED BY <2>4, <2>5, <2>6 DEF Span, V
<1> QED BY <1>4, <1>5, <1>6 DEF TimingAsDocumented

\* The timing of a report is what docs/analysis.md defines for the whole log,
\* whatever order the arrivals have in the file and however streams and clocks
\* interleave: finish_stream, percentile and distribution, which sort and index,
\* against definitions that do neither.
THEOREM TimingIsTheDefinition == AnalyzerSpec => []TimingAsDocumented
<1>1. AnalyzerInit => TimesInv
  <2> SUFFICES ASSUME AnalyzerInit PROVE TimesInv
    OBVIOUS
  <2>1. log = <<>> /\ log \in Seq(Records) /\ Len(log) = 0 /\ 1 .. Len(log) = {}
    BY DEF AnalyzerInit
  <2>2. DOMAIN streams = {} /\ ~finished
    BY DEF AnalyzerInit
  <2>3. OfUtc(log) = {} /\ utc_arrival_delta = <<>>
    BY <2>1 DEF OfUtc, AnalyzerInit
  <2>4. Collected(utc_arrival_delta, OfUtc(log), DeltasOf(log))
    BY <2>3, NothingCollected
  <2>5. Extremes(first_collector_timestamp, last_collector_timestamp, log)
    BY <2>1 DEF Extremes, AnalyzerInit
  <2> QED BY <2>1, <2>2, <2>4, <2>5 DEF TimesInv
<1>2. TimesInv /\ [AnalyzerNext]_analyzerVars => TimesInv'
  <2> SUFFICES ASSUME TimesInv, [AnalyzerNext]_analyzerVars PROVE TimesInv'
    OBVIOUS
  <2>1. ASSUME NEW r \in Records, AnalyzeRecord(r) PROVE TimesInv'
    BY <2>1, TimesStep
  <2>2. CASE FinishReport
    <3>1. /\ UNCHANGED <<log, streams, utc_arrival_delta, first_collector_timestamp,
                         last_collector_timestamp>>
          /\ report' = TimingReport
      BY <2>2 DEF FinishReport, TimingReport
    <3>2. TimingReport' = TimingReport
      BY <3>1 DEF TimingReport
    <3> QED BY <3>1, <3>2 DEF TimesInv
  <2>3. CASE UNCHANGED analyzerVars
    <3>1. TimingReport' = TimingReport
      BY <2>3 DEF analyzerVars, TimingReport
    <3> QED BY <2>3, <3>1 DEF analyzerVars, TimesInv
  <2> QED BY <2>1, <2>2, <2>3 DEF AnalyzerNext
<1>3. TimesInv => TimingAsDocumented
  BY TimesAreTiming
<1> QED BY <1>1, <1>2, <1>3, PTL DEF AnalyzerSpec
=============================================================================
