------------------------ MODULE GenerateCommandProofs ------------------------
(***************************************************************************)
(* Proofs about the generate command, for any arguments, configurations,   *)
(* draws, workloads and buffer sizes.                                      *)
(*                                                                         *)
(* The publisher: as long as a stream is not over, what the collector has  *)
(* accepted followed by what is on the wire is exactly what the thread has *)
(* written; so a stream that ends in OK has everything, and the report     *)
(* tells the truth.                                                        *)
(*                                                                         *)
(* The generator: arithmetic in pieces is exact and a drifting clock never *)
(* runs backwards, so the base events are numbered without holes and, with *)
(* no jitter, in order (BaseFacts); GeneratorInv follows them through the  *)
(* drops, the duplicates and the swaps.                                    *)
(*                                                                         *)
(* Both: the collector's gaps are the generator's drops, and a clean       *)
(* workload is never refused.                                              *)
(***************************************************************************)
EXTENDS GenerateCommand, SetLemmas, SequenceTheorems

\* A sequence, of whatever.
Listed(s) == s \in Seq({s[i] : i \in DOMAIN s})

Elements == {workload[i] : i \in DOMAIN workload}

Outcomes == {"open", "OK", "RESOURCE_EXHAUSTED", "INVALID_ARGUMENT"}

PublishType ==
    /\ Listed(workload)
    /\ main \in {"idle", "call", "joining", "returned"}
    /\ thread \in [Producers -> {"none", "writing", "finishing", "done"}]
    /\ written \in [Producers -> Nat]
    /\ wire \in [Producers -> Seq(Elements)]
    /\ accepted \in [Producers -> Seq(Elements)]
    /\ half_closed \in [Producers -> BOOLEAN]
    /\ broken \in BOOLEAN
    /\ outcome \in [Producers -> Outcomes]
    /\ report = [p \in Producers |-> report[p]]

\* A stream: until it is over, accepted and wire are what was written; one that
\* ended in OK has everything.
StreamInv(p) ==
    /\ (half_closed[p] <=> thread[p] \in {"finishing", "done"})
    /\ written[p] <= Attempted(p)
    /\ ~Over(p) => accepted[p] \o wire[p] = SubSeq(EventsOf(p), 1, written[p])
    /\ Over(p) => wire[p] = <<>>
    /\ half_closed[p] /\ ~Over(p) => written[p] = Attempted(p)
    /\ outcome[p] = "OK" =>
         half_closed[p] /\ written[p] = Attempted(p) /\ accepted[p] = EventsOf(p)

\* The result of a producer, before and after its thread has stored it.
ResultInv(p) ==
    /\ report[p].status = "OK" =>
         /\ thread[p] = "done" /\ outcome[p] = "OK"
         /\ report[p].attempted = Attempted(p) /\ report[p].written = written[p]
         /\ report[p].accepted = Len(accepted[p])
    /\ report[p].status # "OK" => report[p].accepted = 0 /\ report[p].written \in Nat
    /\ thread[p] = "done" \/ main = "returned" => report[p].status # "none"

\* Before the threads are started nothing has happened.
NotStarted ==
    main \in {"idle", "call"} => \A p \in Producers : thread[p] = "none"

PublishInv ==
    /\ PublishType
    /\ NotStarted
    /\ \A p \in Producers : StreamInv(p) /\ ResultInv(p)

\* Where run_generator is, and what has been published by then.
CommandInv ==
    /\ Listed(events)
    /\ command \in {"start", "generating", "library"} =>
         main = "idle" /\ exit_code = "none"
    /\ command = "start" => ~target
    /\ command = "publishing" => target /\ exit_code = "none"
    /\ main = "idle" => workload = <<>>
    /\ exit_code = "2" => main = "idle"
    /\ exit_code = "0" => (IF target THEN main = "returned" /\ Succeeded ELSE main = "idle")

-----------------------------------------------------------------------------
(* Sequences. *)

LEMMA ListedFunction ==
    ASSUME NEW n \in Nat, NEW s, s = [i \in 1 .. n |-> s[i]]
    PROVE  Listed(s)
<1>1. DOMAIN s = 1 .. n
  OBVIOUS
<1>2. s \in [1 .. n -> {s[i] : i \in 1 .. n}]
  OBVIOUS
<1>3. s \in Seq({s[i] : i \in 1 .. n})
  BY <1>2, SeqDef
<1> QED BY <1>1, <1>3 DEF Listed

LEMMA ListedShape ==
    ASSUME NEW s, Listed(s)
    PROVE  Len(s) \in Nat /\ DOMAIN s = 1 .. Len(s) /\ s = [i \in 1 .. Len(s) |-> s[i]]
BY LenProperties DEF Listed

LEMMA ListedEmpty == Listed(<<>>)
BY EmptySeq DEF Listed

\* The thread writes its next event.
LEMMA NextWritten ==
    ASSUME NEW S, NEW e \in Seq(S), NEW a \in Seq(S), NEW w \in Seq(S), NEW n \in Nat,
           n < Len(e), a \o w = SubSeq(e, 1, n)
    PROVE  a \o Append(w, e[n + 1]) = SubSeq(e, 1, n + 1)
<1> DEFINE x == e[n + 1]
<1>1. x \in S /\ Len(e) \in Nat
  <2>1. n + 1 \in 1 .. Len(e) /\ Len(e) \in Nat
    BY LenProperties
  <2> QED BY <2>1, ElementOfSeq
<1> HIDE DEF x
<1>2. <<x>> \in Seq(S)
  BY <1>1
<1>3. Append(w, x) = w \o <<x>>
  BY <1>1, AppendIsConcat
<1>4. a \o Append(w, x) = (a \o w) \o <<x>>
  BY <1>2, <1>3, ConcatAssociative
<1>5. SubSeq(e, 1, n) \in Seq(S)
  BY <1>1, SubSeqProperties
<1>6. SubSeq(e, 1, n) \o <<x>> = Append(SubSeq(e, 1, n), x)
  BY <1>1, <1>5, AppendIsConcat
<1>7. Append(SubSeq(e, 1, n), x) = SubSeq(e, 1, n + 1)
  BY <1>1 DEF x
<1> QED BY <1>4, <1>6, <1>7 DEF x

\* The collector takes the next event.
LEMMA NextRead ==
    ASSUME NEW S, NEW a \in Seq(S), NEW w \in Seq(S), w # <<>>
    PROVE  Append(a, Head(w)) \o Tail(w) = a \o w
<1>1. Head(w) \in S /\ Tail(w) \in Seq(S) /\ <<Head(w)>> \in Seq(S)
  BY HeadTailProperties
<1>2. w = <<Head(w)>> \o Tail(w)
  BY <1>1, SMT
<1>3. Append(a, Head(w)) = a \o <<Head(w)>>
  BY <1>1, AppendIsConcat
<1> QED BY <1>1, <1>2, <1>3, ConcatAssociative

-----------------------------------------------------------------------------
(* The events of one producer. *)

OwnEvents(p, q) ==
    CHOOSE f : f = [n \in 0 .. Len(q) |->
                      IF n = 0 THEN <<>>
                      ELSE IF q[n].producer = p THEN Append(f[n - 1], q[n])
                      ELSE f[n - 1]]

LEMMA EventsAreOwn == ASSUME NEW p PROVE EventsOf(p) = OwnEvents(p, workload)[Len(workload)]
BY DEF EventsOf, OwnEvents

LEMMA SameEvents ==
    ASSUME UNCHANGED workload
    PROVE  /\ Producers' = Producers /\ Elements' = Elements
           /\ \A p : EventsOf(p)' = EventsOf(p) /\ Attempted(p)' = Attempted(p)
<1>1. Producers' = Producers /\ Elements' = Elements
  BY DEF Producers, Elements
<1>2. ASSUME NEW p PROVE EventsOf(p)' = EventsOf(p)
  BY DEF EventsOf
<1>3. ASSUME NEW p PROVE Attempted(p)' = Attempted(p)
  BY <1>2 DEF Attempted
<1> QED BY <1>1, <1>2, <1>3

LEMMA OwnUnfold ==
    ASSUME NEW p, NEW S, NEW q \in Seq(S)
    PROVE  OwnEvents(p, q) =
             [n \in 0 .. Len(q) |->
                IF n = 0 THEN <<>>
                ELSE IF q[n].producer = p THEN Append(OwnEvents(p, q)[n - 1], q[n])
                ELSE OwnEvents(p, q)[n - 1]]
<1> DEFINE Of(f, k) == f = [n \in 0 .. k |->
                              IF n = 0 THEN <<>>
                              ELSE IF q[n].producer = p THEN Append(f[n - 1], q[n])
                              ELSE f[n - 1]]
           T == {k \in 0 .. Len(q) : \E f : Of(f, k)}
<1>1. 0 \in T
  <2>1. Of([n \in {0} |-> <<>>], 0)
    OBVIOUS
  <2>2. 0 \in 0 .. Len(q)
    OBVIOUS
  <2> HIDE DEF Of
  <2> QED BY <2>1, <2>2
<1>2. ASSUME NEW k \in 0 .. Len(q), k # Len(q), k \in T PROVE k + 1 \in T
  <2>1. PICK g : Of(g, k)
    BY <1>2
  <2> DEFINE h == [n \in 0 .. k + 1 |->
                     IF n = k + 1
                     THEN IF q[n].producer = p THEN Append(g[k], q[n]) ELSE g[k]
                     ELSE g[n]]
  <2>2. ASSUME NEW n \in 0 .. k + 1
        PROVE  h[n] = IF n = 0 THEN <<>>
                      ELSE IF q[n].producer = p THEN Append(h[n - 1], q[n])
                      ELSE h[n - 1]
    <3>1. CASE n = k + 1
      <4>1. k + 1 # 0 /\ (k + 1) - 1 = k /\ k \in 0 .. k + 1 /\ k # k + 1
        OBVIOUS
      <4>2. h[k + 1] = IF q[k + 1].producer = p THEN Append(g[k], q[k + 1]) ELSE g[k]
        OBVIOUS
      <4>3. h[k] = g[k]
        BY <4>1
      <4> QED BY <3>1, <4>1, <4>2, <4>3
    <3>2. CASE n # k + 1
      <4>1. n \in 0 .. k
        BY <3>2
      <4>2. h[n] = g[n] /\ (n # 0 => n - 1 \in 0 .. k /\ h[n - 1] = g[n - 1])
        BY <3>2, <4>1
      <4>3. g[n] = IF n = 0 THEN <<>>
                   ELSE IF q[n].producer = p THEN Append(g[n - 1], q[n])
                   ELSE g[n - 1]
        BY <2>1, <4>1
      <4> QED BY <4>2, <4>3
    <3> QED BY <3>1, <3>2
  <2>3. Of(h, k + 1)
    BY <2>2
  <2>4. k + 1 \in 0 .. Len(q)
    BY <1>2
  <2> QED BY <2>3, <2>4
<1>3. \A k \in 0 .. Len(q) : k \in T
  <2> HIDE DEF T
  <2>1. Len(q) \in Nat
    OBVIOUS
  <2> QED BY <1>1, <1>2, <2>1, SetInduction
<1>4. \E f : Of(f, Len(q))
  <2>1. Len(q) \in 0 .. Len(q)
    OBVIOUS
  <2>2. Len(q) \in T
    BY <1>3, <2>1
  <2> QED BY <2>2
<1> QED BY <1>4 DEF OwnEvents

LEMMA OwnAt ==
    ASSUME NEW p, NEW S, NEW q \in Seq(S)
    PROVE  /\ OwnEvents(p, q)[0] = <<>>
           /\ \A n \in 1 .. Len(q) :
                OwnEvents(p, q)[n] = IF q[n].producer = p
                                     THEN Append(OwnEvents(p, q)[n - 1], q[n])
                                     ELSE OwnEvents(p, q)[n - 1]
<1> DEFINE f == OwnEvents(p, q)
<1>1. f = [n \in 0 .. Len(q) |->
             IF n = 0 THEN <<>>
             ELSE IF q[n].producer = p THEN Append(f[n - 1], q[n]) ELSE f[n - 1]]
  BY OwnUnfold
<1>2. Len(q) \in Nat
  OBVIOUS
<1> HIDE DEF f
<1>3. f[0] = <<>>
  BY <1>1, <1>2
<1>4. ASSUME NEW n \in 1 .. Len(q)
      PROVE  f[n] = IF q[n].producer = p THEN Append(f[n - 1], q[n]) ELSE f[n - 1]
  <2>1. n \in 0 .. Len(q) /\ n # 0
    BY <1>2
  <2> QED BY <1>1, <2>1
<1> QED BY <1>3, <1>4 DEF f

LEMMA OwnType ==
    ASSUME NEW p, NEW S, NEW q \in Seq(S)
    PROVE  OwnEvents(p, q)[Len(q)] \in Seq(S)
<1> DEFINE f == OwnEvents(p, q)
           T == {n \in 0 .. Len(q) : f[n] \in Seq(S)}
<1>1. /\ f[0] = <<>>
      /\ \A n \in 1 .. Len(q) :
           f[n] = IF q[n].producer = p THEN Append(f[n - 1], q[n]) ELSE f[n - 1]
  BY OwnAt
<1>2. Len(q) \in Nat /\ \A n \in 1 .. Len(q) : q[n] \in S
  BY LenProperties, ElementOfSeq
<1> HIDE DEF f
<1>3. 0 \in T
  <2>1. <<>> \in Seq(S)
    BY EmptySeq
  <2>2. f[0] = <<>> /\ 0 \in 0 .. Len(q)
    BY <1>1, <1>2
  <2> QED BY <2>1, <2>2
<1>4. ASSUME NEW n \in 0 .. Len(q), n # Len(q), n \in T PROVE n + 1 \in T
  <2>1. n + 1 \in 1 .. Len(q) /\ n + 1 \in 0 .. Len(q) /\ (n + 1) - 1 = n
    BY <1>2, <1>4
  <2>2. f[n + 1] = IF q[n + 1].producer = p THEN Append(f[n], q[n + 1]) ELSE f[n]
    BY <1>1, <2>1
  <2>3. f[n] \in Seq(S) /\ q[n + 1] \in S
    BY <1>2, <1>4, <2>1
  <2>4. Append(f[n], q[n + 1]) \in Seq(S)
    BY <2>3
  <2> QED BY <2>1, <2>2, <2>3, <2>4
<1>5. \A n \in 0 .. Len(q) : n \in T
  <2> HIDE DEF T
  <2> QED BY <1>2, <1>3, <1>4, SetInduction
<1> QED BY <1>2, <1>5 DEF f

LEMMA EventsType ==
    ASSUME Listed(workload), NEW p
    PROVE  EventsOf(p) \in Seq(Elements) /\ Attempted(p) \in Nat
<1>1. workload \in Seq(Elements)
  BY DEF Listed, Elements
<1>2. EventsOf(p) \in Seq(Elements)
  BY <1>1, OwnType, EventsAreOwn
<1> QED BY <1>2, LenProperties DEF Attempted

LEMMA NextEventsType ==
    ASSUME Listed(workload)', NEW p
    PROVE  EventsOf(p)' \in Seq(Elements') /\ Attempted(p)' \in Nat
<1>1. workload' \in Seq(Elements')
  BY DEF Listed, Elements
<1>2. EventsOf(p)' = OwnEvents(p, workload')[Len(workload')]
  BY DEF EventsOf, OwnEvents
<1>3. EventsOf(p)' \in Seq(Elements')
  BY <1>1, <1>2, OwnType
<1> QED BY <1>3, LenProperties DEF Attempted

-----------------------------------------------------------------------------
(* The generator makes a sequence. *)

LEMMA SwappedListed == ASSUME NEW s, NEW i, Listed(s) PROVE Listed(Swapped(s, i))
<1> DEFINE t == Swapped(s, i)
<1>1. Len(s) \in Nat /\ DOMAIN s = 1 .. Len(s)
  BY ListedShape
<1>2. t = [j \in 1 .. Len(s) |-> t[j]]
  BY <1>1 DEF Swapped
<1> HIDE DEF t
<1>3. Listed(t)
  BY <1>1, <1>2, ListedFunction
<1> QED BY <1>3 DEF t

LEMMA ConcatListed ==
    ASSUME NEW s, Listed(s), NEW k \in {1, 2}, NEW x
    PROVE  Listed(s \o [i \in 1 .. k |-> x])
<1> DEFINE S == {s[i] : i \in DOMAIN s} \cup {x}
           t == [i \in 1 .. k |-> x]
           u == s \o t
<1>1. s \in Seq(S)
  BY SeqMonotonic DEF Listed
<1>2. t \in Seq(S)
  <2>1. t \in [1 .. k -> S] /\ k \in Nat
    OBVIOUS
  <2> QED BY <2>1, SeqDef
<1>3. u \in Seq(S)
  BY <1>1, <1>2, ConcatProperties
<1> HIDE DEF u
<1>4. Len(u) \in Nat /\ u = [i \in 1 .. Len(u) |-> u[i]]
  BY <1>3, LenProperties
<1>5. Listed(u)
  BY <1>4, ListedFunction
<1> QED BY <1>5 DEF u

LEMMA GenerateListed == ASSUME Listed(events), Generate PROVE Listed(events')
<1>1. CASE Schedule \/ EndOfDrops \/ Generated
  BY <1>1 DEF Schedule, EndOfDrops, Generated
<1>2. CASE DropOrDuplicate
  <2>1. CASE UNCHANGED events
    BY <2>1
  <2>2. CASE \E again \in Chance(config.duplicate) :
               events' = events \o [i \in 1 .. IF again THEN 2 ELSE 1 |-> base_events[index]]
    <3>1. PICK again \in Chance(config.duplicate) :
            events' = events \o [i \in 1 .. IF again THEN 2 ELSE 1 |-> base_events[index]]
      BY <2>2
    <3> DEFINE k == IF again THEN 2 ELSE 1
    <3>2. k \in {1, 2}
      OBVIOUS
    <3>3. events' = events \o [i \in 1 .. k |-> base_events[index]]
      BY <3>1
    <3> HIDE DEF k
    <3> QED BY <3>2, <3>3, ConcatListed
  <2> QED BY <1>2, <2>1, <2>2 DEF DropOrDuplicate
<1>3. CASE Reorder
  <2>1. events' = Swapped(events, index) \/ events' = events
    BY <1>3 DEF Reorder
  <2> QED BY <2>1, SwappedListed
<1> QED BY <1>1, <1>2, <1>3 DEF Generate

-----------------------------------------------------------------------------
(* publish *)

\* Nothing of p's thread and stream changes.
Kept(p) ==
    /\ thread'[p] = thread[p] /\ written'[p] = written[p] /\ report'[p] = report[p]
    /\ wire'[p] = wire[p] /\ half_closed'[p] = half_closed[p]
    /\ outcome'[p] = outcome[p] /\ accepted'[p] = accepted[p]

LEMMA KeptStream ==
    ASSUME NEW p, StreamInv(p), ResultInv(p), Kept(p), UNCHANGED <<workload, main, broken>>
    PROVE  StreamInv(p)' /\ ResultInv(p)'
<1>1. EventsOf(p)' = EventsOf(p) /\ Attempted(p)' = Attempted(p)
  BY SameEvents
<1>2. Over(p)' = Over(p)
  BY DEF Over, Kept
<1>3. StreamInv(p)'
  BY <1>1, <1>2 DEF StreamInv, Kept
<1>4. ResultInv(p)'
  BY <1>1 DEF ResultInv, Kept
<1> QED BY <1>3, <1>4

\* A step of p's thread or stream keeps the invariant if it does so for p.
LEMMA OneStream ==
    ASSUME PublishInv, NEW p \in Producers, UNCHANGED <<workload, main, broken>>,
           thread'[p] = thread[p] \/ thread[p] # "none", PublishType',
           \A q \in Producers : q # p => Kept(q), StreamInv(p)', ResultInv(p)'
    PROVE  PublishInv'
<1>1. Producers' = Producers
  BY SameEvents
<1>2. ASSUME NEW q \in Producers, q # p PROVE StreamInv(q)' /\ ResultInv(q)'
  BY <1>2, KeptStream DEF PublishInv
<1>3. NotStarted'
  BY <1>1 DEF PublishInv, NotStarted, Kept
<1> QED BY <1>1, <1>2, <1>3 DEF PublishInv

LEMMA PrefixOfAll ==
    ASSUME NEW S, NEW e \in Seq(S) PROVE SubSeq(e, 1, Len(e)) = e
BY LenProperties

LEMMA PublishBegins == ASSUME PublishInit PROVE PublishInv
<1>1. Producers = {}
  BY DEF PublishInit, Producers
<1>2. PublishType
  BY <1>1, ListedEmpty DEF PublishInit, PublishType
<1>3. NotStarted
  BY <1>1 DEF NotStarted
<1> QED BY <1>1, <1>2, <1>3 DEF PublishInv

\* A call begins.
LEMMA PublishCall ==
    ASSUME NEW w, Listed(w), PublishInv, Publish(w) PROVE PublishInv'
<1> USE DEF Publish
<1>1. Listed(workload')
  OBVIOUS
<1>2. \A p : EventsOf(p)' \in Seq(Elements') /\ Attempted(p)' \in Nat
  BY <1>1, NextEventsType
<1>3. PublishType'
  <2>1. <<>> \in Seq(Elements')
    BY EmptySeq
  <2> QED BY <1>1, <2>1 DEF PublishType, PublishInv, Outcomes
<1>4. NotStarted'
  BY DEF NotStarted
<1>5. ASSUME NEW p \in Producers' PROVE StreamInv(p)' /\ ResultInv(p)'
  <2>1. /\ thread'[p] = "none" /\ written'[p] = 0 /\ report'[p] = NoResult
        /\ wire'[p] = <<>> /\ half_closed'[p] = FALSE
        /\ outcome'[p] = "open" /\ accepted'[p] = <<>>
    OBVIOUS
  <2>2. <<>> \o <<>> = <<>> /\ SubSeq(EventsOf(p)', 1, 0) = <<>>
    BY SubSeqEmpty
  <2>3. 0 <= Attempted(p)'
    BY <1>2
  <2>4. StreamInv(p)'
    <3>1. (half_closed'[p] <=> thread'[p] \in {"finishing", "done"})
      BY <2>1
    <3>2. written'[p] <= Attempted(p)'
      BY <2>1, <2>3
    <3>3. accepted'[p] \o wire'[p] = SubSeq(EventsOf(p)', 1, written'[p])
      BY <2>1, <2>2
    <3>4. ~half_closed'[p] /\ outcome'[p] # "OK" /\ wire'[p] = <<>>
      BY <2>1
    <3> QED BY <3>1, <3>2, <3>3, <3>4 DEF StreamInv
  <2>5. ResultInv(p)'
    BY <2>1 DEF ResultInv, NoResult
  <2> QED BY <2>4, <2>5
<1> QED BY <1>3, <1>4, <1>5 DEF PublishInv

\* The threads are started.
LEMMA ConnectKeeps == ASSUME PublishInv, Connect PROVE PublishInv'
<1>1. Producers' = Producers /\ Elements' = Elements
  BY SameEvents DEF Connect
<1>2. PublishType'
  BY <1>1 DEF Connect, PublishInv, PublishType, threadVars, streamVars
<1>3. NotStarted'
  BY DEF Connect, NotStarted
<1>4. ASSUME NEW p \in Producers PROVE StreamInv(p)' /\ ResultInv(p)'
  <2>1. /\ EventsOf(p)' = EventsOf(p) /\ Attempted(p)' = Attempted(p)
        /\ UNCHANGED <<written, report, wire, half_closed, broken, outcome, accepted>>
    BY SameEvents DEF Connect, streamVars
  <2>2. thread[p] = "none" /\ thread'[p] = "writing" /\ main' = "joining"
    BY <1>4 DEF Connect, PublishInv, NotStarted
  <2>3. StreamInv(p) /\ ResultInv(p)
    BY DEF PublishInv
  <2>4. Over(p)' = Over(p)
    BY <2>1 DEF Over
  <2>5. ~half_closed[p] /\ report[p].status # "OK"
    BY <2>2, <2>3 DEF StreamInv, ResultInv
  <2>6. StreamInv(p)'
    BY <2>1, <2>2, <2>3, <2>4, <2>5 DEF StreamInv
  <2>7. ResultInv(p)'
    BY <2>1, <2>2, <2>3, <2>5 DEF ResultInv
  <2> QED BY <2>6, <2>7
<1> QED BY <1>1, <1>2, <1>3, <1>4 DEF PublishInv

\* Everybody is reported as unavailable.
LEMMA TimeoutKeeps == ASSUME PublishInv, ConnectTimesOut PROVE PublishInv'
<1>1. Producers' = Producers /\ Elements' = Elements
  BY SameEvents DEF ConnectTimesOut
<1>2. PublishType'
  BY <1>1 DEF ConnectTimesOut, PublishInv, PublishType, streamVars
<1>3. NotStarted'
  BY DEF ConnectTimesOut, NotStarted
<1>4. ASSUME NEW p \in Producers PROVE StreamInv(p)' /\ ResultInv(p)'
  <2>1. /\ EventsOf(p)' = EventsOf(p) /\ Attempted(p)' = Attempted(p)
        /\ UNCHANGED <<thread, written, wire, half_closed, broken, outcome, accepted>>
    BY SameEvents DEF ConnectTimesOut, streamVars
  <2>2. StreamInv(p)
    BY DEF PublishInv
  <2>3. Over(p)' = Over(p)
    BY <2>1 DEF Over
  <2>4. StreamInv(p)'
    BY <2>1, <2>2, <2>3 DEF StreamInv
  <2>5. /\ report'[p].status = "UNAVAILABLE" /\ report'[p].accepted = 0
        /\ report'[p].written = 0
    BY DEF ConnectTimesOut, NoResult
  <2>6. ResultInv(p)'
    BY <2>5 DEF ResultInv
  <2> QED BY <2>4, <2>6
<1> QED BY <1>1, <1>2, <1>3, <1>4 DEF PublishInv

LEMMA JoinKeeps == ASSUME PublishInv, JoinThreads PROVE PublishInv'
<1>1. Producers' = Producers /\ Elements' = Elements
  BY SameEvents DEF JoinThreads
<1>2. UNCHANGED <<thread, written, report, wire, half_closed, broken, outcome, accepted>>
  BY DEF JoinThreads, threadVars, streamVars
<1>3. PublishType'
  BY <1>1, <1>2 DEF JoinThreads, PublishInv, PublishType
<1>4. NotStarted'
  BY DEF JoinThreads, NotStarted
<1>5. ASSUME NEW p \in Producers PROVE StreamInv(p)' /\ ResultInv(p)'
  <2>1. EventsOf(p)' = EventsOf(p) /\ Attempted(p)' = Attempted(p)
    BY SameEvents DEF JoinThreads
  <2>2. StreamInv(p) /\ ResultInv(p) /\ thread[p] = "done"
    BY DEF PublishInv, JoinThreads
  <2>3. Over(p)' = Over(p)
    BY <1>2 DEF Over
  <2>4. StreamInv(p)'
    BY <1>2, <2>1, <2>2, <2>3 DEF StreamInv
  <2>5. ResultInv(p)'
    BY <1>2, <2>1, <2>2 DEF ResultInv
  <2> QED BY <2>4, <2>5
<1> QED BY <1>1, <1>3, <1>4, <1>5 DEF PublishInv

\* The connection is lost.
LEMMA BreakKeeps == ASSUME PublishInv, Break PROVE PublishInv'
<1>1. Producers' = Producers /\ Elements' = Elements
  BY SameEvents DEF Break
<1>2. UNCHANGED <<main, thread, written, report, half_closed, outcome, accepted>> /\ broken'
  BY DEF Break, threadVars
<1>3. PublishType'
  BY <1>1, <1>2, EmptySeq DEF Break, PublishInv, PublishType
<1>4. NotStarted'
  BY <1>1, <1>2 DEF NotStarted, PublishInv
<1>5. ASSUME NEW p \in Producers PROVE StreamInv(p)' /\ ResultInv(p)'
  <2>1. EventsOf(p)' = EventsOf(p) /\ Attempted(p)' = Attempted(p)
    BY SameEvents DEF Break
  <2>2. StreamInv(p) /\ ResultInv(p)
    BY DEF PublishInv
  <2>3. Over(p)' /\ wire'[p] = <<>>
    BY <1>2 DEF Over, Break
  <2>4. StreamInv(p)'
    BY <1>2, <2>1, <2>2, <2>3 DEF StreamInv
  <2>5. ResultInv(p)'
    BY <1>2, <2>1, <2>2 DEF ResultInv
  <2> QED BY <2>4, <2>5
<1> QED BY <1>1, <1>3, <1>4, <1>5 DEF PublishInv

-----------------------------------------------------------------------------
(* A thread and its stream *)

LEMMA WriteKeeps ==
    ASSUME PublishInv, NEW p \in Producers, WriteSucceeds(p) PROVE PublishInv'
<1>1. /\ UNCHANGED <<workload, main, thread, report, half_closed, broken, outcome, accepted>>
      /\ thread[p] = "writing" /\ written[p] < Attempted(p)
      /\ written' = [written EXCEPT ![p] = @ + 1]
  BY DEF WriteSucceeds
<1>2. /\ Producers' = Producers /\ Elements' = Elements
      /\ EventsOf(p)' = EventsOf(p) /\ Attempted(p)' = Attempted(p)
  BY <1>1, SameEvents
<1>3. PublishType /\ StreamInv(p) /\ ResultInv(p)
  BY DEF PublishInv
<1>4. /\ EventsOf(p) \in Seq(Elements) /\ Attempted(p) \in Nat
      /\ Attempted(p) = Len(EventsOf(p))
  BY <1>3, EventsType DEF PublishType, Attempted
<1>5. /\ written[p] \in Nat /\ written'[p] = written[p] + 1
      /\ wire[p] \in Seq(Elements) /\ accepted[p] \in Seq(Elements)
  BY <1>1, <1>3 DEF PublishType
<1> DEFINE e == EventsOf(p)[written[p] + 1]
<1>6. e \in Elements
  <2>1. written[p] + 1 \in 1 .. Len(EventsOf(p))
    BY <1>1, <1>4, <1>5
  <2> QED BY <1>4, <2>1, ElementOfSeq
<1>7. \/ ~Over(p) /\ wire' = [wire EXCEPT ![p] = Append(@, e)]
      \/ Over(p) /\ UNCHANGED wire
  BY DEF WriteSucceeds
<1> HIDE DEF e
<1>8. wire' \in [Producers -> Seq(Elements)]
  <2>1. Append(wire[p], e) \in Seq(Elements)
    BY <1>5, <1>6
  <2> QED BY <1>3, <1>7, <2>1 DEF PublishType
<1>9. PublishType'
  BY <1>1, <1>2, <1>3, <1>8 DEF PublishType
<1>10. \A q \in Producers : q # p => Kept(q)
  BY <1>1, <1>3, <1>7 DEF PublishType, Kept
<1>11. Over(p)' = Over(p)
  BY <1>1 DEF Over
<1>12. StreamInv(p)'
  <2>1. ~half_closed[p] /\ outcome[p] # "OK"
    BY <1>1, <1>3 DEF StreamInv
  <2>2. written'[p] <= Attempted(p)'
    BY <1>1, <1>2, <1>4, <1>5
  <2>3. CASE Over(p)
    <3>1. wire'[p] = <<>>
      BY <1>3, <1>7, <2>3 DEF StreamInv
    <3> QED BY <1>1, <1>3, <1>11, <2>1, <2>2, <2>3, <3>1 DEF StreamInv
  <2>4. CASE ~Over(p)
    <3>1. wire'[p] = Append(wire[p], e)
      BY <1>3, <1>7, <2>4 DEF PublishType
    <3>2. accepted[p] \o wire[p] = SubSeq(EventsOf(p), 1, written[p])
      BY <1>3, <2>4 DEF StreamInv
    <3>3. accepted[p] \o Append(wire[p], e) = SubSeq(EventsOf(p), 1, written[p] + 1)
      BY <1>1, <1>4, <1>5, <3>2, NextWritten DEF e
    <3>4. (accepted[p] \o wire[p])' = SubSeq(EventsOf(p), 1, written[p])'
      BY <1>1, <1>2, <1>5, <3>1, <3>3
    <3> QED BY <1>1, <1>3, <1>11, <2>1, <2>2, <2>4, <3>4 DEF StreamInv
  <2> QED BY <2>3, <2>4
<1>13. ResultInv(p)'
  BY <1>1, <1>3 DEF ResultInv
<1> QED BY <1>1, <1>9, <1>10, <1>12, <1>13, OneStream

LEMMA EndOfWritesKeeps ==
    ASSUME PublishInv, NEW p \in Producers, WriteFails(p) \/ WritesDone(p) PROVE PublishInv'
<1>1. /\ UNCHANGED <<workload, main, written, report, wire, broken, outcome, accepted>>
      /\ thread[p] = "writing" /\ (Over(p) \/ written[p] = Attempted(p))
      /\ thread' = [thread EXCEPT ![p] = "finishing"]
      /\ half_closed' = [half_closed EXCEPT ![p] = TRUE]
  BY DEF WriteFails, WritesDone, EndOfWrites
<1>2. /\ Producers' = Producers /\ Elements' = Elements
      /\ EventsOf(p)' = EventsOf(p) /\ Attempted(p)' = Attempted(p)
  BY <1>1, SameEvents
<1>3. PublishType /\ StreamInv(p) /\ ResultInv(p)
  BY DEF PublishInv
<1>4. PublishType'
  BY <1>1, <1>2, <1>3 DEF PublishType
<1>5. \A q \in Producers : q # p => Kept(q)
  BY <1>1, <1>3 DEF PublishType, Kept
<1>6. Over(p)' = Over(p)
  BY <1>1 DEF Over
<1>7. thread'[p] = "finishing" /\ half_closed'[p]
  BY <1>1, <1>3 DEF PublishType
<1>8. StreamInv(p)'
  BY <1>1, <1>2, <1>3, <1>6, <1>7 DEF StreamInv
<1>9. ResultInv(p)'
  BY <1>1, <1>2, <1>3, <1>7 DEF ResultInv
<1> QED BY <1>1, <1>4, <1>5, <1>8, <1>9, OneStream

LEMMA FinishKeeps ==
    ASSUME PublishInv, NEW p \in Producers, Finish(p) PROVE PublishInv'
<1>1. /\ UNCHANGED <<workload, main, written, wire, half_closed, broken, outcome, accepted>>
      /\ thread[p] = "finishing"
      /\ thread' = [thread EXCEPT ![p] = "done"]
  BY DEF Finish, streamVars
<1>2. PICK status \in Statuses(p) : report' = [report EXCEPT ![p] = ResultOf(p, status)]
  BY DEF Finish
<1>3. /\ Producers' = Producers /\ Elements' = Elements
      /\ EventsOf(p)' = EventsOf(p) /\ Attempted(p)' = Attempted(p)
  BY <1>1, SameEvents
<1>4. PublishType /\ StreamInv(p) /\ ResultInv(p)
  BY DEF PublishInv
<1>5. PublishType'
  BY <1>1, <1>2, <1>3, <1>4 DEF PublishType
<1>6. \A q \in Producers : q # p => Kept(q)
  BY <1>1, <1>2, <1>4 DEF PublishType, Kept
<1>7. Over(p)' = Over(p)
  BY <1>1 DEF Over
<1>8. thread'[p] = "done" /\ report'[p] = ResultOf(p, status)
  BY <1>1, <1>2, <1>4 DEF PublishType
<1>9. StreamInv(p)'
  BY <1>1, <1>3, <1>4, <1>7, <1>8 DEF StreamInv
<1>10. ResultInv(p)'
  <2>1. status # "none" /\ (status = "OK" => outcome[p] = "OK")
    BY <1>4 DEF Statuses, PublishType, Outcomes
  <2>2. /\ report'[p].status = status /\ report'[p].attempted = Attempted(p)
        /\ report'[p].written = written[p]
        /\ status = "OK" => report'[p].accepted = Len(accepted[p])
        /\ status # "OK" => report'[p].accepted = 0
    BY <1>8 DEF ResultOf
  <2>3. written[p] \in Nat
    BY <1>4 DEF PublishType
  <2> QED BY <1>1, <1>3, <1>8, <2>1, <2>2, <2>3 DEF ResultInv
<1> QED BY <1>1, <1>5, <1>6, <1>9, <1>10, OneStream

\* The collector takes an event, or ends the stream with an error.
LEMMA ReadKeeps ==
    ASSUME PublishInv, NEW p \in Producers, CollectorReads(p) PROVE PublishInv'
<1>1. /\ UNCHANGED <<workload, main, thread, written, report, half_closed, broken>>
      /\ outcome[p] = "open" /\ wire[p] # <<>>
  BY DEF CollectorReads, threadVars
<1>2. /\ Producers' = Producers /\ Elements' = Elements
      /\ EventsOf(p)' = EventsOf(p) /\ Attempted(p)' = Attempted(p)
  BY <1>1, SameEvents
<1>3. PublishType /\ StreamInv(p) /\ ResultInv(p)
  BY DEF PublishInv
<1>4. ~Over(p) /\ report[p].status # "OK"
  BY <1>1, <1>3 DEF StreamInv, ResultInv
<1>5. wire[p] \in Seq(Elements) /\ accepted[p] \in Seq(Elements)
  BY <1>3 DEF PublishType
<1>6. Head(wire[p]) \in Elements /\ Tail(wire[p]) \in Seq(Elements)
  BY <1>1, <1>5, HeadTailProperties
<1>7. CASE /\ accepted' = [accepted EXCEPT ![p] = Append(@, Head(wire[p]))]
           /\ wire' = [wire EXCEPT ![p] = Tail(@)]
           /\ UNCHANGED outcome
  <2>1. Append(accepted[p], Head(wire[p])) \in Seq(Elements)
    BY <1>5, <1>6
  <2>2. accepted' \in [Producers -> Seq(Elements)] /\ wire' \in [Producers -> Seq(Elements)]
    BY <1>3, <1>6, <1>7, <2>1 DEF PublishType
  <2>3. PublishType'
    BY <1>1, <1>2, <1>3, <1>7, <2>2 DEF PublishType
  <2>4. \A q \in Producers : q # p => Kept(q)
    BY <1>1, <1>3, <1>7 DEF PublishType, Kept
  <2>5. Over(p)' = Over(p)
    BY <1>1, <1>7 DEF Over
  <2>6. accepted'[p] = Append(accepted[p], Head(wire[p])) /\ wire'[p] = Tail(wire[p])
    BY <1>3, <1>7 DEF PublishType
  <2>7. accepted'[p] \o wire'[p] = accepted[p] \o wire[p]
    BY <1>1, <1>5, <2>6, NextRead
  <2>8. accepted[p] \o wire[p] = SubSeq(EventsOf(p), 1, written[p])
    BY <1>3, <1>4 DEF StreamInv
  <2>9. (accepted[p] \o wire[p])' = SubSeq(EventsOf(p), 1, written[p])'
    BY <1>1, <1>2, <2>7, <2>8
  <2>10. outcome'[p] = "open"
    BY <1>1, <1>7
  <2>11. StreamInv(p)'
    BY <1>1, <1>2, <1>3, <1>4, <2>5, <2>9, <2>10 DEF StreamInv
  <2>12. ResultInv(p)'
    BY <1>1, <1>3, <1>4 DEF ResultInv
  <2> QED BY <1>1, <2>3, <2>4, <2>11, <2>12, OneStream
<1>8. ASSUME NEW status \in {"RESOURCE_EXHAUSTED", "INVALID_ARGUMENT"},
             outcome' = [outcome EXCEPT ![p] = status],
             wire' = [wire EXCEPT ![p] = <<>>], UNCHANGED accepted
      PROVE  PublishInv'
  <2>1. wire' \in [Producers -> Seq(Elements)] /\ outcome' \in [Producers -> Outcomes]
    BY <1>3, <1>8, EmptySeq DEF PublishType, Outcomes
  <2>2. PublishType'
    BY <1>1, <1>2, <1>3, <1>8, <2>1 DEF PublishType
  <2>3. \A q \in Producers : q # p => Kept(q)
    BY <1>1, <1>3, <1>8 DEF PublishType, Kept
  <2>4. outcome'[p] = status /\ wire'[p] = <<>>
    BY <1>3, <1>8 DEF PublishType
  <2>5. Over(p)' /\ outcome'[p] # "OK"
    BY <2>4 DEF Over
  <2>6. StreamInv(p)'
    BY <1>1, <1>2, <1>3, <2>4, <2>5 DEF StreamInv
  <2>7. ResultInv(p)'
    BY <1>1, <1>3, <1>4 DEF ResultInv
  <2> QED BY <1>1, <2>2, <2>3, <2>6, <2>7, OneStream
<1> QED BY <1>7, <1>8 DEF CollectorReads

\* The collector has read everything and answers OK.
LEMMA FinishedKeeps ==
    ASSUME PublishInv, NEW p \in Producers, CollectorFinishes(p) PROVE PublishInv'
<1>1. /\ UNCHANGED <<workload, main, thread, written, report, wire, half_closed, broken, accepted>>
      /\ outcome[p] = "open" /\ half_closed[p] /\ wire[p] = <<>> /\ ~broken
      /\ outcome' = [outcome EXCEPT ![p] = "OK"]
  BY DEF CollectorFinishes, threadVars
<1>2. /\ Producers' = Producers /\ Elements' = Elements
      /\ EventsOf(p)' = EventsOf(p) /\ Attempted(p)' = Attempted(p)
  BY <1>1, SameEvents
<1>3. PublishType /\ StreamInv(p) /\ ResultInv(p)
  BY DEF PublishInv
<1>4. PublishType'
  BY <1>1, <1>2, <1>3 DEF PublishType, Outcomes
<1>5. \A q \in Producers : q # p => Kept(q)
  BY <1>1, <1>3 DEF PublishType, Kept
<1>6. ~Over(p) /\ report[p].status # "OK"
  BY <1>1, <1>3 DEF Over, ResultInv
<1>7. /\ written[p] = Attempted(p)
      /\ accepted[p] \o wire[p] = SubSeq(EventsOf(p), 1, written[p])
  BY <1>1, <1>3, <1>6 DEF StreamInv
<1>8. accepted[p] = EventsOf(p)
  <2>1. accepted[p] \in Seq(Elements) /\ EventsOf(p) \in Seq(Elements)
    BY <1>3, EventsType DEF PublishType
  <2>2. accepted[p] \o wire[p] = accepted[p]
    BY <1>1, <2>1, ConcatEmptySeq
  <2> QED BY <1>7, <2>1, <2>2, PrefixOfAll DEF Attempted
<1>9. Over(p)' /\ outcome'[p] = "OK"
  BY <1>1, <1>3 DEF Over, PublishType
<1>10. StreamInv(p)'
  BY <1>1, <1>2, <1>3, <1>7, <1>8, <1>9 DEF StreamInv
<1>11. ResultInv(p)'
  BY <1>1, <1>3, <1>6 DEF ResultInv
<1> QED BY <1>1, <1>4, <1>5, <1>10, <1>11, OneStream

LEMMA PublishStep == ASSUME PublishInv, PublishNext PROVE PublishInv'
<1>1. ASSUME NEW p \in Producers, PublisherThread(p) PROVE PublishInv'
  BY <1>1, WriteKeeps, EndOfWritesKeeps, FinishKeeps DEF PublisherThread
<1>2. ASSUME NEW p \in Producers, Collector(p) PROVE PublishInv'
  BY <1>2, ReadKeeps, FinishedKeeps DEF Collector
<1> QED BY <1>1, <1>2, ConnectKeeps, TimeoutKeeps, JoinKeeps, BreakKeeps DEF PublishNext

LEMMA PublishStutter == ASSUME PublishInv, UNCHANGED publishVars PROVE PublishInv'
<1>1. /\ UNCHANGED <<workload, main, broken>>
      /\ UNCHANGED <<thread, written, report, wire, half_closed, outcome, accepted>>
  BY DEF publishVars, threadVars, streamVars
<1>2. Producers' = Producers /\ Elements' = Elements
  BY <1>1, SameEvents
<1>3. PublishType' /\ NotStarted'
  BY <1>1, <1>2 DEF PublishInv, PublishType, NotStarted
<1>4. ASSUME NEW p \in Producers PROVE StreamInv(p)' /\ ResultInv(p)'
  BY <1>1, KeptStream DEF PublishInv, Kept
<1> QED BY <1>2, <1>3, <1>4 DEF PublishInv

-----------------------------------------------------------------------------
(* The command *)

LEMMA NotIdle == ASSUME CommandInv, PublishNext PROVE main # "idle"
<1>1. SUFFICES ASSUME main = "idle" PROVE FALSE
  OBVIOUS
<1>2. Producers = {}
  BY <1>1 DEF CommandInv, Producers
<1> QED BY <1>1, <1>2 DEF PublishNext, Connect, ConnectTimesOut, JoinThreads, Break

LEMMA NeverIdleAgain == ASSUME CommandInv, PublishNext PROVE main' # "idle"
<1>1. main # "idle"
  BY NotIdle
<1>2. ASSUME NEW p, PublisherThread(p) \/ Collector(p) PROVE UNCHANGED main
  BY <1>2 DEF PublisherThread, Collector, WriteSucceeds, WriteFails, WritesDone, EndOfWrites,
              Finish, CollectorReads, CollectorFinishes
<1> QED BY <1>1, <1>2 DEF PublishNext, Connect, ConnectTimesOut, JoinThreads, Break

\* A report of success does not change any more.
LEMMA SuccessStays ==
    ASSUME PublishInv, PublishNext, main = "returned", Succeeded
    PROVE  main' = "returned" /\ Succeeded'
<1>1. PICK p \in Producers : PublisherThread(p) \/ Collector(p)
  BY DEF PublishNext, Connect, ConnectTimesOut, JoinThreads, Break
<1>2. ~Finish(p)
  <2>1. report[p].status = "OK" /\ ResultInv(p)
    BY DEF Succeeded, ProducerSucceeded, PublishInv
  <2> QED BY <2>1 DEF ResultInv, Finish
<1>3. UNCHANGED <<workload, main, report>>
  BY <1>1, <1>2 DEF PublisherThread, Collector, WriteSucceeds, WriteFails, WritesDone,
                    EndOfWrites, CollectorReads, CollectorFinishes, threadVars
<1>4. Producers' = Producers
  BY <1>3, SameEvents
<1> QED BY <1>3, <1>4 DEF Succeeded, ProducerSucceeded

LEMMA SuccessKept == ASSUME UNCHANGED publishVars PROVE Succeeded' <=> Succeeded
<1>1. UNCHANGED <<workload, report>>
  BY DEF publishVars, threadVars
<1>2. Producers' = Producers
  BY <1>1, SameEvents
<1> QED BY <1>1, <1>2 DEF Succeeded, ProducerSucceeded

LEMMA CommandSteps ==
    ASSUME PublishInv, CommandInv, [CommandNext]_allVars
    PROVE  PublishInv' /\ CommandInv'
<1>1. ASSUME NEW arguments \in ArgumentLists, ReadOptions(arguments)
      PROVE  PublishInv' /\ CommandInv'
  <2>1. UNCHANGED publishVars /\ UNCHANGED events /\ command = "start"
    BY <1>1 DEF ReadOptions, Construct, generatorVars
  <2>2. \/ command' = "exited" /\ exit_code' \in {"0", "2"} /\ UNCHANGED target
        \/ command' = "generating" /\ UNCHANGED exit_code
    BY <1>1 DEF ReadOptions, Exit
  <2>3. UNCHANGED <<main, workload>>
    BY <2>1 DEF publishVars
  <2> QED BY <2>1, <2>2, <2>3, PublishStutter DEF CommandInv
<1>2. ASSUME NEW c \in LibraryConfigs, CallLibrary(c) PROVE PublishInv' /\ CommandInv'
  <2>1. /\ UNCHANGED publishVars /\ UNCHANGED <<events, target, exit_code>>
        /\ command = "start" /\ command' = "library"
    BY <1>2 DEF CallLibrary, Construct
  <2>2. UNCHANGED <<main, workload>>
    BY <2>1 DEF publishVars
  <2> QED BY <2>1, <2>2, PublishStutter DEF CommandInv
<1>3. CASE Generate /\ UNCHANGED <<publishVars, commandVars>>
  <2>1. UNCHANGED <<main, workload, command, target, exit_code>>
    BY <1>3 DEF publishVars, commandVars
  <2>2. Listed(events')
    BY <1>3, GenerateListed DEF CommandInv
  <2> QED BY <1>3, <2>1, <2>2, SuccessKept, PublishStutter DEF CommandInv
<1>4. CASE ConfigRefused
  <2>1. /\ UNCHANGED publishVars /\ UNCHANGED <<events, target>>
        /\ command = "generating" /\ command' = "exited" /\ exit_code' = "2"
    BY <1>4 DEF ConfigRefused, Exit, generatorVars
  <2>2. UNCHANGED <<main, workload>>
    BY <2>1 DEF publishVars
  <2> QED BY <2>1, <2>2, PublishStutter DEF CommandInv
<1>5. CASE EndOfGeneration
  <2>1. UNCHANGED <<events, target>> /\ command = "generating"
    BY <1>5 DEF EndOfGeneration, generatorVars
  <2>2. CASE ~target /\ Exit("0") /\ UNCHANGED publishVars
    <3>1. command' = "exited" /\ exit_code' = "0" /\ UNCHANGED <<main, workload>>
      BY <2>2 DEF Exit, publishVars
    <3> QED BY <2>1, <2>2, <3>1, PublishStutter DEF CommandInv
  <2>3. CASE target /\ Publish(events) /\ command' = "publishing" /\ UNCHANGED exit_code
    <3>1. PublishInv'
      BY <2>3, PublishCall DEF CommandInv
    <3>2. main' = "call"
      BY <2>3 DEF Publish
    <3> QED BY <2>1, <2>3, <3>1, <3>2 DEF CommandInv
  <2> QED BY <1>5, <2>2, <2>3 DEF EndOfGeneration
<1>6. CASE EndOfPublish
  <2>1. /\ UNCHANGED publishVars /\ UNCHANGED <<events, target>>
        /\ command = "publishing" /\ command' = "exited" /\ main = "returned"
        /\ exit_code' = IF Succeeded THEN "0" ELSE "3"
    BY <1>6 DEF EndOfPublish, Exit, PublishStatus, generatorVars
  <2>2. UNCHANGED <<main, workload>>
    BY <2>1 DEF publishVars
  <2> QED BY <2>1, <2>2, SuccessKept, PublishStutter DEF CommandInv
<1>7. CASE PublishNext /\ UNCHANGED <<generatorVars, commandVars>>
  <2>1. UNCHANGED <<events, command, target, exit_code>>
    BY <1>7 DEF generatorVars, commandVars
  <2>2. PublishInv'
    BY <1>7, PublishStep
  <2>3. main # "idle" /\ main' # "idle"
    BY <1>7, NotIdle, NeverIdleAgain
  <2> QED BY <1>7, <2>1, <2>2, <2>3, SuccessStays DEF CommandInv
<1>8. CASE UNCHANGED allVars
  <2>1. UNCHANGED publishVars /\ UNCHANGED <<events, main, workload, command, target, exit_code>>
    BY <1>8 DEF allVars, generatorVars, publishVars, commandVars
  <2> QED BY <2>1, SuccessKept, PublishStutter DEF CommandInv
<1> QED BY <1>1, <1>2, <1>3, <1>4, <1>5, <1>6, <1>7, <1>8 DEF CommandNext, Command

LEMMA CommandInvariant == CommandSpec => [](PublishInv /\ CommandInv)
<1>1. ASSUME CommandInit PROVE PublishInv /\ CommandInv
  <2>1. PublishInv
    BY <1>1, PublishBegins DEF CommandInit
  <2>2. /\ events = <<>> /\ command = "start" /\ ~target /\ exit_code = "none"
        /\ main = "idle" /\ workload = <<>>
    BY <1>1 DEF CommandInit, GeneratorInit, PublishInit
  <2> QED BY <2>1, <2>2, ListedEmpty DEF CommandInv
<1> QED BY <1>1, CommandSteps, PTL DEF CommandSpec

-----------------------------------------------------------------------------
(* What the caller is told *)

LEMMA ReportFollows == PublishInv => ReportTruthful
<1> SUFFICES ASSUME PublishInv PROVE ReportTruthful
  OBVIOUS
<1>1. ASSUME NEW p \in Producers
      PROVE  /\ main = "returned" => report[p].status # "none"
             /\ report[p].status = "OK" => ProducerSucceeded(p) /\ accepted[p] = EventsOf(p)
             /\ report[p].accepted \in {0, Len(accepted[p])}
             /\ report[p].accepted <= report[p].written
  <2>1. StreamInv(p) /\ ResultInv(p) /\ PublishType
    BY DEF PublishInv
  <2>2. main = "returned" => report[p].status # "none"
    BY <2>1 DEF ResultInv
  <2>3. CASE report[p].status = "OK"
    <3>1. /\ outcome[p] = "OK" /\ report[p].attempted = Attempted(p)
          /\ report[p].written = written[p] /\ report[p].accepted = Len(accepted[p])
      BY <2>1, <2>3 DEF ResultInv
    <3>2. written[p] = Attempted(p) /\ accepted[p] = EventsOf(p)
      BY <2>1, <3>1 DEF StreamInv
    <3>3. Len(accepted[p]) = Attempted(p)
      BY <3>2 DEF Attempted
    <3>4. ProducerSucceeded(p)
      BY <2>3, <3>1, <3>2, <3>3 DEF ProducerSucceeded
    <3>5. Attempted(p) \in Nat
      BY <2>1, EventsType DEF PublishType
    <3>6. report[p].accepted <= report[p].written
      BY <3>1, <3>2, <3>3, <3>5
    <3> QED BY <2>2, <3>1, <3>2, <3>4, <3>6
  <2>4. CASE report[p].status # "OK"
    <3>1. report[p].accepted = 0 /\ report[p].written \in Nat
      BY <2>1, <2>4 DEF ResultInv
    <3>2. report[p].accepted <= report[p].written
      BY <3>1
    <3> QED BY <2>2, <2>4, <3>1, <3>2
  <2> QED BY <2>3, <2>4
<1>2. ASSUME Succeeded, NEW p \in Producers PROVE accepted[p] = EventsOf(p)
  BY <1>1, <1>2 DEF Succeeded, ProducerSucceeded
<1> QED BY <1>1, <1>2 DEF ReportTruthful

\* The report of WorkloadPublisher::publish tells the truth for any workload,
\* however writes, refusals and a lost connection interleave: success means that
\* the collector accepted everything in order, and OK alone means success.
THEOREM ReportsTruthful == CommandSpec => []ReportTruthful
BY CommandInvariant, ReportFollows, PTL

LEMMA ExitFollows == PublishInv /\ CommandInv => ExitMeansDelivered
<1> SUFFICES ASSUME PublishInv, CommandInv PROVE ExitMeansDelivered
  OBVIOUS
<1>1. exit_code = "2" => main = "idle"
  BY DEF CommandInv
<1>2. ASSUME exit_code = "0", target
      PROVE  /\ main = "returned"
             /\ \A p \in Producers : outcome[p] = "OK" /\ accepted[p] = EventsOf(p)
  <2>1. main = "returned" /\ Succeeded
    BY <1>2 DEF CommandInv
  <2>2. ASSUME NEW p \in Producers PROVE outcome[p] = "OK" /\ accepted[p] = EventsOf(p)
    <3>1. StreamInv(p) /\ ResultInv(p)
      BY DEF PublishInv
    <3>2. report[p].status = "OK"
      BY <2>1 DEF Succeeded, ProducerSucceeded
    <3> QED BY <3>1, <3>2 DEF StreamInv, ResultInv
  <2> QED BY <2>1, <2>2
<1>3. ASSUME exit_code = "0", ~target PROVE Producers = {}
  BY <1>3 DEF CommandInv, Producers
<1> QED BY <1>1, <1>2, <1>3 DEF ExitMeansDelivered

\* The exit status of run_generator tells the truth, for any arguments: 0 after
\* a publish means that every stream ended in OK and every event was accepted, 0
\* without a target and 2 mean that nothing was sent.
THEOREM ExitDelivered == CommandSpec => []ExitMeansDelivered
BY CommandInvariant, ExitFollows, PTL

-----------------------------------------------------------------------------
(* Arithmetic. *)

\* A product that is divided in pieces, so that no step overflows, is the whole
\* product divided.
LEMMA PieceQuotient ==
    ASSUME NEW a \in Nat, NEW r \in Nat, NEW w \in Nat \ {0}
    PROVE  /\ (a \div w) * r + ((a % w) * r) \div w = (a * r) \div w
           /\ (a \div w) * r \in Nat /\ (a % w) * r \in Nat /\ a * r \in Nat
           /\ ((a % w) * r) \div w \in Nat
<1> DEFINE q == a \div w
           m == a % w
<1>1. q \in Nat /\ m \in Nat /\ a = w * q + m
  BY Division
<1> HIDE DEF q, m
<1> DEFINE y == m * r
           x == q * r
<1>2. x \in Nat /\ y \in Nat
  BY <1>1
<1>3. a * r = w * x + y
  <2>1. a * r = (w * q + m) * r
    BY <1>1
  <2>2. (w * q + m) * r = (w * q) * r + m * r
    BY <1>1
  <2>3. (w * q) * r = w * (q * r)
    BY <1>1
  <2> QED BY <2>1, <2>2, <2>3
<1> HIDE DEF x, y
<1> DEFINE p == y \div w
           s == y % w
<1>4. p \in Nat /\ s \in 0 .. w - 1 /\ y = w * p + s
  BY <1>2, Division
<1> HIDE DEF p, s
<1> DEFINE b == a * r
<1>5. b = w * (x + p) + s /\ x + p \in Nat /\ b \in Nat
  BY <1>2, <1>3, <1>4
<1> HIDE DEF b
<1>6. b \div w = x + p
  BY <1>4, <1>5, OnlyQuotient
<1> QED BY <1>2, <1>4, <1>5, <1>6 DEF q, m, x, y, p, b

\* Division keeps the order, and k times the divisor more is at most k more.
LEMMA QuotientOrder ==
    ASSUME NEW a \in Nat, NEW b \in Nat, NEW k \in Nat, NEW w \in Nat \ {0}, a <= b + w * k
    PROVE  a \div w <= (b \div w) + k /\ a \div w \in Nat /\ b \div w \in Nat
<1> DEFINE q == a \div w
           m == a % w
           p == b \div w
           s == b % w
<1>1. q \in Nat /\ m \in 0 .. w - 1 /\ a = w * q + m
  BY Division
<1>2. p \in Nat /\ s \in 0 .. w - 1 /\ b = w * p + s
  BY Division
<1> HIDE DEF q, m, p, s
<1>3. q <= p + k
  <2>1. SUFFICES ASSUME q >= p + k + 1 PROVE FALSE
    BY <1>1, <1>2
  <2>2. w * q >= w * (p + k + 1)
    BY <1>1, <1>2, <2>1
  <2>3. w * (p + k + 1) = w * p + w * k + w
    BY <1>2
  <2> DEFINE x == w * q
             y == w * p
             z == w * k
  <2>4. x \in Int /\ y \in Int /\ z \in Int
    BY <1>1, <1>2
  <2>5. x >= y + z + w /\ a = x + m /\ b = y + s /\ a <= b + z
    BY <1>1, <1>2, <2>2, <2>3
  <2> HIDE DEF x, y, z
  <2> QED BY <1>1, <1>2, <2>4, <2>5
<1> QED BY <1>1, <1>2, <1>3 DEF q, p

\* What the drifting clock shows.
LEMMA DriftIs ==
    ASSUME NEW e \in Nat, NEW d \in Int
    PROVE  /\ d >= 0 => ApplyClockDrift(e, d) = e + ((e * d) \div ProbabilityScale)
           /\ d < 0 => ApplyClockDrift(e, d) = e - ((e * (-d)) \div ProbabilityScale)
           /\ ApplyClockDrift(e, d) = e + Quotient(e * d, ProbabilityScale)
<1> DEFINE P == ProbabilityScale
           q == e \div P
           m == e % P
<1>0. P \in Nat \ {0}
  BY UnitsAssumption
<1> HIDE DEF P
<1>1. q \in Nat /\ m \in Nat
  BY <1>0, Division
<1> HIDE DEF q, m
<1>2. ApplyClockDrift(e, d) = e + q * d + Quotient(m * d, P)
  BY DEF ApplyClockDrift, q, m, P
<1>3. CASE d >= 0
  <2>1. d \in Nat /\ m * d >= 0 /\ e * d >= 0
    BY <1>1, <1>3
  <2>2. Quotient(m * d, P) = (m * d) \div P /\ Quotient(e * d, P) = (e * d) \div P
    BY <2>1 DEF Quotient
  <2>3. q * d + ((m * d) \div P) = (e * d) \div P /\ q * d \in Nat /\ ((m * d) \div P) \in Nat
    BY <1>0, <2>1, PieceQuotient DEF q, m
  <2> DEFINE x == q * d
             y == (m * d) \div P
             z == (e * d) \div P
  <2>4. x + y = z /\ x \in Nat /\ y \in Nat /\ ApplyClockDrift(e, d) = e + x + y
        /\ Quotient(e * d, P) = z
    BY <1>2, <2>2, <2>3
  <2> HIDE DEF x, y, z
  <2>5. ApplyClockDrift(e, d) = e + z
    BY <2>4
  <2> QED BY <1>3, <2>4, <2>5 DEF z, P
<1>4. CASE d < 0
  <2> DEFINE c == -d
  <2>1. c \in Nat /\ d = -c
    BY <1>4
  <2> HIDE DEF c
  <2>2. m * d = -(m * c) /\ q * d = -(q * c) /\ e * d = -(e * c)
    BY <1>1, <2>1
  <2>3. /\ q * c + ((m * c) \div P) = (e * c) \div P
        /\ q * c \in Nat /\ m * c \in Nat /\ e * c \in Nat /\ ((m * c) \div P) \in Nat
    BY <1>0, <2>1, PieceQuotient DEF q, m
  <2>4. ASSUME NEW v \in Nat PROVE Quotient(-v, P) = -(v \div P) /\ (v \div P) \in Nat
    <3>1. v \div P \in Nat
      BY <1>0, Division
    <3>2. -(-v) = v
      OBVIOUS
    <3>3. CASE v = 0
      <4>1. -v = v /\ -v >= 0
        <5>1. \A i \in Int : i >= 0 /\ i <= 0 => -i = i /\ -i >= 0
          OBVIOUS
        <5>2. v >= 0 /\ v <= 0 /\ v \in Int
          BY <3>3
        <5> QED BY <5>1, <5>2
      <4>2. v \div P = 0
        BY <1>0, <3>3
      <4>3. -(v \div P) = v \div P
        BY <4>2
      <4> QED BY <3>1, <4>1, <4>3 DEF Quotient
    <3>4. CASE v # 0
      <4>1. ~(-v >= 0)
        BY <3>4
      <4> QED BY <3>1, <3>2, <4>1 DEF Quotient
    <3> QED BY <3>3, <3>4
  <2> DEFINE x == q * c
             y == (m * c) \div P
             z == (e * c) \div P
  <2>5. Quotient(m * d, P) = -y /\ Quotient(e * d, P) = -z
    BY <2>2, <2>3, <2>4
  <2>6. x + y = z /\ x \in Nat /\ y \in Nat /\ ApplyClockDrift(e, d) = e + (-x) + (-y)
    BY <1>2, <2>2, <2>3, <2>5
  <2> HIDE DEF x, y, z
  <2>7. ApplyClockDrift(e, d) = e - z /\ ApplyClockDrift(e, d) = e + (-z)
    BY <2>6
  <2> QED BY <1>4, <2>5, <2>7 DEF z, P, c
<1> QED BY <1>3, <1>4

\* A clock with a drift between -100 % and +100 % never runs backwards.
LEMMA DriftOrder ==
    ASSUME NEW a \in Nat, NEW b \in Nat, a <= b, NEW d \in Int,
           d \in -ProbabilityScale .. ProbabilityScale
    PROVE  /\ ApplyClockDrift(a, d) \in Nat /\ ApplyClockDrift(b, d) \in Nat
           /\ ApplyClockDrift(a, d) <= ApplyClockDrift(b, d)
<1> DEFINE P == ProbabilityScale
<1>0. P \in Nat \ {0} /\ d \in -P .. P
  BY UnitsAssumption
<1>1. CASE d >= 0
  <2>0. d \in Nat /\ a * d \in Nat /\ b * d \in Nat /\ a * d <= b * d
    BY <1>1
  <2> DEFINE x == (a * d) \div P
             y == (b * d) \div P
  <2>1. ApplyClockDrift(a, d) = a + x /\ ApplyClockDrift(b, d) = b + y
    BY <1>1, DriftIs
  <2> HIDE DEF P
  <2>2. a * d <= b * d + P * 0
    BY <1>0, <2>0
  <2>3. x <= y + 0 /\ x \in Nat /\ y \in Nat
    BY <1>0, <2>0, <2>2, QuotientOrder
  <2> HIDE DEF x, y
  <2> QED BY <2>1, <2>3
<1>2. CASE d < 0
  <2> DEFINE c == -d
             x == (a * c) \div P
             y == (b * c) \div P
  <2>0. c \in Nat /\ c <= P
    BY <1>0, <1>2
  <2>1. ApplyClockDrift(a, d) = a - x /\ ApplyClockDrift(b, d) = b - y
    BY <1>2, DriftIs
  <2> HIDE DEF P, c
  <2>2. a * c \in Nat /\ b * c \in Nat
    BY <2>0
  <2>3. b * c <= a * c + P * (b - a) /\ b - a \in Nat
    <3>1. b - a \in Nat /\ b * c = a * c + (b - a) * c
      BY <2>0
    <3>2. (b - a) * c <= P * (b - a)
      BY <1>0, <2>0, <3>1
    <3> DEFINE u == (b - a) * c
               v == P * (b - a)
    <3>3. u \in Int /\ v \in Int /\ u <= v /\ b * c = a * c + u
      BY <1>0, <2>0, <3>1, <3>2
    <3> HIDE DEF u, v
    <3>4. b * c <= a * c + v
      BY <2>2, <3>3
    <3> QED BY <3>1, <3>4 DEF v
  <2>4. y <= x + (b - a) /\ x \in Nat /\ y \in Nat
    BY <1>0, <2>2, <2>3, QuotientOrder
  <2>5. a * c <= 0 + P * a /\ b * c <= 0 + P * b
    BY <1>0, <2>0
  <2>6. x <= (0 \div P) + a /\ y <= (0 \div P) + b
    BY <1>0, <2>2, <2>5, QuotientOrder
  <2>7. 0 \div P = 0
    BY <1>0
  <2> HIDE DEF x, y
  <2> QED BY <2>1, <2>4, <2>6, <2>7
<1> QED BY <1>1, <1>2

-----------------------------------------------------------------------------
(* The order of the events. *)

Names == Sensors \cup {"sim-controller"}
States == {"none", "INITIALIZING", "READY", "DEGRADED", "STOPPED"}
EventType == [producer : Names, number : Nat, state : States, timestamp : Int]

LEMMA NamesDiffer ==
    /\ \A p \in Names : NamePosition(p) \in Int
    /\ \A p, q \in Names : NamePosition(p) = NamePosition(q) => p = q
<1>1. DOMAIN ByName = 1 .. 7
  BY DEF ByName
<1>2. ASSUME NEW p \in Names PROVE \E i \in 1 .. 7 : ByName[i] = p
  BY DEF ByName, Names, Sensors
<1>3. ASSUME NEW p \in Names PROVE NamePosition(p) \in 1 .. 7 /\ ByName[NamePosition(p)] = p
  BY <1>1, <1>2 DEF NamePosition
<1> QED BY <1>3

\* No two events have the same producer and number.
Distinct(B) == \A a, b \in B : a.producer = b.producer /\ a.number = b.number => a = b

LEMMA BeforeOrders ==
    ASSUME NEW B, B \subseteq EventType, Distinct(B)
    PROVE  Orders({p \in B \X B : EventBefore(p[1], p[2])}, B)
<1> DEFINE r == {p \in B \X B : EventBefore(p[1], p[2])}
<1>1. ASSUME NEW x \in B, NEW y \in B PROVE <<x, y>> \in r <=> EventBefore(x, y)
  OBVIOUS
<1>2. ASSUME NEW x \in B
      PROVE  x.timestamp \in Int /\ x.number \in Int /\ NamePosition(x.producer) \in Int
             /\ x.producer \in Names
  BY NamesDiffer DEF EventType
<1> HIDE DEF r
<1>3. \A x \in B : <<x, x>> \notin r
  BY <1>1, <1>2 DEF EventBefore
<1>4. \A x, y, z \in B : <<x, y>> \in r /\ <<y, z>> \in r => <<x, z>> \in r
  <2> SUFFICES ASSUME NEW x \in B, NEW y \in B, NEW z \in B, EventBefore(x, y), EventBefore(y, z)
               PROVE  EventBefore(x, z)
    BY <1>1
  <2>1. /\ x.producer = y.producer => NamePosition(x.producer) = NamePosition(y.producer)
        /\ y.producer = z.producer => NamePosition(y.producer) = NamePosition(z.producer)
    OBVIOUS
  <2>2. /\ x.timestamp \in Int /\ y.timestamp \in Int /\ z.timestamp \in Int
        /\ x.number \in Int /\ y.number \in Int /\ z.number \in Int
        /\ NamePosition(x.producer) \in Int /\ NamePosition(y.producer) \in Int
        /\ NamePosition(z.producer) \in Int
    BY <1>2
  <2> QED BY <2>1, <2>2 DEF EventBefore
<1>5. \A x, y \in B : x # y => <<x, y>> \in r \/ <<y, x>> \in r
  <2> SUFFICES ASSUME NEW x \in B, NEW y \in B, x # y PROVE EventBefore(x, y) \/ EventBefore(y, x)
    BY <1>1
  <2>1. x.producer # y.producer \/ x.number # y.number
    BY DEF Distinct
  <2>2. NamePosition(x.producer) = NamePosition(y.producer) => x.producer = y.producer
    BY <1>2, NamesDiffer
  <2> QED BY <1>2, <2>1, <2>2 DEF EventBefore
<1> QED BY <1>3, <1>4, <1>5 DEF Orders, r

\* b is a workload in the order of its timestamps.
Arranged(b) ==
    /\ b \in Seq(EventType)
    /\ \A i, j \in 1 .. Len(b) : EventBefore(b[i], b[j]) <=> i < j

\* std::sort arranges the events.
LEMMA SortArranges ==
    ASSUME NEW B, IsFiniteSet(B), B \subseteq EventType, Distinct(B)
    PROVE  /\ Arranged(SortedEvents(B)) /\ Len(SortedEvents(B)) = Cardinality(B)
           /\ \A x \in B : \E i \in 1 .. Cardinality(B) : SortedEvents(B)[i] = x
           /\ \A i \in 1 .. Cardinality(B) : SortedEvents(B)[i] \in B
<1> DEFINE r == {p \in B \X B : EventBefore(p[1], p[2])}
           n == Cardinality(B)
           s == SortedEvents(B)
<1>1. Orders(r, B)
  BY BeforeOrders
<1>2. s = Ranked(B, r)
  BY DEF SortedEvents
<1>3. \A x, y \in B : <<x, y>> \in r <=> EventBefore(x, y)
  OBVIOUS
<1> HIDE DEF r
<1>4. /\ n \in Nat
      /\ s \in [1 .. n -> B]
      /\ \A x \in B : \E k \in 1 .. n : s[k] = x
      /\ \A j, k \in 1 .. n : <<s[j], s[k]>> \in r <=> j < k
  BY <1>1, <1>2, RankedSorts
<1> HIDE DEF s, n
<1>5. s \in Seq(EventType) /\ Len(s) = n
  <2>1. s \in [1 .. n -> EventType]
    BY <1>4
  <2>2. s \in Seq(EventType)
    BY <1>4, <2>1, SeqDef
  <2> QED BY <1>4, <2>2, LenProperties
<1>6. \A i, j \in 1 .. n : EventBefore(s[i], s[j]) <=> i < j
  BY <1>3, <1>4
<1>7. Arranged(s)
  BY <1>5, <1>6 DEF Arranged
<1> QED BY <1>4, <1>5, <1>7 DEF s, n

LEMMA ArrangedOnce ==
    ASSUME NEW b, Arranged(b), NEW i \in 1 .. Len(b), NEW j \in 1 .. Len(b), b[i] = b[j]
    PROVE  i = j
<1>1. Len(b) \in Nat
  BY DEF Arranged
<1>2. (EventBefore(b[i], b[j]) <=> i < j) /\ (EventBefore(b[j], b[j]) <=> j < j)
      /\ (EventBefore(b[j], b[i]) <=> j < i)
  BY DEF Arranged
<1> QED BY <1>1, <1>2

-----------------------------------------------------------------------------
(* Drops and duplicates. *)

Places(s, e) == {i \in 1 .. Len(s) : s[i] = e}
Times(b, s, n, c) == {j \in 1 .. n : Cardinality(Places(s, b[j])) = c}

\* s is what the loop has emitted of the first n events of b, of which it
\* dropped d and duplicated u.
Emission(b, s, n, d, u) ==
    /\ n \in 0 .. Len(b) /\ d \in Nat /\ u \in Nat
    /\ s \in Seq(EventType)
    /\ \A i \in 1 .. Len(s) : \E j \in 1 .. n : s[i] = b[j]
    /\ \A i \in 1 .. Len(s) - 1 : s[i] = s[i + 1] \/ EventBefore(s[i], s[i + 1])
    /\ \A j \in 1 .. n : Cardinality(Places(s, b[j])) \in 0 .. 2
    /\ d = Cardinality(Times(b, s, n, 0)) /\ u = Cardinality(Times(b, s, n, 2))
    /\ Len(s) = n - d + u

\* t is s and k more times e.
Extends(t, s, k, e) ==
    /\ t \in Seq(EventType)
    /\ Len(t) = Len(s) + k
    /\ \A i \in 1 .. Len(s) : t[i] = s[i]
    /\ \A i \in Len(s) + 1 .. Len(s) + k : t[i] = e

LEMMA EmissionGrows ==
    ASSUME NEW b, Arranged(b), NEW s, NEW n, NEW d, NEW u, Emission(b, s, n, d, u), n # Len(b),
           NEW k \in 0 .. 2, NEW t, Extends(t, s, k, b[n + 1])
    PROVE  Emission(b, t, n + 1, d + (IF k = 0 THEN 1 ELSE 0), u + (IF k = 2 THEN 1 ELSE 0))
<1> DEFINE e == b[n + 1]
           m == Len(s)
<1>1. /\ n \in 0 .. Len(b) /\ d \in Nat /\ u \in Nat /\ Len(b) \in Nat
      /\ s \in Seq(EventType) /\ t \in Seq(EventType)
      /\ n + 1 \in 1 .. Len(b) /\ n + 1 \in 0 .. Len(b) /\ n \in Nat /\ m \in Nat
      /\ Len(t) = m + k
      /\ \A i \in 1 .. m : t[i] = s[i]
      /\ \A i \in m + 1 .. m + k : t[i] = e
  <2>1. /\ n \in 0 .. Len(b) /\ d \in Nat /\ u \in Nat /\ Len(b) \in Nat
        /\ s \in Seq(EventType) /\ m \in Nat
    BY DEF Emission, Arranged
  <2>2. n + 1 \in 1 .. Len(b) /\ n + 1 \in 0 .. Len(b) /\ n \in Nat
    BY <2>1
  <2>3. /\ t \in Seq(EventType) /\ Len(t) = m + k
        /\ \A i \in 1 .. m : t[i] = s[i]
        /\ \A i \in m + 1 .. m + k : t[i] = e
    BY DEF Extends
  <2> QED BY <2>1, <2>2, <2>3
<1>2. ASSUME NEW j \in 1 .. n PROVE j \in 1 .. Len(b) /\ b[j] # e /\ EventBefore(b[j], e)
  <2>1. j \in 1 .. Len(b) /\ j < n + 1 /\ j # n + 1
    BY <1>1
  <2>2. EventBefore(b[j], e)
    BY <1>1, <2>1 DEF Arranged
  <2>3. b[j] # e
    BY <1>1, <2>1, ArrangedOnce
  <2> QED BY <2>1, <2>2, <2>3
<1>3. \A i \in 1 .. m : \E j \in 1 .. n : s[i] = b[j]
  BY DEF Emission
<1> HIDE DEF e, m
<1>4. ASSUME NEW i \in 1 .. Len(t) PROVE \E j \in 1 .. n + 1 : t[i] = b[j]
  <2>1. i \in 1 .. m \/ i \in m + 1 .. m + k
    BY <1>1
  <2>2. CASE i \in 1 .. m
    <3>1. PICK j \in 1 .. n : s[i] = b[j]
      BY <1>3, <2>2
    <3>2. j \in 1 .. n + 1 /\ t[i] = s[i]
      BY <1>1, <2>2
    <3> QED BY <3>1, <3>2
  <2>3. CASE i \in m + 1 .. m + k
    <3>1. n + 1 \in 1 .. n + 1 /\ t[i] = b[n + 1]
      BY <1>1, <2>3 DEF e
    <3> QED BY <3>1
  <2> QED BY <2>1, <2>2, <2>3
<1>5. ASSUME NEW i \in 1 .. Len(t) - 1 PROVE t[i] = t[i + 1] \/ EventBefore(t[i], t[i + 1])
  <2>0. m \in Nat
    BY <1>1
  <2>1. CASE i \in 1 .. m - 1
    <3>1. i \in 1 .. m /\ i + 1 \in 1 .. m
      BY <2>0, <2>1
    <3>2. s[i] = s[i + 1] \/ EventBefore(s[i], s[i + 1])
      BY <2>1 DEF Emission, m
    <3> QED BY <1>1, <3>1, <3>2
  <2>2. CASE i = m
    <3>1. m \in 1 .. m /\ m + 1 \in m + 1 .. m + k
      BY <1>1, <2>2, SMTT(30)
    <3>2. PICK j \in 1 .. n : s[m] = b[j]
      BY <1>3, <3>1
    <3>3. EventBefore(s[m], e)
      BY <1>2, <3>2
    <3> QED BY <1>1, <2>2, <3>1, <3>3
  <2>3. CASE i \in m + 1 .. m + k - 1
    <3>1. i \in m + 1 .. m + k /\ i + 1 \in m + 1 .. m + k
      BY <1>1, <2>3
    <3> QED BY <1>1, <3>1
  <2>4. i \in 1 .. m - 1 \/ i = m \/ i \in m + 1 .. m + k - 1
    BY <1>1
  <2> QED BY <2>1, <2>2, <2>3, <2>4
<1>6. ASSUME NEW j \in 1 .. n PROVE Places(t, b[j]) = Places(s, b[j])
  <2>1. ASSUME NEW i \in 1 .. Len(t), t[i] = b[j] PROVE i \in 1 .. m
    <3>1. i \notin m + 1 .. m + k
      BY <1>1, <1>2, <2>1
    <3> QED BY <1>1, <3>1
  <2>2. 1 .. m \subseteq 1 .. Len(t)
    BY <1>1
  <2> QED BY <1>1, <2>1, <2>2 DEF Places, m
<1>7. Places(t, e) = m + 1 .. m + k
  <2>1. ASSUME NEW i \in 1 .. m PROVE t[i] # e
    <3>1. PICK j \in 1 .. n : s[i] = b[j]
      BY <1>3
    <3> QED BY <1>1, <1>2, <3>1
  <2>2. \A i \in 1 .. Len(t) : i \in 1 .. m \/ i \in m + 1 .. m + k
    BY <1>1
  <2>3. m + 1 .. m + k \subseteq 1 .. Len(t)
    BY <1>1
  <2> QED BY <1>1, <2>1, <2>2, <2>3 DEF Places
<1>8. Cardinality(Places(t, e)) = k
  <2>1. m + 1 \in Int /\ m + k \in Int
    BY <1>1
  <2>2. Cardinality(m + 1 .. m + k) = IF m + 1 > m + k THEN 0 ELSE (m + k) - (m + 1) + 1
    BY <2>1, FS_Interval
  <2>3. (IF m + 1 > m + k THEN 0 ELSE (m + k) - (m + 1) + 1) = k
    BY <1>1
  <2> QED BY <1>7, <2>2, <2>3
<1>9. ASSUME NEW c
      PROVE  /\ Times(b, t, n + 1, c) =
                  IF k = c THEN Times(b, s, n, c) \cup {n + 1} ELSE Times(b, s, n, c)
             /\ Cardinality(Times(b, t, n + 1, c)) =
                  Cardinality(Times(b, s, n, c)) + (IF k = c THEN 1 ELSE 0)
  <2>1. 1 .. n + 1 = (1 .. n) \cup {n + 1} /\ n + 1 \notin 1 .. n
    BY <1>1
  <2>2. \A j \in 1 .. n : Cardinality(Places(t, b[j])) = Cardinality(Places(s, b[j]))
    BY <1>6
  <2>3. Cardinality(Places(t, b[n + 1])) = k
    BY <1>8 DEF e
  <2>4. Times(b, t, n + 1, c) =
          IF k = c THEN Times(b, s, n, c) \cup {n + 1} ELSE Times(b, s, n, c)
    BY <2>1, <2>2, <2>3 DEF Times
  <2>5. Times(b, s, n, c) \in SUBSET (1 .. n) /\ n + 1 \notin Times(b, s, n, c)
    BY <2>1 DEF Times
  <2>6. IsFiniteSet(1 .. n)
    BY <1>1, FS_Interval
  <2>7. IsFiniteSet(Times(b, s, n, c))
    BY <2>5, <2>6, FS_Subset
  <2>8. Cardinality(Times(b, s, n, c)) \in Nat
    BY <2>7, FS_CardinalityType
  <2>9. Cardinality(Times(b, s, n, c) \cup {n + 1}) = Cardinality(Times(b, s, n, c)) + 1
    BY <2>5, <2>7, FS_AddElement
  <2> QED BY <2>4, <2>8, <2>9
<1>10. ASSUME NEW j \in 1 .. n + 1 PROVE Cardinality(Places(t, b[j])) \in 0 .. 2
  <2>1. j \in 1 .. n \/ j = n + 1
    BY <1>1
  <2>2. CASE j \in 1 .. n
    BY <1>6, <2>2 DEF Emission
  <2>3. CASE j = n + 1
    BY <1>8, <2>3 DEF e
  <2> QED BY <2>1, <2>2, <2>3
<1> DEFINE d1 == d + (IF k = 0 THEN 1 ELSE 0)
           u1 == u + (IF k = 2 THEN 1 ELSE 0)
<1>11. d1 = Cardinality(Times(b, t, n + 1, 0)) /\ u1 = Cardinality(Times(b, t, n + 1, 2))
  <2>1. d = Cardinality(Times(b, s, n, 0)) /\ u = Cardinality(Times(b, s, n, 2))
    BY DEF Emission
  <2> QED BY <1>9, <2>1
<1>12. Len(t) = (n + 1) - d1 + u1 /\ d1 \in Nat /\ u1 \in Nat
  <2>1. m = n - d + u
    BY DEF Emission, m
  <2> QED BY <1>1, <2>1
<1> HIDE DEF d1, u1
<1>13. Emission(b, t, n + 1, d1, u1)
  BY <1>1, <1>4, <1>5, <1>10, <1>11, <1>12 DEF Emission
<1> QED BY <1>13 DEF d1, u1

\* At the end every event was dropped, kept or duplicated.
LEMMA EmissionCounts ==
    ASSUME NEW b, Arranged(b), NEW s, NEW n, NEW d, NEW u, Emission(b, s, n, d, u), n = Len(b)
    PROVE  /\ Cardinality(Times(b, s, n, 0)) + Cardinality(Times(b, s, n, 1))
                + Cardinality(Times(b, s, n, 2)) = n
           /\ Cardinality(Times(b, s, n, 0)) = d /\ Cardinality(Times(b, s, n, 2)) = u
<1> DEFINE T0 == Times(b, s, n, 0)
           T1 == Times(b, s, n, 1)
           T2 == Times(b, s, n, 2)
<1>1. n \in Nat /\ IsFiniteSet(1 .. n) /\ Cardinality(1 .. n) = n
  <2>1. n \in Nat
    BY DEF Arranged
  <2>2. 1 \in Int /\ n \in Int
    BY <2>1
  <2>3. IsFiniteSet(1 .. n)
    BY <2>2, FS_Interval
  <2>4. Cardinality(1 .. n) = IF 1 > n THEN 0 ELSE n - 1 + 1
    BY <2>2, FS_Interval
  <2> QED BY <2>1, <2>3, <2>4
<1>2. T0 \in SUBSET (1 .. n) /\ T1 \in SUBSET (1 .. n) /\ T2 \in SUBSET (1 .. n)
  BY DEF Times
<1>3. T0 \cap T1 = {} /\ (T0 \cup T1) \cap T2 = {}
  BY DEF Times
<1>4. ASSUME NEW j \in 1 .. n PROVE j \in T0 \/ j \in T1 \/ j \in T2
  <2>1. Cardinality(Places(s, b[j])) \in 0 .. 2
    BY DEF Emission
  <2> QED BY <2>1 DEF Times
<1>5. (T0 \cup T1) \cup T2 = 1 .. n
  BY <1>2, <1>4
<1> HIDE DEF T0, T1, T2
<1>6. IsFiniteSet(T0) /\ IsFiniteSet(T1) /\ IsFiniteSet(T2)
  BY <1>1, <1>2, FS_Subset
<1>7. Cardinality(T0) \in Nat /\ Cardinality(T1) \in Nat /\ Cardinality(T2) \in Nat
  BY <1>6, FS_CardinalityType
<1>8. /\ IsFiniteSet(T0 \cup T1)
      /\ Cardinality(T0 \cup T1) = Cardinality(T0) + Cardinality(T1) - Cardinality(T0 \cap T1)
  BY <1>6, FS_Union
<1>9. Cardinality((T0 \cup T1) \cup T2)
        = Cardinality(T0 \cup T1) + Cardinality(T2) - Cardinality((T0 \cup T1) \cap T2)
  BY <1>6, <1>8, FS_Union
<1>10. Cardinality(T0 \cap T1) = 0 /\ Cardinality((T0 \cup T1) \cap T2) = 0
  BY <1>3, FS_EmptySet
<1>11. Cardinality(T0) + Cardinality(T1) + Cardinality(T2) = n
  <2>1. Cardinality(T0 \cup T1) = Cardinality(T0) + Cardinality(T1)
    BY <1>7, <1>8, <1>10
  <2>2. n = Cardinality((T0 \cup T1) \cup T2)
    BY <1>1, <1>5
  <2>3. Cardinality((T0 \cup T1) \cup T2) = Cardinality(T0 \cup T1) + Cardinality(T2)
    BY <1>7, <1>9, <1>10, <2>1
  <2> QED BY <2>1, <2>2, <2>3
<1> QED BY <1>11 DEF T0, T1, T2, Emission

-----------------------------------------------------------------------------
(* Swaps. *)

\* t is s with the pairs that begin at starts swapped, all below position n.
SwapsBelow(t, s, starts, n) ==
    /\ starts \subseteq 1 .. n - 2
    /\ \A i \in starts : i + 1 \notin starts
    /\ IsFiniteSet(starts)
    /\ t = PairsSwapped(s, starts)

LEMMA SwapGrows ==
    ASSUME NEW s \in Seq(EventType), NEW n \in 1 .. Len(s), n # Len(s), NEW t, NEW starts,
           SwapsBelow(t, s, starts, n)
    PROVE  /\ SwapsBelow(Swapped(t, n), s, starts \cup {n}, n + 2)
           /\ Cardinality(starts \cup {n}) = Cardinality(starts) + 1
           /\ SwapsBelow(t, s, starts, n + 1)
<1> DEFINE more == starts \cup {n}
<1>1. Len(s) \in Nat /\ DOMAIN s = 1 .. Len(s) /\ n + 1 \in 1 .. Len(s)
  OBVIOUS
<1>2. ASSUME NEW i \in starts PROVE i \in 1 .. n - 2 /\ i # n /\ i + 1 # n /\ i # n + 1
  BY DEF SwapsBelow
<1>3. n \notin starts /\ n - 1 \notin starts /\ n + 1 \notin starts
  BY <1>2
<1>4. t = PairsSwapped(s, starts) /\ DOMAIN t = 1 .. Len(s) /\ t[n] = s[n] /\ t[n + 1] = s[n + 1]
  <2>1. t = PairsSwapped(s, starts)
    BY DEF SwapsBelow
  <2>2. (n + 1) - 1 = n
    OBVIOUS
  <2> QED BY <1>1, <1>3, <2>1, <2>2 DEF PairsSwapped
<1>5. Swapped(t, n) = PairsSwapped(s, more)
  <2>1. DOMAIN Swapped(t, n) = 1 .. Len(s) /\ DOMAIN PairsSwapped(s, more) = 1 .. Len(s)
    BY <1>1, <1>4 DEF Swapped, PairsSwapped
  <2>2. ASSUME NEW i \in 1 .. Len(s) PROVE Swapped(t, n)[i] = PairsSwapped(s, more)[i]
    <3>1. CASE i = n
      <4>1. Swapped(t, n)[n] = t[n + 1]
        BY <1>1, <1>4 DEF Swapped
      <4>2. PairsSwapped(s, more)[n] = s[n + 1]
        BY <1>1 DEF PairsSwapped
      <4> QED BY <1>4, <3>1, <4>1, <4>2
    <3>2. CASE i = n + 1
      <4>1. Swapped(t, n)[n + 1] = t[n]
        BY <1>1, <1>4 DEF Swapped
      <4>2. n + 1 \notin more /\ (n + 1) - 1 = n /\ n \in more
        BY <1>3
      <4>3. PairsSwapped(s, more)[n + 1] = s[n]
        BY <1>1, <4>2 DEF PairsSwapped
      <4> QED BY <1>4, <3>2, <4>1, <4>3
    <3>3. CASE i # n /\ i # n + 1
      <4>1. Swapped(t, n)[i] = t[i]
        BY <1>1, <1>4, <3>3 DEF Swapped
      <4>2. (i \in more <=> i \in starts) /\ (i - 1 \in more <=> i - 1 \in starts)
        BY <3>3
      <4>3. PairsSwapped(s, more)[i] = PairsSwapped(s, starts)[i]
        BY <1>1, <4>2 DEF PairsSwapped
      <4> QED BY <1>4, <4>1, <4>3
    <3> QED BY <3>1, <3>2, <3>3
  <2>3. Swapped(t, n) = [i \in 1 .. Len(s) |-> Swapped(t, n)[i]]
    BY <1>4 DEF Swapped
  <2>4. PairsSwapped(s, more) = [i \in 1 .. Len(s) |-> PairsSwapped(s, more)[i]]
    BY <1>1 DEF PairsSwapped
  <2> QED BY <2>2, <2>3, <2>4
<1>6. /\ IsFiniteSet(starts) /\ IsFiniteSet(more)
      /\ Cardinality(more) = Cardinality(starts) + 1
  BY <1>3, FS_AddElement DEF SwapsBelow
<1>7. more \subseteq 1 .. (n + 2) - 2 /\ starts \subseteq 1 .. (n + 1) - 2
  BY <1>2
<1>8. \A i \in more : i + 1 \notin more
  BY <1>2, <1>3 DEF SwapsBelow
<1>9. SwapsBelow(Swapped(t, n), s, more, n + 2)
  BY <1>5, <1>6, <1>7, <1>8 DEF SwapsBelow
<1>10. SwapsBelow(t, s, starts, n + 1)
  BY <1>7 DEF SwapsBelow
<1> QED BY <1>6, <1>9, <1>10

-----------------------------------------------------------------------------
(* The schedule. *)

LEMMA CountIs ==
    ASSUME NEW d \in Nat, NEW rate \in Nat
    PROVE  EventCount(d, rate) = (d * rate) \div Second /\ EventCount(d, rate) \in Nat
<1>1. Second \in Nat \ {0}
  BY UnitsAssumption
<1> DEFINE x == (d \div Second) * rate
           y == ((d % Second) * rate) \div Second
<1>2. x + y = (d * rate) \div Second /\ x \in Nat /\ y \in Nat
  BY <1>1, PieceQuotient
<1>3. EventCount(d, rate) = x + y
  BY DEF EventCount
<1> HIDE DEF x, y
<1> QED BY <1>2, <1>3

LEMMA TimeIs ==
    ASSUME NEW n \in Nat, NEW rate \in Nat \ {0}
    PROVE  ScheduledTime(n, rate) = (n * Second) \div rate /\ ScheduledTime(n, rate) \in Nat
<1>1. Second \in Nat
  BY UnitsAssumption
<1> DEFINE x == (n \div rate) * Second
           y == ((n % rate) * Second) \div rate
<1>2. x + y = (n * Second) \div rate /\ x \in Nat /\ y \in Nat
  BY <1>1, PieceQuotient
<1>3. ScheduledTime(n, rate) = x + y
  BY DEF ScheduledTime
<1> HIDE DEF x, y
<1> QED BY <1>2, <1>3

LEMMA TimeOrder ==
    ASSUME NEW m \in Nat, NEW n \in Nat, m <= n, NEW rate \in Nat \ {0}
    PROVE  ScheduledTime(m, rate) <= ScheduledTime(n, rate)
<1>1. Second \in Nat
  BY UnitsAssumption
<1>2. m * Second \in Nat /\ n * Second \in Nat /\ m * Second <= n * Second + rate * 0
  BY <1>1
<1>3. (m * Second) \div rate <= (n * Second) \div rate + 0 /\ (n * Second) \div rate \in Nat
      /\ (m * Second) \div rate \in Nat
  BY <1>2, QuotientOrder
<1> QED BY <1>3, TimeIs

\* The last event of a sensor is inside the duration.
LEMMA TimeInside ==
    ASSUME NEW d \in Nat, NEW rate \in Nat, NEW n \in 0 .. EventCount(d, rate) - 1
    PROVE  rate # 0 /\ ScheduledTime(n, rate) < d
<1> DEFINE q == (d * rate) \div Second
           m == (d * rate) % Second
           S == Second
<1>0. S \in Nat \ {0}
  BY UnitsAssumption
<1>1. d * rate \in Nat /\ n \in Nat /\ n + 1 <= q
  <2>1. EventCount(d, rate) = q /\ q \in Nat
    BY CountIs
  <2>2. d * rate \in Nat
    OBVIOUS
  <2> HIDE DEF q
  <2> QED BY <2>1, <2>2
<1>2. q \in Nat /\ m \in Nat /\ d * rate = S * q + m
  <2> DEFINE a == d * rate
  <2>1. a \in Nat
    BY <1>1
  <2> HIDE DEF a, S
  <2>2. (a \div S) \in Nat /\ (a % S) \in 0 .. S - 1 /\ a = S * (a \div S) + (a % S)
    BY <1>0, <2>1, Division
  <2> QED BY <2>2 DEF a, S
<1> HIDE DEF q, m, S
<1>3. S * (n + 1) <= d * rate
  <2>1. S * (n + 1) <= S * q
    BY <1>0, <1>1, <1>2
  <2> DEFINE x == S * (n + 1)
             y == S * q
  <2>2. x \in Int /\ y \in Int /\ x <= y /\ d * rate = y + m
    BY <1>0, <1>1, <1>2, <2>1
  <2> HIDE DEF x, y
  <2>3. x <= d * rate
    BY <1>2, <2>2
  <2> QED BY <2>3 DEF x
<1>4. rate # 0
  <2>1. SUFFICES ASSUME rate = 0 PROVE FALSE
    OBVIOUS
  <2>2. d * rate = 0
    BY <2>1
  <2>3. S * (n + 1) > 0
    BY <1>0, <1>1
  <2> QED BY <1>0, <1>1, <1>3, <2>2, <2>3
<1> DEFINE p == (n * S) \div rate
           r == (n * S) % rate
<1>5. n * S \in Nat /\ n * S < d * rate
  <2>1. S * (n + 1) = n * S + S /\ n * S \in Nat
    BY <1>0, <1>1
  <2> QED BY <1>0, <1>1, <1>3, <2>1
<1>6. p \in Nat /\ r \in Nat /\ n * S = rate * p + r
  <2> DEFINE a == n * S
  <2>1. a \in Nat
    BY <1>5
  <2> HIDE DEF a
  <2>2. (a \div rate) \in Nat /\ (a % rate) \in 0 .. rate - 1
        /\ a = rate * (a \div rate) + (a % rate)
    BY <1>4, <2>1, Division
  <2> QED BY <2>2 DEF a
<1> HIDE DEF p, r
<1>7. p < d
  <2>1. SUFFICES ASSUME p >= d PROVE FALSE
    BY <1>6
  <2>2. rate * p >= d * rate
    BY <1>4, <1>6, <2>1
  <2> DEFINE x == rate * p
             y == d * rate
             z == n * S
  <2>3. x \in Int /\ y \in Int /\ z \in Int /\ x >= y /\ z < y /\ z = x + r
    BY <1>1, <1>5, <1>6, <2>2
  <2> HIDE DEF x, y, z
  <2> QED BY <1>6, <2>3
<1>8. ScheduledTime(n, rate) = p
  BY <1>1, <1>4, TimeIs DEF p, S
<1> QED BY <1>4, <1>7, <1>8

\* The controller's schedule: its states from the start of the duration to its
\* end, at times that do not decrease.
LEMMA ScheduleIs ==
    ASSUME config.duration \in Nat \ {0}, NEW s \in ControllerSchedules
    PROVE  \E states \in ControllerStates :
             /\ Len(states) \in {3, 4} /\ DOMAIN s = 1 .. Len(states)
             /\ \A k \in 1 .. Len(states) :
                  s[k][2] = states[k] /\ s[k][1] \in Nat /\ s[k][1] < config.duration
             /\ \A j, k \in 1 .. Len(states) : j <= k => s[j][1] <= s[k][1]
             /\ s[Len(states)][1] = config.duration - 1
<1> DEFINE d == config.duration
           spread == Bounded(IF d \div 8 > 1 THEN d \div 8 ELSE 1)
<1>1. PICK happens \in BOOLEAN, draw \in spread, again \in spread :
        s = IF happens
            THEN <<<<0, "INITIALIZING">>, <<d \div 4 + draw, "READY">>,
                   <<(5 * d) \div 8 + again, "DEGRADED">>, <<d - 1, "STOPPED">>>>
            ELSE <<<<0, "INITIALIZING">>, <<d \div 4 + draw, "READY">>, <<d - 1, "STOPPED">>>>
  <2> DEFINE steady == {<<<<0, "INITIALIZING">>, <<d \div 4 + x, "READY">>,
                          <<d - 1, "STOPPED">>>> : x \in spread}
             degraded == {<<<<0, "INITIALIZING">>, <<d \div 4 + x, "READY">>,
                            <<(5 * d) \div 8 + y, "DEGRADED">>, <<d - 1, "STOPPED">>>> :
                            x \in spread, y \in spread}
  <2>1. s \in steady \/ s \in degraded
    BY DEF ControllerSchedules
  <2>2. CASE s \in steady
    BY <2>2
  <2>3. CASE s \in degraded
    <3>1. PICK x \in spread, y \in spread :
            s = <<<<0, "INITIALIZING">>, <<d \div 4 + x, "READY">>,
                  <<(5 * d) \div 8 + y, "DEGRADED">>, <<d - 1, "STOPPED">>>>
      BY <2>3
    <3> HIDE DEF d, spread
    <3> QED BY <3>1
  <2> QED BY <2>1, <2>2, <2>3
<1>3. d \in Nat \ {0}
  OBVIOUS
<1>4. ASSUME NEW x \in spread PROVE x \in Nat /\ (x = 0 \/ x <= d \div 8 - 1)
  BY <1>3 DEF Bounded
<1> HIDE DEF d, spread
<1>5. /\ d \div 4 + draw \in Nat /\ (5 * d) \div 8 + again \in Nat /\ d - 1 \in Nat
      /\ d \div 4 + draw <= (5 * d) \div 8 + again
      /\ d \div 4 + draw <= d - 1
      /\ (5 * d) \div 8 + again <= d - 1
  <2>1. draw \in Nat /\ (draw = 0 \/ draw <= d \div 8 - 1)
        /\ again \in Nat /\ (again = 0 \/ again <= d \div 8 - 1)
    BY <1>4
  <2> QED BY <1>3, <2>1
<1> DEFINE ready == d \div 4 + draw
           worse == (5 * d) \div 8 + again
           last == d - 1
<1>6. /\ ready \in Nat /\ worse \in Nat /\ last \in Nat /\ ready <= worse /\ worse <= last
      /\ ready <= last /\ last < d /\ d \in Nat
  BY <1>3, <1>5
<1> HIDE DEF ready, worse, last
<1>7. CASE happens
  <2> DEFINE t == <<<<0, "INITIALIZING">>, <<ready, "READY">>, <<worse, "DEGRADED">>,
                    <<last, "STOPPED">>>>
             states == <<"INITIALIZING", "READY", "DEGRADED", "STOPPED">>
  <2>2. s = t
    BY <1>1, <1>7 DEF ready, worse, last
  <2>3. Len(states) = 4 /\ DOMAIN s = 1 .. 4 /\ states \in ControllerStates
    BY <2>2 DEF ControllerStates
  <2>4. /\ s[1] = <<0, "INITIALIZING">> /\ s[2] = <<ready, "READY">>
        /\ s[3] = <<worse, "DEGRADED">> /\ s[4] = <<last, "STOPPED">>
    BY <2>2
  <2>5. \A k \in 1 .. 4 : s[k][2] = states[k]
    BY <2>4
  <2>6. s[1][1] = 0 /\ s[2][1] = ready /\ s[3][1] = worse /\ s[4][1] = last
    BY <2>4
  <2>7. \A k \in 1 .. 4 : s[k][1] \in Nat /\ s[k][1] < d
    BY <1>6, <2>6
  <2>8. \A j, k \in 1 .. 4 : j <= k => s[j][1] <= s[k][1]
    BY <1>6, <2>6
  <2> HIDE DEF t, states
  <2>9. s[4][1] = d - 1
    BY <2>6 DEF last
  <2> QED BY <2>3, <2>5, <2>7, <2>8, <2>9 DEF d
<1>8. CASE ~happens
  <2> DEFINE t == <<<<0, "INITIALIZING">>, <<ready, "READY">>, <<last, "STOPPED">>>>
             states == <<"INITIALIZING", "READY", "STOPPED">>
  <2>2. s = t
    BY <1>1, <1>8 DEF ready, last
  <2>3. Len(states) = 3 /\ DOMAIN s = 1 .. 3 /\ states \in ControllerStates
    BY <2>2 DEF ControllerStates
  <2>4. /\ s[1] = <<0, "INITIALIZING">> /\ s[2] = <<ready, "READY">>
        /\ s[3] = <<last, "STOPPED">>
    BY <2>2
  <2>5. \A k \in 1 .. 3 : s[k][2] = states[k]
    BY <2>4
  <2>6. s[1][1] = 0 /\ s[2][1] = ready /\ s[3][1] = last
    BY <2>4
  <2>7. \A k \in 1 .. 3 : s[k][1] \in Nat /\ s[k][1] < d
    BY <1>6, <2>6
  <2>8. \A j, k \in 1 .. 3 : j <= k => s[j][1] <= s[k][1]
    BY <1>6, <2>6
  <2> HIDE DEF t, states
  <2>9. s[3][1] = d - 1
    BY <2>6 DEF last
  <2> QED BY <2>3, <2>5, <2>7, <2>8, <2>9 DEF d
<1> QED BY <1>7, <1>8

SlotType == [producer : Names, number : Nat, elapsed : Nat, state : States]

\* What the constructor leaves the generator with.
Ready == ValidConfig(config) /\ config.rates \in [Sensors -> Nat]

LEMMA ReadyIs ==
    ASSUME Ready
    PROVE  /\ config.duration \in Nat \ {0} /\ config.max_jitter \in 0 .. MaxDuration
           /\ config.clock_drift \in -ProbabilityScale .. ProbabilityScale
           /\ config.clock_drift \in Int
           /\ config.max_jitter \in Nat
           /\ \A p \in Sensors : config.rates[p] \in Nat
           /\ \A p \in Sensors : EventCount(config.duration, config.rates[p]) \in Nat
<1>1. /\ config.duration \in 1 .. MaxDuration /\ config.max_jitter \in 0 .. MaxDuration
      /\ config.clock_drift \in -ProbabilityScale .. ProbabilityScale
      /\ config.rates \in [Sensors -> Nat]
  BY DEF Ready, ValidConfig
<1>2. MaxDuration \in Nat /\ ProbabilityScale \in Nat
  BY GeneratorLimitsAssumption, UnitsAssumption
<1>3. /\ config.duration \in Nat \ {0} /\ config.max_jitter \in Nat /\ config.clock_drift \in Int
      /\ \A p \in Sensors : config.rates[p] \in Nat
  BY <1>1, <1>2
<1> QED BY <1>1, <1>3, CountIs

\* The slots of one sensor: its numbers from zero, each at its period's start.
LEMMA PeriodicIs ==
    ASSUME Ready, NEW p \in Sensors
    PROVE  LET K == EventCount(config.duration, config.rates[p]) IN
           /\ IsFiniteSet(Periodic(p)) /\ K \in Nat
           /\ \A x \in Periodic(p) :
                /\ x \in SlotType /\ x.producer = p /\ x.number \in 0 .. K - 1
                /\ x.elapsed = ScheduledTime(x.number, config.rates[p])
           /\ \A n \in 0 .. K - 1 : \E x \in Periodic(p) : x.number = n
           /\ \A x, y \in Periodic(p) :
                /\ x.number = y.number => x = y
                /\ x.number <= y.number => x.elapsed <= y.elapsed
<1> DEFINE rate == config.rates[p]
           K == EventCount(config.duration, rate)
           f == [n \in 0 .. K - 1 |-> Slot(p, n, ScheduledTime(n, rate), "none")]
<1>1. config.duration \in Nat /\ rate \in Nat /\ K \in Nat
  BY ReadyIs
<1>2. Periodic(p) = {Slot(p, n, ScheduledTime(n, rate), "none") : n \in 0 .. K - 1}
  BY DEF Periodic
<1>3. ASSUME NEW n \in 0 .. K - 1
      PROVE  n \in Nat /\ rate # 0 /\ ScheduledTime(n, rate) \in Nat
  <2>1. n \in Nat
    BY <1>1
  <2>2. rate # 0
    BY <1>1, TimeInside
  <2> QED BY <1>1, <2>1, <2>2, TimeIs
<1> HIDE DEF K, rate
<1>4. ASSUME NEW n \in 0 .. K - 1
      PROVE  LET x == Slot(p, n, ScheduledTime(n, rate), "none") IN
             /\ x \in SlotType /\ x.producer = p /\ x.number = n
             /\ x.elapsed = ScheduledTime(n, rate)
  BY <1>3 DEF Slot, SlotType, Names, States
<1>5. IsFiniteSet(Periodic(p))
  <2>1. f \in Surjection(0 .. K - 1, Periodic(p))
    BY <1>2 DEF Surjection
  <2>2. 0 \in Int /\ K - 1 \in Int
    BY <1>1
  <2>3. IsFiniteSet(0 .. K - 1)
    BY <2>2, FS_Interval
  <2> QED BY <2>1, <2>3, FS_Surjection
<1>6. ASSUME NEW x \in Periodic(p)
      PROVE  /\ x \in SlotType /\ x.producer = p /\ x.number \in 0 .. K - 1
             /\ x.elapsed = ScheduledTime(x.number, rate)
             /\ x = Slot(p, x.number, ScheduledTime(x.number, rate), "none")
  <2>1. PICK n \in 0 .. K - 1 : x = Slot(p, n, ScheduledTime(n, rate), "none")
    BY <1>2
  <2> QED BY <1>4, <2>1
<1>7. ASSUME NEW n \in 0 .. K - 1 PROVE \E x \in Periodic(p) : x.number = n
  BY <1>2, <1>4
<1>8. ASSUME NEW x \in Periodic(p), NEW y \in Periodic(p)
      PROVE  /\ x.number = y.number => x = y
             /\ x.number <= y.number => x.elapsed <= y.elapsed
  <2>1. x.number = y.number => x = y
    BY <1>6
  <2>2. x.number \in Nat /\ y.number \in Nat /\ rate \in Nat \ {0}
    BY <1>1, <1>3, <1>6
  <2>3. x.number <= y.number =>
          ScheduledTime(x.number, rate) <= ScheduledTime(y.number, rate)
    BY <2>2, TimeOrder
  <2> QED BY <1>6, <2>1, <2>3
<1> QED BY <1>1, <1>5, <1>6, <1>7, <1>8 DEF K, rate

\* The slots of the controller.
LEMMA ControllerIs ==
    ASSUME Ready, NEW s \in ControllerSchedules
    PROVE  \E states \in ControllerStates :
           LET K == Len(states)
               S == Controller(s)
               d == config.duration
           IN  /\ IsFiniteSet(S) /\ K \in Nat /\ K \in {3, 4}
               /\ \A x \in S :
                    /\ x \in SlotType /\ x.producer = "sim-controller" /\ x.number \in 0 .. K - 1
                    /\ x.state = states[x.number + 1]
                    /\ x.number = K - 1 => x.elapsed = d - 1
               /\ \A n \in 0 .. K - 1 : \E x \in S : x.number = n
               /\ \A x, y \in S :
                    /\ x.number = y.number => x = y
                    /\ x.number <= y.number => x.elapsed <= y.elapsed
<1> DEFINE d == config.duration
           S == Controller(s)
<1>0. d \in Nat \ {0}
  BY ReadyIs
<1>1. PICK states \in ControllerStates :
        /\ Len(states) \in {3, 4} /\ DOMAIN s = 1 .. Len(states)
        /\ \A k \in 1 .. Len(states) : s[k][2] = states[k] /\ s[k][1] \in Nat /\ s[k][1] < d
        /\ \A j, k \in 1 .. Len(states) : j <= k => s[j][1] <= s[k][1]
        /\ s[Len(states)][1] = d - 1
  BY <1>0, ScheduleIs
<1> DEFINE K == Len(states)
           Sl(k) == Slot("sim-controller", k - 1, s[k][1], s[k][2])
           f == [k \in 1 .. K |-> Sl(k)]
<1>2. K \in Nat /\ K \in {3, 4}
  BY <1>1
<1>3. S = {Sl(k) : k \in 1 .. K}
  BY <1>1 DEF Controller
<1>4. \A k \in 1 .. K : states[k] \in States
  BY DEF ControllerStates, States
<1> HIDE DEF K
<1>5. ASSUME NEW k \in 1 .. K
      PROVE  /\ Sl(k) \in SlotType /\ Sl(k).producer = "sim-controller" /\ Sl(k).number = k - 1
             /\ Sl(k).elapsed = s[k][1] /\ Sl(k).state = states[k]
             /\ k - 1 \in 0 .. K - 1 /\ (k - 1) + 1 = k
  <2>1. k - 1 \in Nat /\ k - 1 \in 0 .. K - 1 /\ (k - 1) + 1 = k
    BY <1>2
  <2>2. s[k][1] \in Nat /\ s[k][2] = states[k] /\ states[k] \in States
    BY <1>1, <1>4 DEF K
  <2> QED BY <2>1, <2>2 DEF Slot, SlotType, Names
<1>6. IsFiniteSet(S)
  <2>1. f \in Surjection(1 .. K, S)
    BY <1>3 DEF Surjection
  <2>2. 1 \in Int /\ K \in Int
    BY <1>2
  <2>3. IsFiniteSet(1 .. K)
    BY <2>2, FS_Interval
  <2> QED BY <2>1, <2>3, FS_Surjection
<1> HIDE DEF Sl
<1>7. ASSUME NEW x \in S
      PROVE  \E k \in 1 .. K : x = Sl(k) /\ x.number = k - 1
  BY <1>3, <1>5
<1>8. ASSUME NEW x \in S
      PROVE  /\ x \in SlotType /\ x.producer = "sim-controller" /\ x.number \in 0 .. K - 1
             /\ x.state = states[x.number + 1]
             /\ x.number = K - 1 => x.elapsed = d - 1
  <2>1. PICK k \in 1 .. K : x = Sl(k) /\ x.number = k - 1
    BY <1>7
  <2>2. x.number = K - 1 => k = K
    BY <1>2, <2>1
  <2>3. s[K][1] = d - 1
    BY <1>1 DEF K
  <2> QED BY <1>5, <2>1, <2>2, <2>3
<1>9. ASSUME NEW n \in 0 .. K - 1 PROVE \E x \in S : x.number = n
  <2>1. n + 1 \in 1 .. K /\ (n + 1) - 1 = n
    BY <1>2
  <2> QED BY <1>3, <1>5, <2>1
<1>10. ASSUME NEW x \in S, NEW y \in S
       PROVE  /\ x.number = y.number => x = y
              /\ x.number <= y.number => x.elapsed <= y.elapsed
  <2>1. PICK j \in 1 .. K : x = Sl(j) /\ x.number = j - 1
    BY <1>7
  <2>2. PICK k \in 1 .. K : y = Sl(k) /\ y.number = k - 1
    BY <1>7
  <2>3. (x.number = y.number => j = k) /\ (x.number <= y.number => j <= k)
    BY <1>2, <2>1, <2>2
  <2>4. j <= k => s[j][1] <= s[k][1]
    BY <1>1 DEF K
  <2> QED BY <1>5, <2>1, <2>2, <2>3, <2>4
<1> HIDE DEF S, d
<1> QED BY <1>2, <1>6, <1>8, <1>9, <1>10 DEF K, S, d

\* Number n of producer p, if it has one, is in S once; later numbers are not
\* earlier.
Numbered(S, p, K) ==
    /\ K \in Nat
    /\ \A x \in S : x.producer = p => x.number \in 0 .. K - 1
    /\ \A n \in 0 .. K - 1 : \E x \in S : x.producer = p /\ x.number = n

LEMMA SlotsAre ==
    ASSUME Ready, NEW s \in ControllerSchedules
    PROVE  LET S == Slots(s) IN
           /\ IsFiniteSet(S) /\ S \subseteq SlotType
           /\ Cardinality(S) <= MaxGeneratedEvents + 4
           /\ \A x \in S : x.producer \in Sensors => x \in Periodic(x.producer)
           /\ \A x \in S : x.producer = "sim-controller" => x \in Controller(s)
           /\ \A p \in Sensors : Numbered(S, p, EventCount(config.duration, config.rates[p]))
           /\ \E states \in ControllerStates :
                /\ Numbered(S, "sim-controller", Len(states))
                /\ \A x \in S : x.producer = "sim-controller" =>
                     /\ x.state = states[x.number + 1]
                     /\ x.number = Len(states) - 1 => x.elapsed = config.duration - 1
           /\ \A x, y \in S : x.producer = y.producer =>
                /\ x.number = y.number => x = y
                /\ x.number <= y.number => x.elapsed <= y.elapsed
<1> DEFINE S == Slots(s)
           C == Controller(s)
           U == UNION {Periodic(p) : p \in Sensors}
           Count(p) == EventCount(config.duration, config.rates[p])
<1>1. S = U \cup C
  BY DEF Slots
<1> HIDE DEF U
<1>2. ASSUME NEW p \in Sensors
      PROVE  /\ IsFiniteSet(Periodic(p)) /\ Count(p) \in Nat
             /\ \A x \in Periodic(p) :
                  x \in SlotType /\ x.producer = p /\ x.number \in 0 .. Count(p) - 1
             /\ \A n \in 0 .. Count(p) - 1 : \E x \in Periodic(p) : x.number = n
             /\ \A x, y \in Periodic(p) :
                  /\ x.number = y.number => x = y
                  /\ x.number <= y.number => x.elapsed <= y.elapsed
  BY PeriodicIs
<1>3. PICK states \in ControllerStates :
        /\ IsFiniteSet(C) /\ Len(states) \in Nat /\ Len(states) \in {3, 4}
        /\ \A x \in C :
             /\ x \in SlotType /\ x.producer = "sim-controller"
             /\ x.number \in 0 .. Len(states) - 1
             /\ x.state = states[x.number + 1]
             /\ x.number = Len(states) - 1 => x.elapsed = config.duration - 1
        /\ \A n \in 0 .. Len(states) - 1 : \E x \in C : x.number = n
        /\ \A x, y \in C :
             /\ x.number = y.number => x = y
             /\ x.number <= y.number => x.elapsed <= y.elapsed
  BY ControllerIs
<1>4. "sim-controller" \notin Sensors
  BY DEF Sensors
<1> HIDE DEF S, C
<1>5. \A x : x \in S <=> (\E p \in Sensors : x \in Periodic(p)) \/ x \in C
  <2>1. ASSUME NEW x PROVE x \in U <=> \E p \in Sensors : x \in Periodic(p)
    BY Zenon DEF U
  <2> QED BY <1>1, <2>1
<1>6. ASSUME NEW x \in S
      PROVE  /\ x \in SlotType
             /\ x.producer \in Sensors => x \in Periodic(x.producer)
             /\ x.producer = "sim-controller" => x \in C
             /\ x.producer \in Sensors \/ x.producer = "sim-controller"
  BY <1>2, <1>3, <1>4, <1>5
<1>7. ASSUME NEW p \in Sensors PROVE Numbered(S, p, Count(p))
  <2>1. \A x \in S : x.producer = p => x.number \in 0 .. Count(p) - 1
    BY <1>2, <1>6
  <2>2. Periodic(p) \subseteq S
    BY <1>5
  <2>3. \A n \in 0 .. Count(p) - 1 : \E x \in S : x.producer = p /\ x.number = n
    BY <1>2, <2>2
  <2> QED BY <1>2, <2>1, <2>3 DEF Numbered
<1>8. Numbered(S, "sim-controller", Len(states))
  <2>1. C \subseteq S
    BY <1>5
  <2> QED BY <1>3, <1>6, <2>1 DEF Numbered
<1>9. ASSUME NEW x \in S, NEW y \in S, x.producer = y.producer
      PROVE  /\ x.number = y.number => x = y
             /\ x.number <= y.number => x.elapsed <= y.elapsed
  <2>1. CASE x.producer \in Sensors
    <3>1. x \in Periodic(x.producer) /\ y \in Periodic(x.producer)
      BY <1>6, <1>9, <2>1
    <3> QED BY <1>2, <2>1, <3>1
  <2>2. CASE x.producer = "sim-controller"
    <3>1. x \in C /\ y \in C
      BY <1>6, <1>9, <2>2
    <3> QED BY <1>3, <3>1
  <2> QED BY <1>6, <2>1, <2>2
<1>10. IsFiniteSet(S) /\ Cardinality(S) <= MaxGeneratedEvents + 4
  <2> DEFINE seconds == config.duration \div Second + 1
  <2>0. seconds \in Nat /\ config.duration \div Second \in Nat
    <3>1. config.duration \in Nat /\ Second \in Nat \ {0}
      BY ReadyIs, UnitsAssumption
    <3>2. config.duration \div Second \in Nat
      BY <3>1, Division
    <3> QED BY <3>2
  <2>1. ASSUME NEW p \in Sensors
        PROVE  /\ Cardinality(Periodic(p)) \in Nat
               /\ Cardinality(Periodic(p)) <= config.rates[p] * seconds
               /\ config.rates[p] * seconds \in Nat
    <3> DEFINE K == Count(p)
               f == [x \in Periodic(p) |-> x.number]
    <3>1. f \in Injection(Periodic(p), 0 .. K - 1)
      BY <1>2 DEF Injection, IsInjective
    <3>2. K \in Nat /\ 0 \in Int /\ K - 1 \in Int
      BY <1>2
    <3> HIDE DEF f, K
    <3>3. IsFiniteSet(0 .. K - 1) /\ Cardinality(0 .. K - 1) = K
      <4>1. IsFiniteSet(0 .. K - 1) /\ Cardinality(0 .. K - 1) = IF 0 > K - 1 THEN 0 ELSE K - 1 - 0 + 1
        BY <3>2, FS_Interval
      <4> QED BY <3>2, <4>1
    <3>4. Cardinality(Periodic(p)) <= K
      BY <3>1, <3>3, FS_Injection
    <3>5. K <= config.rates[p] * seconds /\ config.rates[p] * seconds \in Nat
      <4> DEFINE q == config.duration \div Second
                 m == config.duration % Second
                 r == config.rates[p]
      <4>1. config.duration \in Nat /\ Second \in Nat \ {0} /\ r \in Nat
        BY ReadyIs, UnitsAssumption
      <4>2. q \in Nat /\ m \in 0 .. Second - 1
        BY <4>1, Division
      <4>3. K = q * r + ((m * r) \div Second)
        BY DEF K, EventCount
      <4> HIDE DEF q, m, r
      <4>4. m * r <= 0 + Second * r /\ m * r \in Nat
        BY <4>1, <4>2
      <4>5. (m * r) \div Second <= (0 \div Second) + r /\ (m * r) \div Second \in Nat
        BY <4>1, <4>4, QuotientOrder
      <4>6. 0 \div Second = 0
        BY <4>1
      <4>7. r * (q + 1) = q * r + r /\ q * r \in Nat
        BY <4>1, <4>2
      <4> DEFINE a == q * r
                 b == (m * r) \div Second
      <4>8. K = a + b /\ a \in Nat /\ b \in Nat /\ b <= r /\ r * (q + 1) = a + r
        BY <4>1, <4>3, <4>5, <4>6, <4>7
      <4> HIDE DEF a, b
      <4>9. K <= r * (q + 1) /\ r * (q + 1) \in Nat
        BY <4>1, <4>8
      <4> QED BY <4>9 DEF r, q
    <3>6. Cardinality(Periodic(p)) \in Nat
      BY <1>2, FS_CardinalityType
    <3> DEFINE v == config.rates[p] * seconds
               w == Cardinality(Periodic(p))
    <3>7. w \in Nat /\ v \in Nat /\ w <= K /\ K <= v
      BY <3>4, <3>5, <3>6
    <3> HIDE DEF v, w
    <3>8. w <= v
      BY <3>2, <3>7
    <3> QED BY <3>6, <3>7, <3>8 DEF v, w
  <2>2. Cardinality(C) \in Nat /\ Cardinality(C) <= 4
    <3> DEFINE f == [x \in C |-> x.number]
               K == Len(states)
    <3>1. f \in Injection(C, 0 .. K - 1)
      BY <1>3 DEF Injection, IsInjective
    <3>2. K \in Nat /\ K <= 4 /\ 0 \in Int /\ K - 1 \in Int
      BY <1>3
    <3> HIDE DEF f, K
    <3>3. IsFiniteSet(0 .. K - 1) /\ Cardinality(0 .. K - 1) = K
      <4>1. IsFiniteSet(0 .. K - 1) /\ Cardinality(0 .. K - 1) = IF 0 > K - 1 THEN 0 ELSE K - 1 - 0 + 1
        BY <3>2, FS_Interval
      <4> QED BY <3>2, <4>1
    <3>4. Cardinality(C) <= K
      BY <3>1, <3>3, FS_Injection
    <3>5. Cardinality(C) \in Nat
      BY <1>3, FS_CardinalityType
    <3> QED BY <3>2, <3>4, <3>5
  <2> DEFINE A1 == Periodic("sim-accelerometer")
             A2 == Periodic("sim-gyroscope")
             A3 == Periodic("sim-camera")
             A4 == Periodic("sim-gps")
             A5 == Periodic("sim-temperature")
             A6 == Periodic("sim-fault")
             r1 == config.rates["sim-accelerometer"]
             r2 == config.rates["sim-gyroscope"]
             r3 == config.rates["sim-camera"]
             r4 == config.rates["sim-gps"]
             r5 == config.rates["sim-temperature"]
             r6 == config.rates["sim-fault"]
  <2>3. S = (((((A1 \cup A2) \cup A3) \cup A4) \cup A5) \cup A6) \cup C
    <3> HIDE DEF A1, A2, A3, A4, A5, A6
    <3>1. \A x : (\E p \in Sensors : x \in Periodic(p)) <=>
               x \in A1 \/ x \in A2 \/ x \in A3 \/ x \in A4 \/ x \in A5 \/ x \in A6
      BY DEF Sensors, A1, A2, A3, A4, A5, A6
    <3> QED BY <1>5, <3>1
  <2>4. /\ IsFiniteSet(A1) /\ IsFiniteSet(A2) /\ IsFiniteSet(A3)
        /\ IsFiniteSet(A4) /\ IsFiniteSet(A5) /\ IsFiniteSet(A6)
    BY <1>2 DEF Sensors
  <2>5. /\ Cardinality(A1) \in Nat /\ Cardinality(A2) \in Nat /\ Cardinality(A3) \in Nat
        /\ Cardinality(A4) \in Nat /\ Cardinality(A5) \in Nat /\ Cardinality(A6) \in Nat
        /\ Cardinality(A1) <= r1 * seconds /\ Cardinality(A2) <= r2 * seconds
        /\ Cardinality(A3) <= r3 * seconds /\ Cardinality(A4) <= r4 * seconds
        /\ Cardinality(A5) <= r5 * seconds /\ Cardinality(A6) <= r6 * seconds
    BY <2>1 DEF Sensors
  <2>6. r1 \in Nat /\ r2 \in Nat /\ r3 \in Nat /\ r4 \in Nat /\ r5 \in Nat /\ r6 \in Nat
    BY ReadyIs DEF Sensors
  <2>7. (r1 + r2 + r3 + r4 + r5 + r6) * seconds <= MaxGeneratedEvents
    BY DEF Ready, ValidConfig, combined_rate
  <2>8. MaxGeneratedEvents \in Nat
    BY GeneratorLimitsAssumption
  <2> HIDE DEF A1, A2, A3, A4, A5, A6, r1, r2, r3, r4, r5, r6, seconds
  <2>9. ASSUME NEW X, NEW Y, IsFiniteSet(X), IsFiniteSet(Y)
        PROVE  /\ IsFiniteSet(X \cup Y) /\ Cardinality(X \cup Y) \in Nat
               /\ Cardinality(X \cup Y) <= Cardinality(X) + Cardinality(Y)
    <3>1. /\ IsFiniteSet(X \cup Y)
          /\ Cardinality(X \cup Y) = Cardinality(X) + Cardinality(Y) - Cardinality(X \cap Y)
      BY <2>9, FS_Union
    <3>2. IsFiniteSet(X \cap Y)
      <4>1. X \cap Y \in SUBSET X
        OBVIOUS
      <4> QED BY <2>9, <4>1, FS_Subset
    <3>3. Cardinality(X) \in Nat /\ Cardinality(Y) \in Nat /\ Cardinality(X \cap Y) \in Nat
          /\ Cardinality(X \cup Y) \in Nat
      BY <2>9, <3>1, <3>2, FS_CardinalityType
    <3> QED BY <3>1, <3>3
  <2> DEFINE B2 == A1 \cup A2
             B3 == B2 \cup A3
             B4 == B3 \cup A4
             B5 == B4 \cup A5
             B6 == B5 \cup A6
  <2>10. IsFiniteSet(B2) /\ Cardinality(B2) <= Cardinality(A1) + Cardinality(A2)
         /\ Cardinality(B2) \in Nat
    BY <2>4, <2>9
  <2>11. IsFiniteSet(B3) /\ Cardinality(B3) <= Cardinality(B2) + Cardinality(A3)
         /\ Cardinality(B3) \in Nat
    <3> HIDE DEF B2
    <3> QED BY <2>4, <2>9, <2>10
  <2>12. IsFiniteSet(B4) /\ Cardinality(B4) <= Cardinality(B3) + Cardinality(A4)
         /\ Cardinality(B4) \in Nat
    <3> HIDE DEF B3
    <3> QED BY <2>4, <2>9, <2>11
  <2>13. IsFiniteSet(B5) /\ Cardinality(B5) <= Cardinality(B4) + Cardinality(A5)
         /\ Cardinality(B5) \in Nat
    <3> HIDE DEF B4
    <3> QED BY <2>4, <2>9, <2>12
  <2>14. IsFiniteSet(B6) /\ Cardinality(B6) <= Cardinality(B5) + Cardinality(A6)
         /\ Cardinality(B6) \in Nat
    <3> HIDE DEF B5
    <3> QED BY <2>4, <2>9, <2>13
  <2>15. IsFiniteSet(S) /\ Cardinality(S) <= Cardinality(B6) + Cardinality(C)
         /\ Cardinality(S) \in Nat
    <3>1. S = B6 \cup C
      BY <2>3
    <3> HIDE DEF B6
    <3> QED BY <1>3, <2>9, <2>14, <3>1
  <2> HIDE DEF B2, B3, B4, B5, B6
  <2>16. (r1 + r2 + r3 + r4 + r5 + r6) * seconds =
           r1 * seconds + r2 * seconds + r3 * seconds + r4 * seconds + r5 * seconds + r6 * seconds
         /\ r1 * seconds \in Nat /\ r2 * seconds \in Nat /\ r3 * seconds \in Nat
         /\ r4 * seconds \in Nat /\ r5 * seconds \in Nat /\ r6 * seconds \in Nat
    BY <2>0, <2>6
  <2> DEFINE x1 == r1 * seconds
             x2 == r2 * seconds
             x3 == r3 * seconds
             x4 == r4 * seconds
             x5 == r5 * seconds
             x6 == r6 * seconds
  <2>17. /\ x1 \in Nat /\ x2 \in Nat /\ x3 \in Nat /\ x4 \in Nat /\ x5 \in Nat /\ x6 \in Nat
         /\ x1 + x2 + x3 + x4 + x5 + x6 <= MaxGeneratedEvents
         /\ Cardinality(A1) <= x1 /\ Cardinality(A2) <= x2 /\ Cardinality(A3) <= x3
         /\ Cardinality(A4) <= x4 /\ Cardinality(A5) <= x5 /\ Cardinality(A6) <= x6
    BY <2>5, <2>7, <2>16
  <2> HIDE DEF x1, x2, x3, x4, x5, x6
  <2> QED BY <2>2, <2>5, <2>8, <2>10, <2>11, <2>12, <2>13, <2>14, <2>15, <2>17
<1> QED BY <1>3, <1>6, <1>7, <1>8, <1>9, <1>10 DEF S, C

-----------------------------------------------------------------------------
(* The base events. *)

LEMMA JitterIs ==
    ASSUME NEW m \in Nat, NEW j \in SampleJitter(m)
    PROVE  j \in Int /\ -m <= j /\ j <= m
<1>1. PICK draw \in Bounded(2 * m + 1) : j = draw - m
  BY DEF SampleJitter
<1>2. draw \in 0 .. 2 * m
  BY <1>1 DEF Bounded
<1> QED BY <1>1, <1>2

LEMMA BaseEventIs ==
    ASSUME Ready, NEW x \in SlotType, NEW j \in SampleJitter(config.max_jitter)
    PROVE  LET e == BaseEvent(x, j) IN
           /\ e \in EventType /\ e.producer = x.producer /\ e.number = x.number
           /\ e.state = x.state /\ e.timestamp > 0 /\ At(e, x.elapsed)
           /\ e.timestamp = BaseTimestamp + ApplyClockDrift(x.elapsed, config.clock_drift) + j
           /\ ApplyClockDrift(x.elapsed, config.clock_drift) \in Nat /\ j \in Int
<1> DEFINE e == BaseEvent(x, j)
           D == ApplyClockDrift(x.elapsed, config.clock_drift)
           B == BaseTimestamp
           m == config.max_jitter
<1>1. x.elapsed \in Nat /\ x.producer \in Names /\ x.number \in Nat /\ x.state \in States
  BY DEF SlotType
<1>2. m \in 0 .. MaxDuration /\ m \in Nat /\ config.clock_drift \in Int
      /\ config.clock_drift \in -ProbabilityScale .. ProbabilityScale
  BY ReadyIs
<1>3. D \in Nat
  <2>1. x.elapsed <= x.elapsed
    BY <1>1
  <2> QED BY <1>1, <1>2, <2>1, DriftOrder
<1>4. j \in Int /\ -m <= j /\ j <= m
  BY <1>2, JitterIs
<1>5. B \in Nat /\ B > MaxDuration /\ MaxDuration \in Nat
  BY GeneratorLimitsAssumption
<1>6. D = x.elapsed + Quotient(x.elapsed * config.clock_drift, ProbabilityScale)
  BY <1>1, <1>2, DriftIs
<1>7. e = [producer |-> x.producer, number |-> x.number, state |-> x.state, timestamp |-> B + D + j]
  BY DEF BaseEvent
<1> HIDE DEF e, D, B, m
<1>8. B + D + j \in Int /\ B + D + j > 0 /\ Far(B + D + j, B + D) <= m
  BY <1>2, <1>3, <1>4, <1>5 DEF Far
<1>9. e.producer = x.producer /\ e.number = x.number /\ e.state = x.state
      /\ e.timestamp = B + D + j
  BY <1>7
<1>10. e \in EventType
  BY <1>1, <1>7, <1>8 DEF EventType
<1>11. At(e, x.elapsed)
  BY <1>6, <1>8, <1>9 DEF At, B, m
<1> QED BY <1>3, <1>4, <1>8, <1>9, <1>10, <1>11 DEF e, D, B

\* base_events are the events of some schedule and some jitter.
Based ==
    \E s \in ControllerSchedules :
      \E jitter \in [Slots(s) -> SampleJitter(config.max_jitter)] :
        base_events = SortedEvents({BaseEvent(x, jitter[x]) : x \in Slots(s)})

\* The events of p in base_events are numbered from 0 to K - 1.
Counted(p, K) ==
    /\ K \in Nat
    /\ \A i \in OfProducer(p) : base_events[i].number \in 0 .. K - 1
    /\ \A n \in 0 .. K - 1 : \E i \in OfProducer(p) : base_events[i].number = n

\* As many positions as numbers.
LEMMA CountedCount ==
    ASSUME NEW p, NEW K, Counted(p, K), base_events \in Seq(EventType),
           \A i, j \in OfProducer(p) : base_events[i].number = base_events[j].number => i = j
    PROVE  Cardinality(OfProducer(p)) = K
<1> DEFINE S == OfProducer(p)
           number == [i \in S |-> base_events[i].number]
<1>1. K \in Nat /\ number \in Bijection(S, 0 .. K - 1)
  BY DEF Counted, Bijection, Injection, Surjection, IsInjective
<1>2. 0 \in Int /\ K - 1 \in Int
  BY <1>1
<1>3. IsFiniteSet(0 .. K - 1) /\ Cardinality(0 .. K - 1) = K
  <2>1. IsFiniteSet(0 .. K - 1) /\ Cardinality(0 .. K - 1) = IF 0 > K - 1 THEN 0 ELSE K - 1 - 0 + 1
    BY <1>2, FS_Interval
  <2> QED BY <1>1, <2>1
<1> HIDE DEF number, S
<1>4. ExistsBijection(S, 0 .. K - 1)
  BY <1>1 DEF ExistsBijection
<1>5. IsFiniteSet(S)
  <2>1. S \subseteq 1 .. Len(base_events) /\ Len(base_events) \in Nat
    BY DEF S, OfProducer
  <2>2. 1 \in Int /\ Len(base_events) \in Int
    BY <2>1
  <2>3. IsFiniteSet(1 .. Len(base_events))
    BY <2>2, FS_Interval
  <2> QED BY <2>1, <2>3, FS_Subset
<1>6. Cardinality(S) = Cardinality(0 .. K - 1)
  BY <1>4, <1>5, FS_Bijection
<1> QED BY <1>3, <1>6 DEF S

LEMMA BaseFacts ==
    ASSUME Ready, Based
    PROVE  /\ Arranged(base_events) /\ Len(base_events) \in Nat
           /\ Len(base_events) <= MaxGeneratedEvents + 4
           /\ \A i \in 1 .. Len(base_events) : base_events[i].timestamp > 0
           /\ \A p \in Sensors :
                /\ Counted(p, EventCount(config.duration, config.rates[p]))
                /\ \A i \in OfProducer(p) :
                     LET start == ScheduledTime(base_events[i].number, config.rates[p])
                     IN  start < config.duration /\ At(base_events[i], start)
           /\ \E states \in ControllerStates :
                /\ Counted("sim-controller", Len(states))
                /\ \A i \in OfProducer("sim-controller") :
                     LET e == base_events[i]
                     IN  /\ e.state = states[e.number + 1]
                         /\ e.number = Len(states) - 1 => At(e, config.duration - 1)
           /\ \A i, j \in 1 .. Len(base_events) :
                /\ base_events[i].producer = base_events[j].producer
                /\ base_events[i].number = base_events[j].number
                => i = j
           /\ config.max_jitter = 0 => InOrder(base_events)
<1>0. PICK s \in ControllerSchedules :
        \E jitter \in [Slots(s) -> SampleJitter(config.max_jitter)] :
          base_events = SortedEvents({BaseEvent(x, jitter[x]) : x \in Slots(s)})
  BY DEF Based
<1>1. PICK jitter \in [Slots(s) -> SampleJitter(config.max_jitter)] :
        base_events = SortedEvents({BaseEvent(x, jitter[x]) : x \in Slots(s)})
  BY <1>0
<1> DEFINE S == Slots(s)
           ev == [x \in S |-> BaseEvent(x, jitter[x])]
           B == {ev[x] : x \in S}
           b == base_events
           n == Len(b)
           d == config.duration
           drift == config.clock_drift
           Count(p) == EventCount(d, config.rates[p])
<1>2. /\ IsFiniteSet(S) /\ S \subseteq SlotType /\ Cardinality(S) <= MaxGeneratedEvents + 4
      /\ \A x \in S : x.producer \in Sensors => x \in Periodic(x.producer)
      /\ \A x \in S : x.producer = "sim-controller" => x \in Controller(s)
      /\ \A p \in Sensors : Numbered(S, p, Count(p))
      /\ \E states \in ControllerStates :
           /\ Numbered(S, "sim-controller", Len(states))
           /\ \A x \in S : x.producer = "sim-controller" =>
                /\ x.state = states[x.number + 1]
                /\ x.number = Len(states) - 1 => x.elapsed = d - 1
      /\ \A x, y \in S : x.producer = y.producer =>
           /\ x.number = y.number => x = y
           /\ x.number <= y.number => x.elapsed <= y.elapsed
  BY SlotsAre
<1>3. b = SortedEvents(B)
  <2>1. {BaseEvent(x, jitter[x]) : x \in S} = B
    OBVIOUS
  <2> QED BY <1>1, <2>1
<1>4. ASSUME NEW x \in S
      PROVE  /\ ev[x] \in EventType /\ ev[x].producer = x.producer /\ ev[x].number = x.number
             /\ ev[x].state = x.state /\ ev[x].timestamp > 0 /\ At(ev[x], x.elapsed)
             /\ ev[x].timestamp = BaseTimestamp + ApplyClockDrift(x.elapsed, drift) + jitter[x]
             /\ jitter[x] \in SampleJitter(config.max_jitter) /\ x \in SlotType
  <2>1. x \in SlotType /\ jitter[x] \in SampleJitter(config.max_jitter)
    BY <1>2
  <2>2. ev[x] = BaseEvent(x, jitter[x])
    OBVIOUS
  <2> HIDE DEF ev
  <2> QED BY <2>1, <2>2, BaseEventIs
<1>5. ev \in Surjection(S, B)
  BY DEF Surjection
<1> HIDE DEF ev, S, b
<1>6. IsFiniteSet(B) /\ Cardinality(B) <= Cardinality(S)
  BY <1>2, <1>5, FS_Surjection
<1>7. B \subseteq EventType /\ Distinct(B)
  BY <1>2, <1>4 DEF Distinct
<1> HIDE DEF B
<1>8. /\ Arranged(b) /\ n = Cardinality(B)
      /\ \A e \in B : \E i \in 1 .. n : b[i] = e
      /\ \A i \in 1 .. n : b[i] \in B
  BY <1>3, <1>6, <1>7, SortArranges
<1>9. n \in Nat /\ b \in Seq(EventType) /\ DOMAIN b = 1 .. n
  BY <1>8 DEF Arranged
<1>10. n <= MaxGeneratedEvents + 4
  <2>1. Cardinality(S) \in Nat /\ MaxGeneratedEvents \in Nat
    BY <1>2, FS_CardinalityType, GeneratorLimitsAssumption
  <2> QED BY <1>2, <1>6, <1>8, <1>9, <2>1
<1>11. ASSUME NEW i \in 1 .. n PROVE \E x \in S : b[i] = ev[x]
  BY <1>8 DEF B
<1>12. ASSUME NEW x \in S PROVE \E i \in 1 .. n : b[i] = ev[x]
  BY <1>8 DEF B
<1>13. \A i \in 1 .. n : b[i].timestamp > 0
  BY <1>4, <1>11
<1>14. ASSUME NEW i \in 1 .. n, NEW j \in 1 .. n,
              b[i].producer = b[j].producer, b[i].number = b[j].number
       PROVE  i = j
  <2>1. b[i] = b[j]
    BY <1>7, <1>8, <1>14 DEF Distinct
  <2> QED BY <1>8, <2>1, ArrangedOnce
<1>15. \A p : OfProducer(p) = {i \in 1 .. n : b[i].producer = p}
  BY <1>9 DEF OfProducer, b
<1>16. ASSUME NEW p, NEW K, Numbered(S, p, K) PROVE Counted(p, K)
  <2>1. \A i \in OfProducer(p) : b[i].number \in 0 .. K - 1
    BY <1>4, <1>11, <1>15, <1>16 DEF Numbered
  <2>2. ASSUME NEW k \in 0 .. K - 1 PROVE \E i \in OfProducer(p) : b[i].number = k
    <3>1. PICK x \in S : x.producer = p /\ x.number = k
      BY <1>16 DEF Numbered
    <3>2. PICK i \in 1 .. n : b[i] = ev[x]
      BY <1>12
    <3>3. b[i].producer = p /\ b[i].number = k
      BY <1>4, <3>1, <3>2
    <3> QED BY <1>15, <3>3
  <2>3. K \in Nat
    BY <1>16 DEF Numbered
  <2> QED BY <2>1, <2>2, <2>3 DEF Counted, b
<1>17. ASSUME NEW p \in Sensors, NEW i \in OfProducer(p)
       PROVE  LET start == ScheduledTime(b[i].number, config.rates[p])
              IN  start < d /\ At(b[i], start)
  <2>1. i \in 1 .. n /\ b[i].producer = p
    BY <1>15
  <2>2. PICK x \in S : b[i] = ev[x]
    BY <1>11, <2>1
  <2>3. x.producer = p /\ b[i].number = x.number /\ At(b[i], x.elapsed)
    BY <1>4, <2>1, <2>2
  <2>4. x \in Periodic(p)
    BY <1>2, <2>3
  <2>5. x.number \in 0 .. Count(p) - 1 /\ x.elapsed = ScheduledTime(x.number, config.rates[p])
    BY <2>4, PeriodicIs
  <2>6. d \in Nat /\ config.rates[p] \in Nat
    BY ReadyIs
  <2>7. ScheduledTime(x.number, config.rates[p]) < d
    BY <2>5, <2>6, TimeInside
  <2> QED BY <2>3, <2>5, <2>7
<1>18. \E states \in ControllerStates :
         /\ Counted("sim-controller", Len(states))
         /\ \A i \in OfProducer("sim-controller") :
              /\ b[i].state = states[b[i].number + 1]
              /\ b[i].number = Len(states) - 1 => At(b[i], d - 1)
  <2>1. PICK states \in ControllerStates :
           /\ Numbered(S, "sim-controller", Len(states))
           /\ \A x \in S : x.producer = "sim-controller" =>
                /\ x.state = states[x.number + 1]
                /\ x.number = Len(states) - 1 => x.elapsed = d - 1
    BY <1>2
  <2>2. Counted("sim-controller", Len(states))
    BY <1>16, <2>1
  <2>3. ASSUME NEW i \in OfProducer("sim-controller")
        PROVE  /\ b[i].state = states[b[i].number + 1]
               /\ b[i].number = Len(states) - 1 => At(b[i], d - 1)
    <3>1. i \in 1 .. n /\ b[i].producer = "sim-controller"
      BY <1>15
    <3>2. PICK x \in S : b[i] = ev[x]
      BY <1>11, <3>1
    <3>3. x.producer = "sim-controller" /\ b[i].number = x.number /\ b[i].state = x.state
          /\ At(b[i], x.elapsed)
      BY <1>4, <3>1, <3>2
    <3> QED BY <2>1, <3>3
  <2> QED BY <2>2, <2>3
<1>19. ASSUME config.max_jitter = 0, NEW i \in 1 .. n, NEW j \in 1 .. n, i < j,
              b[i].producer = b[j].producer
       PROVE  b[i].number < b[j].number
  <2>1. PICK x \in S : b[i] = ev[x]
    BY <1>11
  <2>2. PICK y \in S : b[j] = ev[y]
    BY <1>11
  <2>3. /\ x.producer = y.producer /\ b[i].number = x.number /\ b[j].number = y.number
        /\ b[i].timestamp = BaseTimestamp + ApplyClockDrift(x.elapsed, drift) + jitter[x]
        /\ b[j].timestamp = BaseTimestamp + ApplyClockDrift(y.elapsed, drift) + jitter[y]
        /\ x \in SlotType /\ y \in SlotType
    BY <1>4, <1>19, <2>1, <2>2
  <2>4. x.number \in Nat /\ y.number \in Nat /\ x.elapsed \in Nat /\ y.elapsed \in Nat
    BY <2>3 DEF SlotType
  <2>5. jitter[x] = 0 /\ jitter[y] = 0
    <3>1. jitter[x] \in SampleJitter(0) /\ jitter[y] \in SampleJitter(0) /\ 0 \in Nat
      BY <1>4, <1>19
    <3>2. jitter[x] \in Int /\ -0 <= jitter[x] /\ jitter[x] <= 0
      BY <3>1, JitterIs
    <3>3. jitter[y] \in Int /\ -0 <= jitter[y] /\ jitter[y] <= 0
      BY <3>1, JitterIs
    <3> QED BY <3>2, <3>3
  <2>6. SUFFICES ASSUME y.number <= x.number PROVE FALSE
    BY <2>3, <2>4
  <2>7. y.elapsed <= x.elapsed
    BY <1>2, <2>3, <2>6
  <2> DEFINE Dx == ApplyClockDrift(x.elapsed, drift)
             Dy == ApplyClockDrift(y.elapsed, drift)
  <2>8. Dx \in Nat /\ Dy \in Nat /\ Dy <= Dx
    <3>1. drift \in Int /\ drift \in -ProbabilityScale .. ProbabilityScale
      BY ReadyIs
    <3> QED BY <2>4, <2>7, <3>1, DriftOrder
  <2> HIDE DEF Dx, Dy
  <2>9. EventBefore(b[i], b[j])
    BY <1>8, <1>19 DEF Arranged
  <2>10. NamePosition(b[i].producer) = NamePosition(b[j].producer)
         /\ NamePosition(b[j].producer) \in Int
    BY <1>7, <1>8, <1>19, NamesDiffer DEF EventType
  <2>11. BaseTimestamp \in Nat
    BY GeneratorLimitsAssumption
  <2>12. b[i].timestamp = BaseTimestamp + Dx /\ b[j].timestamp = BaseTimestamp + Dy
    BY <2>3, <2>5, <2>8, <2>11 DEF Dx, Dy
  <2>13. ~(b[i].timestamp < b[j].timestamp) /\ ~(b[i].number < b[j].number)
    BY <2>3, <2>4, <2>6, <2>8, <2>11, <2>12
  <2>14. ~(NamePosition(b[i].producer) < NamePosition(b[j].producer))
    BY <2>10
  <2> QED BY <2>9, <2>13, <2>14 DEF EventBefore
<1>20. config.max_jitter = 0 => InOrder(b)
  BY <1>9, <1>19 DEF InOrder
<1> QED BY <1>2, <1>8, <1>9, <1>10, <1>13, <1>14, <1>16, <1>17, <1>18, <1>20 DEF b, S

-----------------------------------------------------------------------------
(* The invariant. *)

StatsType == [generated : Nat, dropped : Nat, duplicated : Nat, reordered_pairs : Nat]

\* The events before the swaps, and the base events they come from.
BeforeSwaps == IF generator = "drop" THEN events ELSE emitted
Handled == IF generator = "drop" THEN index - 1 ELSE Len(base_events)

InSequence(s) == \A i, j \in 1 .. Len(s) : i < j => EventBefore(s[i], s[j])

GeneratorInv ==
    /\ generator \in {"none", "thrown", "schedule", "drop", "reorder", "returned"}
    /\ generator \in {"none", "thrown", "schedule"} => events = <<>> /\ stats = NoStats
    /\ generator \in {"schedule", "drop", "reorder", "returned"} => Ready
    /\ generator \in {"drop", "reorder", "returned"} =>
         /\ Based
         /\ stats \in StatsType /\ stats.generated = Len(base_events)
         /\ Emission(base_events, BeforeSwaps, Handled, stats.dropped, stats.duplicated)
         /\ config.duplicate = 0 => InSequence(BeforeSwaps)
         /\ config.reorder = 0 => stats.reordered_pairs = 0
    /\ generator = "drop" => index \in 1 .. Len(base_events) + 1 /\ stats.reordered_pairs = 0
    /\ generator \in {"reorder", "returned"} =>
         /\ index \in 1 .. Len(emitted) + 1
         /\ \E starts \in SUBSET (1 .. Len(emitted)) :
              /\ SwapsBelow(events, emitted, starts, index)
              /\ Cardinality(starts) = stats.reordered_pairs

LEMMA BasedStays ==
    ASSUME Based, config' = config, base_events' = base_events
    PROVE  Based'
<1>1. ControllerSchedules' = ControllerSchedules
  BY DEF ControllerSchedules
<1>2. ASSUME NEW p PROVE Periodic(p)' = Periodic(p)
  BY DEF Periodic
<1>3. ASSUME NEW x, NEW j PROVE BaseEvent(x, j)' = BaseEvent(x, j)
  BY DEF BaseEvent
<1>4. PICK s \in ControllerSchedules :
        \E jitter \in [Slots(s) -> SampleJitter(config.max_jitter)] :
          base_events = SortedEvents({BaseEvent(x, jitter[x]) : x \in Slots(s)})
  BY DEF Based
<1>5. PICK jitter \in [Slots(s) -> SampleJitter(config.max_jitter)] :
        base_events = SortedEvents({BaseEvent(x, jitter[x]) : x \in Slots(s)})
  BY <1>4
<1>6. Slots(s)' = Slots(s)
  BY <1>2 DEF Slots, Controller
<1>7. {BaseEvent(x, jitter[x])' : x \in Slots(s)'} = {BaseEvent(x, jitter[x]) : x \in Slots(s)}
  BY <1>3, <1>6
<1>8. base_events' = SortedEvents({BaseEvent(x, jitter[x])' : x \in Slots(s)'})
  BY <1>5, <1>7
<1>9. jitter \in [Slots(s)' -> SampleJitter(config.max_jitter)']
  BY <1>6
<1>10. s \in ControllerSchedules'
  BY <1>1
<1> QED BY <1>8, <1>9, <1>10 DEF Based

LEMMA ReadyStays ==
    ASSUME Ready, config' = config
    PROVE  Ready'
BY DEF Ready

LEMMA GeneratorInvStays ==
    ASSUME GeneratorInv, UNCHANGED generatorVars
    PROVE  GeneratorInv'
<1>1. config' = config /\ generator' = generator /\ base_events' = base_events
      /\ index' = index /\ events' = events /\ stats' = stats /\ emitted' = emitted
  BY DEF generatorVars
<1>2. Ready => Ready'
  BY <1>1, ReadyStays
<1>3. Based => Based'
  BY <1>1, BasedStays
<1>4. BeforeSwaps' = BeforeSwaps /\ Handled' = Handled
  BY <1>1 DEF BeforeSwaps, Handled
<1> QED BY <1>1, <1>2, <1>3, <1>4 DEF GeneratorInv

LEMMA GeneratorInvInit == CommandInit => GeneratorInv
BY DEF CommandInit, GeneratorInit, GeneratorInv

LEMMA ConstructStep ==
    ASSUME GeneratorInv, NEW c, Construct(c), c.rates \in [Sensors -> Nat]
    PROVE  GeneratorInv'
<1>1. /\ generator = "none" /\ config' = c
      /\ generator' = IF ValidConfig(c) THEN "schedule" ELSE "thrown"
      /\ events' = events /\ stats' = stats
  BY DEF Construct
<1>2. events = <<>> /\ stats = NoStats
  BY <1>1 DEF GeneratorInv
<1>3. generator' = "schedule" => Ready'
  BY <1>1 DEF Ready
<1>4. generator' \in {"schedule", "thrown"}
  BY <1>1
<1> QED BY <1>1, <1>2, <1>3, <1>4 DEF GeneratorInv

\* Before anything is emitted.
LEMMA EmissionStarts ==
    ASSUME NEW b, Arranged(b)
    PROVE  Emission(b, <<>>, 0, 0, 0) /\ InSequence(<<>>)
<1>1. Len(b) \in Nat
  BY DEF Arranged
<1>2. \A c : Times(b, <<>>, 0, c) = {}
  BY DEF Times
<1>3. Cardinality({}) = 0
  BY FS_EmptySet
<1>4. <<>> \in Seq(EventType) /\ Len(<<>>) = 0
  OBVIOUS
<1>5. 0 \in 0 .. Len(b) /\ 0 \in Nat /\ 0 = 0 - 0 + 0
  BY <1>1
<1>6. /\ \A i \in 1 .. Len(<<>>) : \E j \in 1 .. 0 : <<>>[i] = b[j]
      /\ \A i \in 1 .. Len(<<>>) - 1 : FALSE
      /\ \A j \in 1 .. 0 : Cardinality(Places(<<>>, b[j])) \in 0 .. 2
      /\ \A i \in 1 .. Len(<<>>) : FALSE
  BY <1>4
<1>7. InSequence(<<>>)
  BY <1>6 DEF InSequence
<1>8. Cardinality(Times(b, <<>>, 0, 0)) = 0 /\ Cardinality(Times(b, <<>>, 0, 2)) = 0
  BY <1>2, <1>3
<1> QED BY <1>4, <1>5, <1>6, <1>7, <1>8 DEF Emission

BaseIsArranged == Arranged(base_events) /\ Len(base_events) \in Nat

LEMMA BaseArranged == Ready /\ Based => BaseIsArranged
BY BaseFacts DEF BaseIsArranged

LEMMA ScheduleStep ==
    ASSUME GeneratorInv, Schedule
    PROVE  GeneratorInv'
<1>1. /\ generator = "schedule" /\ generator' = "drop" /\ index' = 1 /\ config' = config
      /\ events' = events /\ stats' = [stats EXCEPT !.generated = Len(base_events')]
  BY DEF Schedule
<1>2. Ready /\ events = <<>> /\ stats = NoStats
  BY <1>1 DEF GeneratorInv
<1>3. Ready'
  BY <1>1, <1>2, ReadyStays
<1>4. Based'
  <2>1. ControllerSchedules' = ControllerSchedules
    BY <1>1 DEF ControllerSchedules
  <2>2. ASSUME NEW p PROVE Periodic(p)' = Periodic(p)
    BY <1>1 DEF Periodic
  <2>3. ASSUME NEW x, NEW j PROVE BaseEvent(x, j)' = BaseEvent(x, j)
    BY <1>1 DEF BaseEvent
  <2>4. PICK s \in ControllerSchedules :
          \E jitter \in [Slots(s) -> SampleJitter(config.max_jitter)] :
            base_events' = SortedEvents({BaseEvent(x, jitter[x]) : x \in Slots(s)})
    BY DEF Schedule
  <2>5. PICK jitter \in [Slots(s) -> SampleJitter(config.max_jitter)] :
          base_events' = SortedEvents({BaseEvent(x, jitter[x]) : x \in Slots(s)})
    BY <2>4
  <2>6. Slots(s)' = Slots(s)
    BY <2>2 DEF Slots, Controller
  <2>7. {BaseEvent(x, jitter[x])' : x \in Slots(s)'} = {BaseEvent(x, jitter[x]) : x \in Slots(s)}
    BY <2>3, <2>6
  <2>8. base_events' = SortedEvents({BaseEvent(x, jitter[x])' : x \in Slots(s)'})
    BY <2>5, <2>7
  <2>9. jitter \in [Slots(s)' -> SampleJitter(config.max_jitter)']
    BY <1>1, <2>6
  <2>10. s \in ControllerSchedules'
    BY <2>1
  <2> QED BY <2>8, <2>9, <2>10 DEF Based
<1>5. Arranged(base_events') /\ Len(base_events') \in Nat
  <2>1. BaseIsArranged'
    BY <1>3, <1>4, BaseArranged, PTL
  <2> QED BY <2>1 DEF BaseIsArranged
<1>6. /\ stats' \in StatsType /\ stats'.generated = Len(base_events')
      /\ stats'.dropped = 0 /\ stats'.duplicated = 0 /\ stats'.reordered_pairs = 0
  BY <1>1, <1>2, <1>5 DEF NoStats, StatsType
<1>7. Emission(base_events', <<>>, 0, 0, 0) /\ InSequence(<<>>)
  BY <1>5, EmissionStarts
<1>8. BeforeSwaps' = <<>> /\ Handled' = 0
  BY <1>1, <1>2 DEF BeforeSwaps, Handled
<1>9. index' \in 1 .. Len(base_events') + 1
  BY <1>1, <1>5
<1> QED BY <1>1, <1>3, <1>4, <1>6, <1>7, <1>8, <1>9 DEF GeneratorInv

LEMMA AppendExtends ==
    ASSUME NEW s \in Seq(EventType), NEW k \in 1 .. 2, NEW e \in EventType
    PROVE  Extends(s \o [i \in 1 .. k |-> e], s, k, e)
<1> DEFINE r == [i \in 1 .. k |-> e]
           t == s \o r
<1>1. k \in Nat /\ r \in Seq(EventType) /\ Len(r) = k /\ \A i \in 1 .. k : r[i] = e
  OBVIOUS
<1> HIDE DEF r
<1>2. /\ t \in Seq(EventType) /\ Len(t) = Len(s) + k /\ Len(s) \in Nat
      /\ \A i \in 1 .. Len(s) : t[i] = s[i]
      /\ \A i \in Len(s) + 1 .. Len(s) + k : t[i] = r[i - Len(s)]
  BY <1>1
<1> HIDE DEF t
<1>3. ASSUME NEW i \in Len(s) + 1 .. Len(s) + k PROVE t[i] = e
  <2>1. i - Len(s) \in 1 .. k
    BY <1>1, <1>2
  <2> QED BY <1>1, <1>2, <2>1
<1>4. Extends(t, s, k, e)
  BY <1>2, <1>3 DEF Extends
<1> QED BY <1>4 DEF t, r

LEMMA SequenceGrows ==
    ASSUME NEW b, Arranged(b), NEW s, NEW n, NEW d, NEW u, Emission(b, s, n, d, u), n # Len(b),
           NEW k \in 0 .. 1, NEW t, Extends(t, s, k, b[n + 1]), InSequence(s)
    PROVE  InSequence(t)
<1>1. /\ n \in Nat /\ n + 1 \in 1 .. Len(b) /\ Len(b) \in Nat /\ Len(s) \in Nat
      /\ Len(t) = Len(s) + k
  <2>1. n \in 0 .. Len(b) /\ Len(b) \in Nat /\ Len(s) \in Nat
    BY DEF Emission, Arranged
  <2>2. Len(t) = Len(s) + k
    BY DEF Extends
  <2> QED BY <2>1, <2>2
<1>2. SUFFICES ASSUME NEW i \in 1 .. Len(t), NEW j \in 1 .. Len(t), i < j
               PROVE  EventBefore(t[i], t[j])
  BY DEF InSequence
<1>3. i \in 1 .. Len(s) /\ t[i] = s[i]
  <2>1. i \in 1 .. Len(s)
    BY <1>1, <1>2
  <2> QED BY <2>1 DEF Extends
<1>4. CASE j \in 1 .. Len(s)
  <2>1. t[j] = s[j]
    BY <1>4 DEF Extends
  <2> QED BY <1>2, <1>3, <1>4, <2>1 DEF InSequence
<1>5. CASE j \notin 1 .. Len(s)
  <2>1. j \in Len(s) + 1 .. Len(s) + k
    BY <1>1, <1>5
  <2>2. t[j] = b[n + 1]
    BY <2>1 DEF Extends
  <2>3. PICK m \in 1 .. n : s[i] = b[m]
    BY <1>3 DEF Emission
  <2>4. m \in 1 .. Len(b) /\ m < n + 1
    BY <1>1
  <2>5. EventBefore(b[m], b[n + 1])
    BY <1>1, <2>4 DEF Arranged
  <2> QED BY <1>3, <2>2, <2>3, <2>5
<1> QED BY <1>4, <1>5

LEMMA ZeroChance ==
    ASSUME NEW hit \in Chance(0)
    PROVE  ~hit
<1>1. ProbabilityScale \in Nat \ {0}
  BY UnitsAssumption
<1>2. \A draw \in Bounded(ProbabilityScale) : draw \in Nat
  BY <1>1 DEF Bounded
<1>3. \A draw \in Bounded(ProbabilityScale) : ~(draw < 0)
  BY <1>2
<1>4. PICK draw \in Bounded(ProbabilityScale) : hit = (draw < 0)
  BY Zenon DEF Chance
<1> QED BY <1>3, <1>4, Zenon

LEMMA DropStep ==
    ASSUME GeneratorInv, DropOrDuplicate
    PROVE  GeneratorInv'
<1> DEFINE b == base_events
           n == index - 1
           e == b[index]
<1>1. /\ generator = "drop" /\ index <= Len(b) /\ index' = index + 1 /\ generator' = "drop"
      /\ config' = config /\ base_events' = b /\ emitted' = emitted
  BY DEF DropOrDuplicate
<1>2. /\ Ready /\ Based /\ stats \in StatsType /\ stats.generated = Len(b)
      /\ Emission(b, events, n, stats.dropped, stats.duplicated)
      /\ config.duplicate = 0 => InSequence(events)
      /\ index \in 1 .. Len(b) + 1 /\ stats.reordered_pairs = 0
  BY <1>1 DEF GeneratorInv, BeforeSwaps, Handled
<1>3. Ready' /\ Based'
  BY <1>1, <1>2, ReadyStays, BasedStays
<1>4. Arranged(b) /\ Len(b) \in Nat
  BY <1>2, BaseFacts
<1>5. index \in 1 .. Len(b) /\ n \in Nat /\ n # Len(b) /\ n + 1 = index
  BY <1>1, <1>2, <1>4
<1>6. e \in EventType /\ events \in Seq(EventType)
  BY <1>2, <1>4, <1>5 DEF Arranged, Emission
<1>7. \E k \in 0 .. 2 :
        /\ Extends(events', events, k, e)
        /\ stats' \in StatsType /\ stats'.generated = stats.generated
        /\ stats'.reordered_pairs = stats.reordered_pairs
        /\ stats'.dropped = stats.dropped + (IF k = 0 THEN 1 ELSE 0)
        /\ stats'.duplicated = stats.duplicated + (IF k = 2 THEN 1 ELSE 0)
        /\ k = 2 => config.duplicate # 0
  <2>1. CASE events' = events /\ stats' = [stats EXCEPT !.dropped = @ + 1]
    <3>1. Extends(events', events, 0, e)
      BY <1>6, <2>1 DEF Extends
    <3>2. /\ stats' \in StatsType /\ stats'.generated = stats.generated
          /\ stats'.reordered_pairs = stats.reordered_pairs
          /\ stats'.dropped = stats.dropped + 1 /\ stats'.duplicated = stats.duplicated + 0
      BY <1>2, <2>1 DEF StatsType
    <3> WITNESS 0 \in 0 .. 2
    <3> QED BY <3>1, <3>2
  <2>2. ASSUME NEW again \in Chance(config.duplicate),
               events' = events \o [i \in 1 .. IF again THEN 2 ELSE 1 |-> e],
               stats' = [stats EXCEPT !.duplicated = @ + (IF again THEN 1 ELSE 0)]
        PROVE  \E k \in 0 .. 2 :
                 /\ Extends(events', events, k, e)
                 /\ stats' \in StatsType /\ stats'.generated = stats.generated
                 /\ stats'.reordered_pairs = stats.reordered_pairs
                 /\ stats'.dropped = stats.dropped + (IF k = 0 THEN 1 ELSE 0)
                 /\ stats'.duplicated = stats.duplicated + (IF k = 2 THEN 1 ELSE 0)
                 /\ k = 2 => config.duplicate # 0
    <3> HIDE DEF e
    <3>1. CASE again
      <4>0. 2 \in 1 .. 2
        OBVIOUS
      <4>1. Extends(events \o [i \in 1 .. 2 |-> e], events, 2, e)
        BY <1>6, <4>0, AppendExtends
      <4>2. Extends(events', events, 2, e)
        BY <2>2, <3>1, <4>1
      <4>3. stats' = [stats EXCEPT !.duplicated = @ + 1]
        BY <2>2, <3>1
      <4>4. /\ stats' \in StatsType /\ stats'.generated = stats.generated
            /\ stats'.reordered_pairs = stats.reordered_pairs
            /\ stats'.dropped = stats.dropped + 0 /\ stats'.duplicated = stats.duplicated + 1
        BY <1>2, <4>3 DEF StatsType
      <4>5. config.duplicate # 0
        BY <3>1, ZeroChance
      <4> WITNESS 2 \in 0 .. 2
      <4> QED BY <4>2, <4>4, <4>5
    <3>2. CASE ~again
      <4>0. 1 \in 1 .. 2
        OBVIOUS
      <4>1. Extends(events \o [i \in 1 .. 1 |-> e], events, 1, e)
        BY <1>6, <4>0, AppendExtends
      <4>2. Extends(events', events, 1, e)
        BY <2>2, <3>2, <4>1
      <4>3. stats' = [stats EXCEPT !.duplicated = @ + 0]
        BY <2>2, <3>2
      <4>4. /\ stats' \in StatsType /\ stats'.generated = stats.generated
            /\ stats'.reordered_pairs = stats.reordered_pairs
            /\ stats'.dropped = stats.dropped + 0 /\ stats'.duplicated = stats.duplicated + 0
        BY <1>2, <4>3 DEF StatsType
      <4> WITNESS 1 \in 0 .. 2
      <4> QED BY <4>2, <4>4
    <3> QED BY <3>1, <3>2
  <2> QED BY <2>1, <2>2 DEF DropOrDuplicate
<1>8. PICK k \in 0 .. 2 :
        /\ Extends(events', events, k, e)
        /\ stats' \in StatsType /\ stats'.generated = stats.generated
        /\ stats'.reordered_pairs = stats.reordered_pairs
        /\ stats'.dropped = stats.dropped + (IF k = 0 THEN 1 ELSE 0)
        /\ stats'.duplicated = stats.duplicated + (IF k = 2 THEN 1 ELSE 0)
        /\ k = 2 => config.duplicate # 0
  BY <1>7
<1>10. Emission(b, events', n + 1, stats'.dropped, stats'.duplicated)
  <2> HIDE DEF n, b
  <2>1. Extends(events', events, k, b[n + 1])
    BY <1>5, <1>8
  <2> QED BY <1>2, <1>4, <1>5, <1>8, <2>1, EmissionGrows
<1>11. config.duplicate = 0 => InSequence(events')
  <2>1. SUFFICES ASSUME config.duplicate = 0 PROVE InSequence(events')
    OBVIOUS
  <2>2. k \in 0 .. 1
    BY <1>8, <2>1
  <2> HIDE DEF n, b
  <2>3. Extends(events', events, k, b[n + 1])
    BY <1>5, <1>8
  <2> QED BY <1>2, <1>4, <1>5, <2>1, <2>2, <2>3, SequenceGrows
<1>12. BeforeSwaps' = events' /\ Handled' = n + 1
  BY <1>1, <1>2 DEF BeforeSwaps, Handled
<1>13. index' \in 1 .. Len(b) + 1
  BY <1>1, <1>4, <1>5
<1> QED BY <1>1, <1>2, <1>3, <1>8, <1>10, <1>11, <1>12, <1>13 DEF GeneratorInv

LEMMA SwapsKeepLength ==
    ASSUME NEW s \in Seq(EventType), NEW t, NEW starts, NEW n \in 1 .. Len(s) + 1,
           SwapsBelow(t, s, starts, n)
    PROVE  t \in Seq(EventType) /\ Len(t) = Len(s)
<1>1. Len(s) \in Nat /\ DOMAIN s = 1 .. Len(s) /\ n \in Nat
  OBVIOUS
<1>2. t = PairsSwapped(s, starts) /\ starts \subseteq 1 .. n - 2
  BY DEF SwapsBelow
<1>3. t = [i \in 1 .. Len(s) |-> IF i \in starts THEN s[i + 1]
                                 ELSE IF i - 1 \in starts THEN s[i - 1] ELSE s[i]]
  BY <1>1, <1>2 DEF PairsSwapped
<1>4. ASSUME NEW i \in 1 .. Len(s) PROVE t[i] \in EventType
  <2>1. i \in starts => i + 1 \in 1 .. Len(s)
    BY <1>1, <1>2
  <2>2. i - 1 \in starts => i - 1 \in 1 .. Len(s)
    BY <1>1, <1>2
  <2> QED BY <1>3, <2>1, <2>2
<1>5. t \in [1 .. Len(s) -> EventType]
  BY <1>3, <1>4
<1> QED BY <1>1, <1>5, SeqDef

LEMMA EndOfDropsStep ==
    ASSUME GeneratorInv, EndOfDrops
    PROVE  GeneratorInv'
<1> DEFINE b == base_events
<1>1. /\ generator = "drop" /\ index > Len(b) /\ generator' = "reorder" /\ index' = 1
      /\ emitted' = events /\ config' = config /\ base_events' = b /\ events' = events
      /\ stats' = stats
  BY DEF EndOfDrops
<1>2. /\ Ready /\ Based /\ stats \in StatsType /\ stats.generated = Len(b)
      /\ Emission(b, events, index - 1, stats.dropped, stats.duplicated)
      /\ config.duplicate = 0 => InSequence(events)
      /\ index \in 1 .. Len(b) + 1 /\ stats.reordered_pairs = 0
  BY <1>1 DEF GeneratorInv, BeforeSwaps, Handled
<1>3. Ready' /\ Based'
  BY <1>1, <1>2, ReadyStays, BasedStays
<1>4. Arranged(b) /\ Len(b) \in Nat
  BY <1>2, BaseFacts
<1>5. index - 1 = Len(b)
  BY <1>1, <1>2, <1>4
<1>6. BeforeSwaps' = events /\ Handled' = Len(b)
  BY <1>1 DEF BeforeSwaps, Handled
<1>7. events \in Seq(EventType) /\ Len(events) \in Nat
  BY <1>2 DEF Emission
<1>8. SwapsBelow(events, events, {}, 1)
  <2>1. PairsSwapped(events, {}) = [i \in DOMAIN events |-> events[i]]
    BY DEF PairsSwapped
  <2>2. PairsSwapped(events, {}) = events
    BY <1>7, <2>1
  <2>3. IsFiniteSet({})
    BY FS_EmptySet
  <2> QED BY <2>2, <2>3 DEF SwapsBelow
<1>9. Cardinality({}) = 0 /\ {} \in SUBSET (1 .. Len(events))
  BY FS_EmptySet
<1>10. 1 \in 1 .. Len(events) + 1
  BY <1>7
<1> HIDE DEF b
<1> QED BY <1>1, <1>2, <1>3, <1>5, <1>6, <1>8, <1>9, <1>10 DEF GeneratorInv, b

LEMMA ReorderStep ==
    ASSUME GeneratorInv, Reorder
    PROVE  GeneratorInv'
<1> DEFINE b == base_events
<1>1. /\ generator = "reorder" /\ index < Len(events) /\ generator' = "reorder"
      /\ emitted' = emitted /\ config' = config /\ base_events' = b
  BY DEF Reorder
<1>2. /\ Ready /\ Based /\ stats \in StatsType /\ stats.generated = Len(b)
      /\ Emission(b, emitted, Len(b), stats.dropped, stats.duplicated)
      /\ config.duplicate = 0 => InSequence(emitted)
      /\ config.reorder = 0 => stats.reordered_pairs = 0
      /\ index \in 1 .. Len(emitted) + 1
      /\ \E starts \in SUBSET (1 .. Len(emitted)) :
              /\ SwapsBelow(events, emitted, starts, index)
              /\ Cardinality(starts) = stats.reordered_pairs
  BY <1>1 DEF GeneratorInv, BeforeSwaps, Handled
<1>3. Ready' /\ Based'
  BY <1>1, <1>2, ReadyStays, BasedStays
<1>4. PICK starts \in SUBSET (1 .. Len(emitted)) :
        /\ SwapsBelow(events, emitted, starts, index)
        /\ Cardinality(starts) = stats.reordered_pairs
  BY <1>2
<1>5. emitted \in Seq(EventType) /\ Len(emitted) \in Nat
  BY <1>2 DEF Emission
<1>6. Len(events) = Len(emitted)
  BY <1>2, <1>4, <1>5, SwapsKeepLength
<1>7. index \in 1 .. Len(emitted) /\ index # Len(emitted)
  BY <1>1, <1>2, <1>5, <1>6
<1>8. /\ SwapsBelow(Swapped(events, index), emitted, starts \cup {index}, index + 2)
      /\ Cardinality(starts \cup {index}) = Cardinality(starts) + 1
      /\ SwapsBelow(events, emitted, starts, index + 1)
  BY <1>4, <1>5, <1>7, SwapGrows
<1>9. PICK swap \in Chance(config.reorder) :
         /\ events' = IF swap THEN Swapped(events, index) ELSE events
         /\ stats' = [stats EXCEPT !.reordered_pairs = @ + (IF swap THEN 1 ELSE 0)]
         /\ index' = index + Stride(swap)
  BY DEF Reorder
<1>10. BeforeSwaps' = emitted /\ Handled' = Len(b)
  BY <1>1 DEF BeforeSwaps, Handled
<1>11. /\ stats' \in StatsType /\ stats'.generated = stats.generated
       /\ stats'.dropped = stats.dropped /\ stats'.duplicated = stats.duplicated
       /\ stats'.reordered_pairs = stats.reordered_pairs + (IF swap THEN 1 ELSE 0)
  <2>1. IF swap THEN stats' = [stats EXCEPT !.reordered_pairs = @ + 1]
                ELSE stats' = [stats EXCEPT !.reordered_pairs = @ + 0]
    BY <1>9
  <2>2. CASE swap
    BY <1>2, <2>1, <2>2 DEF StatsType
  <2>3. CASE ~swap
    BY <1>2, <2>1, <2>3 DEF StatsType
  <2> QED BY <2>2, <2>3
<1>12. config.reorder = 0 => ~swap
  BY ZeroChance
<1>13. stats.reordered_pairs \in Nat
  BY <1>2 DEF StatsType
<1>14. config'.reorder = 0 => stats'.reordered_pairs = 0
  BY <1>1, <1>2, <1>11, <1>12, <1>13
<1>15. /\ index' \in 1 .. Len(emitted) + 1
       /\ \E more \in SUBSET (1 .. Len(emitted)) :
            /\ SwapsBelow(events', emitted, more, index')
            /\ Cardinality(more) = stats'.reordered_pairs
  <2>1. CASE swap
    <3>1. index' = index + 2 /\ events' = Swapped(events, index)
      BY <1>9, <2>1 DEF Stride
    <3>2. starts \cup {index} \in SUBSET (1 .. Len(emitted))
      BY <1>7
    <3>3. Cardinality(starts \cup {index}) = stats'.reordered_pairs
      BY <1>4, <1>8, <1>11, <2>1
    <3>4. index' \in 1 .. Len(emitted) + 1
      BY <1>5, <1>7, <3>1
    <3> QED BY <1>8, <3>1, <3>2, <3>3, <3>4
  <2>2. CASE ~swap
    <3>1. index' = index + 1 /\ events' = events
      BY <1>9, <2>2 DEF Stride
    <3>2. Cardinality(starts) = stats'.reordered_pairs
      BY <1>4, <1>11, <1>13, <2>2
    <3>3. index' \in 1 .. Len(emitted) + 1
      BY <1>5, <1>7, <3>1
    <3> QED BY <1>4, <1>8, <3>1, <3>2, <3>3
  <2> QED BY <2>1, <2>2
<1> HIDE DEF b
<1> QED BY <1>1, <1>2, <1>3, <1>10, <1>11, <1>14, <1>15 DEF GeneratorInv, b

LEMMA GeneratedStep ==
    ASSUME GeneratorInv, Generated
    PROVE  GeneratorInv'
<1>1. /\ generator = "reorder" /\ generator' = "returned"
      /\ config' = config /\ base_events' = base_events /\ index' = index
      /\ events' = events /\ stats' = stats /\ emitted' = emitted
  BY DEF Generated, AllReordered
<1>2. (Ready => Ready') /\ (Based => Based')
  BY <1>1, ReadyStays, BasedStays
<1>3. BeforeSwaps' = BeforeSwaps /\ Handled' = Handled
  BY <1>1 DEF BeforeSwaps, Handled
<1> QED BY <1>1, <1>2, <1>3 DEF GeneratorInv

LEMMA GeneratorInvStep ==
    ASSUME GeneratorInv, [CommandNext]_allVars
    PROVE  GeneratorInv'
<1>1. ASSUME NEW arguments \in ArgumentLists, ReadOptions(arguments)
      PROVE  GeneratorInv'
  <2> DEFINE line == ReadArguments(arguments, {"--print-events"}, GeneratorOptions)
  <2>1. UNCHANGED generatorVars \/ Construct(ConfigOf(line))
    BY <1>1 DEF ReadOptions
  <2>2. ConfigOf(line).rates \in [Sensors -> Nat]
    BY RatesAssumption DEF ConfigOf
  <2> QED BY <2>1, <2>2, ConstructStep, GeneratorInvStays
<1>2. ASSUME NEW c \in LibraryConfigs, CallLibrary(c)
      PROVE  GeneratorInv'
  <2>1. Construct(c) /\ c.rates \in [Sensors -> Nat]
    BY <1>2, RatesAssumption DEF CallLibrary
  <2> QED BY <2>1, ConstructStep
<1>3. CASE Generate
  BY <1>3, ScheduleStep, DropStep, EndOfDropsStep, ReorderStep, GeneratedStep DEF Generate
<1>4. CASE UNCHANGED generatorVars
  BY <1>4, GeneratorInvStays
<1>5. (ConfigRefused \/ EndOfGeneration \/ EndOfPublish) => UNCHANGED generatorVars
  BY DEF ConfigRefused, EndOfGeneration, EndOfPublish
<1>6. UNCHANGED allVars => UNCHANGED generatorVars
  BY DEF allVars
<1> QED BY <1>1, <1>2, <1>3, <1>4, <1>5, <1>6 DEF CommandNext, Command

LEMMA GeneratorInvHolds == CommandSpec => []GeneratorInv
<1>1. CommandInit => GeneratorInv
  BY GeneratorInvInit
<1>2. GeneratorInv /\ [CommandNext]_allVars => GeneratorInv'
  BY GeneratorInvStep
<1> QED BY <1>1, <1>2, PTL DEF CommandSpec

LEMMA InvSchedule == GeneratorInv => ScheduleSound
<1> SUFFICES ASSUME GeneratorInv, generator = "drop"
             PROVE  ScheduleSound
  BY DEF ScheduleSound
<1>1. Ready /\ Based
  BY DEF GeneratorInv
<1> DEFINE b == base_events
           d == config.duration
<1>2. /\ b \in Seq(EventType) /\ DOMAIN b = 1 .. Len(b)
      /\ Len(b) <= MaxGeneratedEvents + 4
      /\ \A i \in 1 .. Len(b) : b[i].timestamp > 0
      /\ config.max_jitter = 0 => InOrder(b)
      /\ \A i, j \in 1 .. Len(b) : b[i].producer = b[j].producer /\ b[i].number = b[j].number => i = j
  BY <1>1, BaseFacts DEF Arranged
<1>3. ASSUME NEW p PROVE OfProducer(p) = {i \in 1 .. Len(b) : b[i].producer = p}
  BY <1>2 DEF OfProducer
<1>4. ASSUME NEW p, NEW K, Counted(p, K) PROVE Cardinality(OfProducer(p)) = K
  BY <1>2, <1>3, <1>4, CountedCount
<1>5. ASSUME NEW p \in Sensors
      PROVE  /\ Cardinality(OfProducer(p)) = (d * config.rates[p]) \div Second
             /\ \A i \in OfProducer(p) :
                  LET start == (b[i].number * Second) \div config.rates[p]
                  IN  start < d /\ At(b[i], start)
  <2> DEFINE rate == config.rates[p]
  <2>1. /\ Counted(p, EventCount(d, rate))
        /\ \A i \in OfProducer(p) :
             ScheduledTime(b[i].number, rate) < d /\ At(b[i], ScheduledTime(b[i].number, rate))
    BY <1>1, BaseFacts
  <2>2. d \in Nat /\ rate \in Nat
    BY <1>1, ReadyIs
  <2>3. EventCount(d, rate) = (d * rate) \div Second
    BY <2>2, CountIs
  <2>4. ASSUME NEW i \in OfProducer(p)
        PROVE  ScheduledTime(b[i].number, rate) = (b[i].number * Second) \div rate
    <3>1. b[i].number \in 0 .. EventCount(d, rate) - 1
      BY <2>1 DEF Counted
    <3>2. rate # 0
      BY <2>2, <3>1, TimeInside
    <3>3. b[i].number \in Nat
      BY <2>1, <3>1 DEF Counted
    <3> QED BY <2>2, <3>2, <3>3, TimeIs
  <2> QED BY <1>4, <2>1, <2>3, <2>4
<1>6. \E states \in ControllerStates :
        /\ Cardinality(OfProducer("sim-controller")) = Len(states)
        /\ \A i \in OfProducer("sim-controller") :
             /\ b[i].state = states[b[i].number + 1]
             /\ b[i].state = "STOPPED" => At(b[i], d - 1)
  <2>1. PICK states \in ControllerStates :
          /\ Counted("sim-controller", Len(states))
          /\ \A i \in OfProducer("sim-controller") :
               /\ b[i].state = states[b[i].number + 1]
               /\ b[i].number = Len(states) - 1 => At(b[i], d - 1)
    BY <1>1, BaseFacts
  <2>2. Cardinality(OfProducer("sim-controller")) = Len(states)
    BY <1>4, <2>1
  <2>3. ASSUME NEW i \in OfProducer("sim-controller"), b[i].state = "STOPPED"
        PROVE  b[i].number = Len(states) - 1
    <3>1. b[i].number \in 0 .. Len(states) - 1 /\ states[b[i].number + 1] = "STOPPED"
      BY <2>1, <2>3 DEF Counted
    <3> DEFINE k == b[i].number + 1
    <3>2. k \in 1 .. Len(states) /\ Len(states) \in Nat
      BY <2>1, <3>1 DEF Counted
    <3>3. \A m \in 1 .. Len(states) : states[m] = "STOPPED" => m = Len(states)
      <4>1. CASE states = <<"INITIALIZING", "READY", "STOPPED">>
        <5>1. Len(states) = 3 /\ states[1] # "STOPPED" /\ states[2] # "STOPPED"
          BY <4>1
        <5>2. \A m \in 1 .. Len(states) : m = 1 \/ m = 2 \/ m = Len(states)
          BY <5>1
        <5> QED BY <5>1, <5>2
      <4>2. CASE states = <<"INITIALIZING", "READY", "DEGRADED", "STOPPED">>
        <5>1. Len(states) = 4 /\ states[1] # "STOPPED" /\ states[2] # "STOPPED"
              /\ states[3] # "STOPPED"
          BY <4>2
        <5>2. \A m \in 1 .. Len(states) : m = 1 \/ m = 2 \/ m = 3 \/ m = Len(states)
          BY <5>1
        <5> QED BY <5>1, <5>2
      <4> QED BY <4>1, <4>2 DEF ControllerStates
    <3>4. k = Len(states)
      BY <3>1, <3>2, <3>3
    <3> QED BY <3>1, <3>2, <3>4
  <2> QED BY <2>1, <2>2, <2>3
<1> QED BY <1>2, <1>5, <1>6 DEF ScheduleSound

\* The schedule of WorkloadGenerator::generate is exact for every duration, rate,
\* drift, jitter and draw: event_count, scheduled_time_ns and apply_clock_drift,
\* which divide before they multiply, agree with the undivided quotients, the
\* controller ends in STOPPED, and without jitter the sort never exchanges two
\* events of a producer.
THEOREM ScheduleIsSound == CommandSpec => []ScheduleSound
BY GeneratorInvHolds, InvSchedule, PTL

LEMMA InvFaults == GeneratorInv => FaultsAccounted
<1> SUFFICES ASSUME GeneratorInv, AllReordered
             PROVE  FaultsAccounted
  BY DEF FaultsAccounted
<1> DEFINE b == base_events
           n == Len(b)
           copies(e) == Cardinality({i \in DOMAIN emitted : emitted[i] = e})
           counted(k) == Cardinality({i \in DOMAIN b : copies(b[i]) = k})
<1>1. /\ generator = "reorder" /\ index >= Len(events)
  BY DEF AllReordered
<1>2. /\ Ready /\ Based /\ stats \in StatsType /\ stats.generated = n
      /\ Emission(b, emitted, n, stats.dropped, stats.duplicated)
      /\ index \in 1 .. Len(emitted) + 1
      /\ \E starts \in SUBSET (1 .. Len(emitted)) :
              /\ SwapsBelow(events, emitted, starts, index)
              /\ Cardinality(starts) = stats.reordered_pairs
  BY <1>1 DEF GeneratorInv, BeforeSwaps, Handled
<1>3. Arranged(b) /\ n \in Nat /\ DOMAIN b = 1 .. n
  BY <1>2, BaseFacts DEF Arranged
<1>4. /\ emitted \in Seq(EventType) /\ DOMAIN emitted = 1 .. Len(emitted) /\ Len(emitted) \in Nat
      /\ Len(emitted) = n - stats.dropped + stats.duplicated
      /\ \A i \in 1 .. Len(emitted) - 1 :
           emitted[i] = emitted[i + 1] \/ EventBefore(emitted[i], emitted[i + 1])
  BY <1>2 DEF Emission
<1>5. \A k : counted(k) = Cardinality(Times(b, emitted, n, k))
  BY <1>3, <1>4 DEF Times, Places
<1>6. counted(0) + counted(1) + counted(2) = n
      /\ counted(0) = stats.dropped /\ counted(2) = stats.duplicated
  <2> HIDE DEF counted
  <2>1. /\ Cardinality(Times(b, emitted, n, 0)) + Cardinality(Times(b, emitted, n, 1))
             + Cardinality(Times(b, emitted, n, 2)) = n
        /\ Cardinality(Times(b, emitted, n, 0)) = stats.dropped
        /\ Cardinality(Times(b, emitted, n, 2)) = stats.duplicated
    BY <1>2, <1>3, EmissionCounts
  <2> QED BY <1>5, <2>1
<1>7. \E starts \in SUBSET (1 .. Len(emitted) - 1) :
        /\ \A i \in starts : i + 1 \notin starts
        /\ Cardinality(starts) = stats.reordered_pairs
        /\ events = PairsSwapped(emitted, starts)
  <2>1. PICK starts \in SUBSET (1 .. Len(emitted)) :
          SwapsBelow(events, emitted, starts, index) /\ Cardinality(starts) = stats.reordered_pairs
    BY <1>2
  <2>2. starts \subseteq 1 .. index - 2
    BY <2>1 DEF SwapsBelow
  <2>3. starts \in SUBSET (1 .. Len(emitted) - 1)
    BY <1>2, <1>4, <2>2
  <2> QED BY <2>1, <2>3 DEF SwapsBelow
<1> HIDE DEF copies, counted
<1> QED BY <1>2, <1>4, <1>6, <1>7 DEF FaultsAccounted, copies, counted

\* The statistics of WorkloadGenerator::generate explain its events, whatever the
\* configuration and the draws: its two loops drop, double and swap exactly as
\* often as they count, and no event is carried further than one place.
THEOREM FaultsAreAccounted == CommandSpec => []FaultsAccounted
BY GeneratorInvHolds, InvFaults, PTL

\* Without duplicates and swaps the events are base events in their order.
LEMMA CleanEvents ==
    ASSUME GeneratorInv, generator \in {"reorder", "returned"},
           config.max_jitter = 0, config.duplicate = 0, config.reorder = 0
    PROVE  InOrder(events)
<1> DEFINE b == base_events
<1>1. /\ Ready /\ Based /\ stats \in StatsType
      /\ Emission(b, emitted, Len(b), stats.dropped, stats.duplicated)
      /\ InSequence(emitted) /\ stats.reordered_pairs = 0
      /\ \E starts \in SUBSET (1 .. Len(emitted)) :
              /\ SwapsBelow(events, emitted, starts, index)
              /\ Cardinality(starts) = stats.reordered_pairs
  BY DEF GeneratorInv, BeforeSwaps, Handled
<1>2. Arranged(b) /\ InOrder(b) /\ DOMAIN b = 1 .. Len(b) /\ Len(b) \in Nat
  BY <1>1, BaseFacts DEF Arranged
<1>3. emitted \in Seq(EventType) /\ DOMAIN emitted = 1 .. Len(emitted)
  BY <1>1 DEF Emission
<1>4. events = emitted
  <2>1. PICK starts \in SUBSET (1 .. Len(emitted)) :
          SwapsBelow(events, emitted, starts, index) /\ Cardinality(starts) = 0
    BY <1>1
  <2>2. starts = {}
    BY <2>1, FS_EmptySet DEF SwapsBelow
  <2>3. events = [i \in DOMAIN emitted |-> emitted[i]]
    BY <2>1, <2>2 DEF SwapsBelow, PairsSwapped
  <2> QED BY <1>3, <2>3
<1>5. ASSUME NEW i \in 1 .. Len(emitted), NEW j \in 1 .. Len(emitted), i < j,
             emitted[i].producer = emitted[j].producer
      PROVE  emitted[i].number < emitted[j].number
  <2>1. PICK k \in 1 .. Len(b) : emitted[i] = b[k]
    BY <1>1 DEF Emission
  <2>2. PICK m \in 1 .. Len(b) : emitted[j] = b[m]
    BY <1>1 DEF Emission
  <2>3. EventBefore(b[k], b[m])
    BY <1>1, <1>5, <2>1, <2>2 DEF InSequence
  <2>4. k < m
    BY <1>2, <2>3 DEF Arranged
  <2> QED BY <1>2, <1>5, <2>1, <2>2, <2>4 DEF InOrder
<1> QED BY <1>3, <1>4, <1>5 DEF InOrder

\* Without jitter, duplicates and swaps WorkloadGenerator::generate returns every
\* producer's events with increasing numbers, also for a clock that stands still,
\* where the order rests on the last comparison of the sort alone.
THEOREM CleanWorkloadsInOrder == CommandSpec => []CleanIsInOrder
<1>1. GeneratorInv => CleanIsInOrder
  BY CleanEvents DEF CleanIsInOrder, AllReordered
<1> QED BY <1>1, GeneratorInvHolds, PTL

-----------------------------------------------------------------------------
(* Gaps and refusals. *)

Rising(s) == \A i, j \in 1 .. Len(s) : i < j => s[i].number < s[j].number

\* The events of one producer are elements of the workload, in its order.
LEMMA OwnOrder ==
    ASSUME NEW p, NEW S, NEW q \in Seq(S)
    PROVE  LET e == OwnEvents(p, q)[Len(q)] IN
           /\ \A i \in 1 .. Len(e) : \E m \in 1 .. Len(q) : e[i] = q[m] /\ q[m].producer = p
           /\ InOrder(q) => Rising(e)
<1> DEFINE f == OwnEvents(p, q)
           Good(n) == /\ f[n] \in Seq(S)
                      /\ \A i \in 1 .. Len(f[n]) :
                           \E m \in 1 .. n : f[n][i] = q[m] /\ q[m].producer = p
                      /\ InOrder(q) => Rising(f[n])
           T == {n \in 0 .. Len(q) : Good(n)}
<1>1. Len(q) \in Nat /\ DOMAIN q = 1 .. Len(q)
  OBVIOUS
<1>2. /\ f[0] = <<>>
      /\ \A n \in 1 .. Len(q) :
           f[n] = IF q[n].producer = p THEN Append(f[n - 1], q[n]) ELSE f[n - 1]
  BY OwnAt
<1> HIDE DEF f
<1>3. 0 \in T
  <2>1. f[0] \in Seq(S) /\ Len(f[0]) = 0
    BY <1>2
  <2>2. \A i \in 1 .. Len(f[0]) : FALSE
    BY <2>1
  <2>3. Good(0)
    BY <2>1, <2>2 DEF Rising
  <2> QED BY <1>1, <2>3
<1>4. ASSUME NEW n \in 0 .. Len(q), n # Len(q), n \in T PROVE n + 1 \in T
  <2>1. n + 1 \in 1 .. Len(q) /\ n \in Nat /\ (n + 1) - 1 = n /\ n + 1 \in 0 .. Len(q)
    <3> DEFINE L == Len(q)
    <3>1. L \in Nat /\ n \in 0 .. L /\ n # L
      BY <1>1, <1>4
    <3> HIDE DEF L
    <3>2. n + 1 \in 1 .. L /\ n \in Nat /\ (n + 1) - 1 = n /\ n + 1 \in 0 .. L
      BY <3>1
    <3> QED BY <3>2 DEF L
  <2>2. Good(n)
    BY <1>4
  <2> DEFINE x == q[n + 1]
             s == f[n]
             t == f[n + 1]
  <2>3. t = IF x.producer = p THEN Append(s, x) ELSE s
    BY <1>2, <2>1
  <2>4. x \in S /\ s \in Seq(S) /\ Len(s) \in Nat
    BY <2>1, <2>2
  <2>5. \A m \in 1 .. n : m \in 1 .. n + 1 /\ m \in 1 .. Len(q) /\ m < n + 1
    BY <1>1, <2>1
  <2> HIDE DEF x
  <2>6. CASE x.producer # p
    <3>1. t = s
      BY <2>3, <2>6
    <3>2. Good(n + 1)
      BY <2>2, <2>5, <3>1
    <3> QED BY <2>1, <3>2
  <2>7. CASE x.producer = p
    <3>0. /\ \A i \in 1 .. Len(s) : \E m \in 1 .. n : s[i] = q[m] /\ q[m].producer = p
          /\ InOrder(q) => Rising(s)
      BY <2>2
    <3> HIDE DEF Good, s, t
    <3>1. /\ t \in Seq(S) /\ Len(t) = Len(s) + 1 /\ t[Len(s) + 1] = x
          /\ \A i \in 1 .. Len(s) : t[i] = s[i]
      BY <2>3, <2>4, <2>7
    <3>2. \A i \in 1 .. Len(t) : i \in 1 .. Len(s) \/ i = Len(s) + 1
      BY <2>4, <3>1
    <3>3. ASSUME NEW i \in 1 .. Len(t)
          PROVE  \E m \in 1 .. n + 1 : t[i] = q[m] /\ q[m].producer = p
      <4>1. CASE i \in 1 .. Len(s)
        BY <2>5, <3>0, <3>1, <4>1
      <4>2. CASE i = Len(s) + 1
        <5>1. n + 1 \in 1 .. n + 1 /\ t[i] = q[n + 1]
          BY <2>1, <3>1, <4>2 DEF x
        <5> QED BY <2>7, <5>1 DEF x
      <4> QED BY <3>2, <4>1, <4>2
    <3>4. ASSUME InOrder(q), NEW i \in 1 .. Len(t), NEW j \in 1 .. Len(t), i < j
          PROVE  t[i].number < t[j].number
      <4>1. i \in 1 .. Len(s)
        BY <2>4, <3>1, <3>4
      <4>2. CASE j \in 1 .. Len(s)
        BY <3>0, <3>1, <3>4, <4>1, <4>2 DEF Rising
      <4>3. CASE j = Len(s) + 1
        <5>1. PICK m \in 1 .. n : s[i] = q[m] /\ q[m].producer = p
          BY <3>0, <4>1
        <5>2. m \in DOMAIN q /\ n + 1 \in DOMAIN q /\ m < n + 1
          BY <1>1, <2>1, <2>5
        <5>3. q[m].number < q[n + 1].number
          BY <2>7, <3>4, <5>1, <5>2 DEF InOrder, x
        <5> QED BY <3>1, <4>1, <4>3, <5>1, <5>3 DEF x
      <4> QED BY <3>2, <4>2, <4>3
    <3>5. InOrder(q) => Rising(t)
      BY <3>4 DEF Rising
    <3>6. Good(n + 1)
      BY <3>1, <3>3, <3>5 DEF Good, t
    <3> QED BY <2>1, <3>6
  <2> QED BY <2>6, <2>7
<1>5. Len(q) \in T
  <2>1. \A i \in 0 .. Len(q) : i # Len(q) /\ i \in T => i + 1 \in T
    BY <1>4
  <2> HIDE DEF T
  <2>2. \A i \in 0 .. Len(q) : i \in T
    BY <1>1, <1>3, <2>1, SetInduction
  <2> QED BY <1>1, <2>2
<1> QED BY <1>5 DEF f

\* Of the numbers between the first and the last of n rising ones, those that
\* are missing.
LEMMA MissingCount ==
    ASSUME NEW n \in Nat \ {0}, NEW g \in [1 .. n -> Nat],
           \A i, j \in 1 .. n : i < j => g[i] < g[j]
    PROVE  LET G == {k \in g[1] .. g[n] : \A i \in 1 .. n : k # g[i]} IN
           IsFiniteSet(G) /\ Cardinality(G) = g[n] - g[1] - (n - 1)
<1> DEFINE I == g[1] .. g[n]
           R == {g[i] : i \in 1 .. n}
<1>1. 1 \in 1 .. n /\ n \in 1 .. n /\ g[1] \in Int /\ g[n] \in Int /\ g[1] <= g[n]
  <2>1. 1 \in 1 .. n /\ n \in 1 .. n
    OBVIOUS
  <2>2. g[1] \in Nat /\ g[n] \in Nat
    BY <2>1
  <2>3. n = 1 \/ 1 < n
    OBVIOUS
  <2> QED BY <2>1, <2>2, <2>3
<1>2. IsFiniteSet(I) /\ Cardinality(I) = g[n] - g[1] + 1
  <2>1. IsFiniteSet(I) /\ Cardinality(I) = IF g[1] > g[n] THEN 0 ELSE g[n] - g[1] + 1
    BY <1>1, FS_Interval
  <2> QED BY <1>1, <2>1
<1>3. IsFiniteSet(R) /\ Cardinality(R) = n
  <2>1. g \in [1 .. n -> R] /\ \A x \in R : \E k \in 1 .. n : g[k] = x
    OBVIOUS
  <2>2. \A j, k \in 1 .. n : g[j] = g[k] => j = k
    OBVIOUS
  <2> HIDE DEF R
  <2> QED BY <2>1, <2>2, PlacesCount
<1>4. R \subseteq I
  <2>1. ASSUME NEW i \in 1 .. n PROVE g[i] \in I
    <3>1. (i = 1 \/ 1 < i) /\ (i = n \/ i < n)
      OBVIOUS
    <3>2. g[i] \in Nat
      OBVIOUS
    <3> QED BY <1>1, <3>1, <3>2
  <2> QED BY <2>1
<1>5. I \cap R = R
  BY <1>4
<1>6. {k \in g[1] .. g[n] : \A i \in 1 .. n : k # g[i]} = I \ R
  OBVIOUS
<1> HIDE DEF I, R
<1>7. IsFiniteSet(I \ R) /\ Cardinality(I \ R) = Cardinality(I) - Cardinality(I \cap R)
  BY <1>2, FS_Difference
<1>8. Cardinality(I \ R) = g[n] - g[1] - (n - 1)
  <2> DEFINE a == g[1]
             b == g[n]
  <2>1. a \in Int /\ b \in Int /\ Cardinality(I \ R) = (b - a + 1) - n
    BY <1>1, <1>2, <1>3, <1>5, <1>7
  <2> HIDE DEF a, b
  <2>2. (b - a + 1) - n = b - a - (n - 1)
    BY <2>1
  <2> QED BY <2>1, <2>2 DEF a, b
<1> QED BY <1>6, <1>7, <1>8

\* The workload of a generator that has returned.
LEMMA EventsFacts ==
    ASSUME GeneratorInv, generator = "returned"
    PROVE  /\ events \in Seq(EventType) /\ Ready /\ Based
           /\ \A i \in 1 .. Len(events) : \E j \in 1 .. Len(base_events) : events[i] = base_events[j]
<1> DEFINE b == base_events
<1>1. /\ Ready /\ Based
      /\ Emission(b, emitted, Len(b), stats.dropped, stats.duplicated)
      /\ index \in 1 .. Len(emitted) + 1
      /\ \E starts \in SUBSET (1 .. Len(emitted)) : SwapsBelow(events, emitted, starts, index)
  BY DEF GeneratorInv, BeforeSwaps, Handled
<1>2. PICK starts \in SUBSET (1 .. Len(emitted)) : SwapsBelow(events, emitted, starts, index)
  BY <1>1
<1>3. /\ emitted \in Seq(EventType) /\ Len(emitted) \in Nat /\ DOMAIN emitted = 1 .. Len(emitted)
      /\ \A i \in 1 .. Len(emitted) : \E j \in 1 .. Len(b) : emitted[i] = b[j]
  BY <1>1 DEF Emission
<1>4. events \in Seq(EventType) /\ Len(events) = Len(emitted)
  BY <1>1, <1>2, <1>3, SwapsKeepLength
<1>5. ASSUME NEW i \in 1 .. Len(events) PROVE \E k \in 1 .. Len(emitted) : events[i] = emitted[k]
  <2>1. starts \subseteq 1 .. index - 2 /\ events = PairsSwapped(emitted, starts)
    BY <1>2 DEF SwapsBelow
  <2>2. i \in 1 .. Len(emitted)
    BY <1>4
  <2>3. events[i] = IF i \in starts THEN emitted[i + 1]
                    ELSE IF i - 1 \in starts THEN emitted[i - 1] ELSE emitted[i]
    BY <1>3, <2>1, <2>2 DEF PairsSwapped
  <2>4. i \in starts => i + 1 \in 1 .. Len(emitted)
    BY <1>1, <1>3, <2>1
  <2>5. i - 1 \in starts => i - 1 \in 1 .. Len(emitted)
    BY <1>1, <1>3, <2>1
  <2> QED BY <2>2, <2>3, <2>4, <2>5
<1> QED BY <1>1, <1>3, <1>4, <1>5, SMTT(30)

\* Every producer's base events are numbered from zero.
LEMMA AllCounted ==
    ASSUME Ready, Based, NEW p \in Names
    PROVE  \E K : Counted(p, K)
<1>1. \A q \in Sensors : \E K : Counted(q, K)
  BY BaseFacts
<1>2. \E K : Counted("sim-controller", K)
  BY BaseFacts
<1> QED BY <1>1, <1>2 DEF Names

\* The gaps of a stream that arrived completely are the drops inside it.
LEMMA GapsAreDrops ==
    ASSUME GeneratorInv, generator = "returned", workload = events, NEW p \in Producers,
           accepted[p] = EventsOf(p), Rising(EventsOf(p))
    PROVE  SequenceGaps(p) = Cardinality(DroppedInside(p))
<1> DEFINE e == EventsOf(p)
           n == Len(e)
           b == base_events
           sent == {x.number : x \in ToSet(e)}
           g == [i \in 1 .. n |-> e[i].number]
<1>1. /\ events \in Seq(EventType) /\ Ready /\ Based
      /\ \A i \in 1 .. Len(events) : \E j \in 1 .. Len(b) : events[i] = b[j]
  BY EventsFacts
<1>2. /\ e \in Seq(EventType)
      /\ \A i \in 1 .. n : \E m \in 1 .. Len(events) : e[i] = events[m] /\ events[m].producer = p
  <2>1. e = OwnEvents(p, events)[Len(events)]
    BY EventsAreOwn
  <2> HIDE DEF e
  <2> QED BY <1>1, <2>1, OwnType, OwnOrder
<1>3. n \in Nat /\ DOMAIN e = 1 .. n
  BY <1>2
<1>4. /\ b \in Seq(EventType) /\ Len(b) \in Nat /\ DOMAIN b = 1 .. Len(b)
      /\ \A i, j \in 1 .. Len(b) : b[i].producer = b[j].producer /\ b[i].number = b[j].number => i = j
  BY <1>1, BaseFacts DEF Arranged
<1>5. p \in Names
  <2>1. PICK i \in DOMAIN workload : p = workload[i].producer
    BY DEF Producers
  <2>2. events[i] \in EventType /\ p = events[i].producer
    BY <1>1, <2>1
  <2> QED BY <2>2 DEF EventType
<1>6. PICK K : Counted(p, K)
  BY <1>1, <1>5, AllCounted
<1>7. OfProducer(p) = {i \in 1 .. Len(b) : b[i].producer = p}
  BY <1>4 DEF OfProducer
<1>8. ASSUME NEW i \in 1 .. n PROVE e[i].number \in 0 .. K - 1 /\ e[i].number \in Nat
  <2>1. PICK m \in 1 .. Len(events) : e[i] = events[m] /\ events[m].producer = p
    BY <1>2
  <2>2. PICK j \in 1 .. Len(b) : events[m] = b[j]
    BY <1>1
  <2>3. j \in OfProducer(p) /\ e[i] = b[j]
    BY <1>7, <2>1, <2>2
  <2>4. e[i].number \in 0 .. K - 1 /\ K \in Nat
    BY <1>6, <2>3 DEF Counted
  <2> QED BY <2>4
<1>9. sent = {e[i].number : i \in 1 .. n}
  BY <1>3 DEF ToSet
<1>10. DroppedInside(p) =
         {i \in OfProducer(p) :
            /\ b[i].number \notin sent
            /\ \E m \in sent : m < b[i].number
            /\ \E m \in sent : b[i].number < m}
  BY DEF DroppedInside
<1>11. CASE n = 0
  <2>0. \A i \in 1 .. n : FALSE
    BY <1>11
  <2>1. sent = {}
    BY <1>9, <2>0
  <2>2. DroppedInside(p) = {}
    BY <1>10, <2>1
  <2>3. Cardinality({}) = 0
    BY FS_EmptySet
  <2>4. SequenceGaps(p) = 0
    BY <1>11 DEF SequenceGaps
  <2> QED BY <2>2, <2>3, <2>4
<1>12. CASE n # 0
  <2> DEFINE G == {k \in g[1] .. g[n] : \A i \in 1 .. n : k # g[i]}
             D == DroppedInside(p)
             num == [i \in D |-> b[i].number]
  <2>0. n \in Nat \ {0} /\ 1 \in 1 .. n /\ n \in 1 .. n
    BY <1>3, <1>12
  <2>1. g \in [1 .. n -> Nat] /\ \A i \in 1 .. n : g[i] = e[i].number
    BY <1>8
  <2>2. \A i, j \in 1 .. n : i < j => g[i] < g[j]
    BY <2>1 DEF Rising
  <2>3. SequenceGaps(p) = g[n] - g[1] - (n - 1)
    BY <1>12, <2>0, <2>1 DEF SequenceGaps
  <2>4. sent = {g[i] : i \in 1 .. n}
    BY <1>9, <2>1
  <2> HIDE DEF g, e, n, sent
  <2>5. IsFiniteSet(G) /\ Cardinality(G) = g[n] - g[1] - (n - 1)
    BY <2>0, <2>1, <2>2, MissingCount
  <2>6. \A i \in 1 .. n : g[1] <= g[i] /\ g[i] <= g[n]
    <3>1. \A i \in 1 .. n : (i = 1 \/ 1 < i) /\ (i = n \/ i < n)
      BY <2>0
    <3> QED BY <2>0, <2>1, <2>2, <3>1
  <2>7. ASSUME NEW i \in OfProducer(p)
        PROVE  b[i].number \in 0 .. K - 1 /\ b[i].number \in Nat /\ (i \in D <=> b[i].number \in G)
    <3> DEFINE k == b[i].number
    <3>1. k \in 0 .. K - 1 /\ K \in Nat
      BY <1>6 DEF Counted
    <3>2. k \in Nat
      BY <3>1
    <3>3. i \in D <=> /\ k \notin sent
                      /\ \E m \in sent : m < k
                      /\ \E m \in sent : k < m
      BY <1>10
    <3> HIDE DEF k, D
    <3>4. k \notin sent <=> \A j \in 1 .. n : k # g[j]
      BY <2>4
    <3>5. ASSUME i \in D PROVE k \in G
      <4>1. PICK j \in 1 .. n : g[j] < k
        BY <2>4, <3>3, <3>5
      <4>2. PICK m \in 1 .. n : k < g[m]
        BY <2>4, <3>3, <3>5
      <4>3. k \in g[1] .. g[n]
        BY <2>0, <2>1, <2>6, <3>2, <4>1, <4>2
      <4> QED BY <3>3, <3>4, <3>5, <4>3
    <3>6. ASSUME k \in G PROVE i \in D
      <4>1. k \in g[1] .. g[n] /\ k # g[1] /\ k # g[n]
        BY <2>0, <3>6
      <4>2. g[1] < k /\ k < g[n]
        BY <2>0, <2>1, <3>2, <4>1
      <4> QED BY <2>0, <2>4, <3>3, <3>4, <3>6, <4>2
    <3> QED BY <3>1, <3>2, <3>5, <3>6 DEF k
  <2>8. D \subseteq OfProducer(p)
    BY <1>10
  <2> HIDE DEF D
  <2>9. num \in [D -> G]
    BY <2>7, <2>8
  <2>10. \A i, j \in D : num[i] = num[j] => i = j
    BY <1>4, <1>7, <2>8
  <2>11. ASSUME NEW k \in G PROVE \E i \in D : num[i] = k
    <3>1. g[1] \in Nat /\ g[n] \in Nat /\ g[n] \in 0 .. K - 1 /\ K \in Nat
      BY <1>6, <1>8, <2>0, <2>1 DEF Counted, g
    <3>2. k \in 0 .. K - 1
      BY <3>1
    <3>3. PICK i \in OfProducer(p) : b[i].number = k
      BY <1>6, <3>2 DEF Counted
    <3>4. i \in D
      BY <2>7, <3>3
    <3> QED BY <3>3, <3>4
  <2> HIDE DEF num, G
  <2>12. ExistsBijection(D, G)
    BY <2>9, <2>10, <2>11 DEF ExistsBijection, Bijection, Injection, Surjection, IsInjective
  <2>13. IsFiniteSet(D)
    <3>1. 1 \in Int /\ Len(b) \in Int
      BY <1>4
    <3>2. IsFiniteSet(1 .. Len(b))
      BY <3>1, FS_Interval
    <3>3. D \subseteq 1 .. Len(b)
      BY <1>7, <2>8
    <3> QED BY <3>2, <3>3, FS_Subset
  <2>14. Cardinality(G) = Cardinality(D)
    BY <2>12, <2>13, FS_Bijection
  <2> QED BY <2>3, <2>5, <2>14 DEF D
<1> QED BY <1>11, <1>12

-----------------------------------------------------------------------------
(* The streams of a workload. *)

CleanConfig == config.max_jitter = 0 /\ config.duplicate = 0 /\ config.reorder = 0

\* What the collector has of p's stream, and what it made of it.
DeliveredInv(p) ==
    /\ Rising(accepted[p])
    /\ report[p].status = "OK" => report[p].gaps = SequenceGaps(p)
    /\ CleanConfig => outcome[p] # "INVALID_ARGUMENT"

DeliveryInv ==
    /\ main # "idle" => generator = "returned" /\ workload = events
    /\ \A p \in Producers : DeliveredInv(p)

LEMMA GeneratorRests ==
    ASSUME generator = "returned"
    PROVE  ~Generate /\ \A c : ~Construct(c)
BY DEF Generate, Schedule, DropOrDuplicate, EndOfDrops, Reorder, Generated, AllReordered, Construct

LEMMA IdleHasNoStreams ==
    ASSUME CommandInv', main' = "idle" PROVE DeliveryInv'
<1>1. workload' = <<>>
  BY DEF CommandInv
<1>2. Producers' = {}
  BY <1>1 DEF Producers
<1> QED BY <1>2 DEF DeliveryInv

LEMMA DeliveredStays ==
    ASSUME NEW p, DeliveredInv(p), config' = config, accepted'[p] = accepted[p],
           report'[p] = report[p], outcome'[p] = outcome[p]
    PROVE  DeliveredInv(p)'
BY DEF DeliveredInv, SequenceGaps, CleanConfig

\* In a clean workload the next event on the wire is always new.
LEMMA CleanIncreases ==
    ASSUME PublishInv, GeneratorInv, DeliveryInv, CleanConfig, NEW p \in Producers,
           main # "idle", outcome[p] = "open", wire[p] # <<>>
    PROVE  Increases(p, Head(wire[p]))
<1> DEFINE e == EventsOf(p)
           a == accepted[p]
           w == wire[p]
<1>1. /\ Listed(workload) /\ a \in Seq(Elements) /\ w \in Seq(Elements) /\ written[p] \in Nat
      /\ StreamInv(p) /\ w # <<>>
  BY DEF PublishInv, PublishType
<1>2. e \in Seq(Elements) /\ Attempted(p) = Len(e)
  BY <1>1, EventsType DEF Attempted
<1>3. ~Over(p)
  BY <1>1 DEF StreamInv
<1>4. a \o w = SubSeq(e, 1, written[p]) /\ written[p] <= Len(e)
  BY <1>1, <1>2, <1>3 DEF StreamInv
<1>5. generator = "returned" /\ workload = events
  BY DEF DeliveryInv
<1>6. InOrder(workload)
  BY <1>5, CleanEvents DEF CleanConfig
<1>7. Rising(e)
  <2>1. workload \in Seq(EventType)
    BY <1>5, EventsFacts
  <2>2. e = OwnEvents(p, workload)[Len(workload)]
    BY EventsAreOwn
  <2> HIDE DEF e
  <2> QED BY <1>6, <2>1, <2>2, OwnOrder
<1> HIDE DEF e, a, w
<1>8. SUFFICES ASSUME NEW i \in DOMAIN a PROVE a[i].number < Head(w).number
  BY DEF Increases, a, w
<1> DEFINE n == Len(a)
           L == Len(w)
           k == written[p]
<1>9. n \in Nat /\ i \in 1 .. n /\ L \in Nat \ {0} /\ Head(w) = w[1]
  BY <1>1
<1>10. /\ Len(a \o w) = n + L
       /\ \A j \in 1 .. n : (a \o w)[j] = a[j]
       /\ (a \o w)[n + 1] = w[1]
  BY <1>1, <1>9
<1>11. Len(SubSeq(e, 1, k)) = k /\ \A j \in 1 .. k : SubSeq(e, 1, k)[j] = e[j]
  BY <1>1, <1>2, <1>4
<1>12. k = n + L
  BY <1>4, <1>10, <1>11
<1>13. i \in 1 .. k /\ n + 1 \in 1 .. k /\ i < n + 1
  BY <1>9, <1>12
<1>14. a[i] = e[i] /\ w[1] = e[n + 1]
  BY <1>4, <1>9, <1>10, <1>11, <1>13
<1>15. i \in 1 .. Len(e) /\ n + 1 \in 1 .. Len(e)
  BY <1>1, <1>2, <1>4, <1>13
<1> QED BY <1>7, <1>9, <1>13, <1>14, <1>15 DEF Rising

LEMMA RisingAppend ==
    ASSUME NEW S, NEW a \in Seq(S), NEW x \in S, Rising(a), \A i \in DOMAIN a : a[i].number < x.number
    PROVE  Rising(Append(a, x))
<1> DEFINE t == Append(a, x)
<1>1. /\ Len(a) \in Nat /\ Len(t) = Len(a) + 1 /\ t[Len(a) + 1] = x /\ DOMAIN a = 1 .. Len(a)
      /\ \A i \in 1 .. Len(a) : t[i] = a[i]
  OBVIOUS
<1> HIDE DEF t
<1>2. SUFFICES ASSUME NEW i \in 1 .. Len(t), NEW j \in 1 .. Len(t), i < j
               PROVE  t[i].number < t[j].number
  BY DEF Rising, t
<1>3. i \in 1 .. Len(a) /\ (j \in 1 .. Len(a) \/ j = Len(a) + 1)
  BY <1>1, <1>2
<1> QED BY <1>1, <1>2, <1>3 DEF Rising

LEMMA DeliveryReads ==
    ASSUME PublishInv, GeneratorInv, DeliveryInv, main # "idle", NEW p \in Producers,
           CollectorReads(p), config' = config
    PROVE  \A q \in Producers : DeliveredInv(q)'
<1>1. /\ outcome[p] = "open" /\ wire[p] # <<>> /\ report' = report
      /\ outcome \in [Producers -> Outcomes] /\ accepted \in [Producers -> Seq(Elements)]
      /\ wire[p] \in Seq(Elements)
  BY DEF CollectorReads, threadVars, PublishInv, PublishType
<1>2. report[p].status # "OK"
  BY <1>1 DEF PublishInv, ResultInv
<1>3. DeliveredInv(p)
  BY DEF DeliveryInv
<1>4. ASSUME NEW q \in Producers, q # p PROVE DeliveredInv(q)'
  <2>1. accepted'[q] = accepted[q] /\ outcome'[q] = outcome[q]
    BY <1>1, <1>4 DEF CollectorReads
  <2> QED BY <1>1, <2>1, DeliveredStays DEF DeliveryInv
<1> DEFINE e == Head(wire[p])
<1>5. CASE /\ Increases(p, e)
           /\ accepted' = [accepted EXCEPT ![p] = Append(@, e)]
           /\ UNCHANGED outcome
  <2>1. accepted[p] \in Seq(Elements) /\ e \in Elements /\ accepted'[p] = Append(accepted[p], e)
    BY <1>1, <1>5
  <2> HIDE DEF e
  <2>2. Rising(accepted'[p])
    BY <1>3, <1>5, <2>1, RisingAppend DEF DeliveredInv, Increases
  <2>3. DeliveredInv(p)'
    BY <1>1, <1>2, <1>3, <1>5, <2>2 DEF DeliveredInv, CleanConfig
  <2> QED BY <1>4, <2>3
<1>6. ASSUME NEW status, outcome' = [outcome EXCEPT ![p] = status], UNCHANGED accepted,
             status = "INVALID_ARGUMENT" => ~Increases(p, e)
      PROVE  \A q \in Producers : DeliveredInv(q)'
  <2>1. outcome'[p] = status
    BY <1>1, <1>6
  <2>2. CleanConfig => status # "INVALID_ARGUMENT"
    BY <1>1, <1>6, CleanIncreases
  <2>3. DeliveredInv(p)'
    BY <1>1, <1>2, <1>3, <1>6, <2>1, <2>2 DEF DeliveredInv, CleanConfig
  <2> QED BY <1>4, <2>3
<1> QED BY <1>5, <1>6 DEF CollectorReads

LEMMA DeliveryPublish ==
    ASSUME PublishInv, GeneratorInv, DeliveryInv, main # "idle", PublishNext, config' = config
    PROVE  \A q \in Producers : DeliveredInv(q)'
<1>0. \A q \in Producers : DeliveredInv(q)
  BY DEF DeliveryInv
<1>1. CASE /\ UNCHANGED <<report, accepted, outcome>>
  BY <1>0, <1>1, DeliveredStays
<1>2. CASE ConnectTimesOut
  <2>1. ASSUME NEW q \in Producers PROVE report'[q].status = "UNAVAILABLE"
    BY <1>2 DEF ConnectTimesOut, NoResult
  <2>2. UNCHANGED <<accepted, outcome>>
    BY <1>2 DEF ConnectTimesOut, streamVars
  <2> QED BY <1>0, <2>1, <2>2 DEF DeliveredInv, CleanConfig
<1>3. ASSUME NEW p \in Producers, Finish(p) PROVE \A q \in Producers : DeliveredInv(q)'
  <2>1. PICK status \in Statuses(p) : report' = [report EXCEPT ![p] = ResultOf(p, status)]
    BY <1>3 DEF Finish
  <2>2. UNCHANGED <<accepted, outcome>> /\ DOMAIN report = Producers
    BY <1>3 DEF Finish, streamVars, PublishInv, PublishType
  <2>3. ASSUME NEW q \in Producers, q # p PROVE DeliveredInv(q)'
    <3>1. report'[q] = report[q]
      BY <2>1, <2>2, <2>3
    <3> QED BY <1>0, <2>2, <3>1, DeliveredStays
  <2>4. report'[p] = ResultOf(p, status)
    BY <2>1, <2>2
  <2>5. report'[p].status = "OK" => report'[p].gaps = SequenceGaps(p)
    BY <2>4 DEF ResultOf
  <2>6. SequenceGaps(p)' = SequenceGaps(p)
    BY <2>2 DEF SequenceGaps
  <2>7. DeliveredInv(p)'
    BY <1>0, <2>2, <2>5, <2>6 DEF DeliveredInv, CleanConfig
  <2> QED BY <2>3, <2>7
<1>4. ASSUME NEW p \in Producers, CollectorFinishes(p) PROVE \A q \in Producers : DeliveredInv(q)'
  <2>1. /\ UNCHANGED <<accepted, report>> /\ outcome' = [outcome EXCEPT ![p] = "OK"]
        /\ DOMAIN outcome = Producers
    BY <1>4 DEF CollectorFinishes, threadVars, PublishInv, PublishType
  <2>2. ASSUME NEW q \in Producers, q # p PROVE DeliveredInv(q)'
    <3>1. outcome'[q] = outcome[q]
      BY <2>1, <2>2
    <3> QED BY <1>0, <2>1, <3>1, DeliveredStays
  <2>3. outcome'[p] = "OK"
    BY <2>1
  <2>4. SequenceGaps(p)' = SequenceGaps(p)
    BY <2>1 DEF SequenceGaps
  <2>5. DeliveredInv(p)'
    BY <1>0, <2>1, <2>3, <2>4 DEF DeliveredInv
  <2> QED BY <2>2, <2>5
<1>5. (Connect \/ JoinThreads \/ Break) => UNCHANGED <<report, accepted, outcome>>
  BY DEF Connect, JoinThreads, Break, streamVars, threadVars
<1>6. ASSUME NEW p, WriteSucceeds(p) \/ WriteFails(p) \/ WritesDone(p)
      PROVE  UNCHANGED <<report, accepted, outcome>>
  BY <1>6 DEF WriteSucceeds, WriteFails, WritesDone, EndOfWrites
<1>7. ASSUME NEW p \in Producers, CollectorReads(p) PROVE \A q \in Producers : DeliveredInv(q)'
  BY <1>7, DeliveryReads
<1> QED BY <1>1, <1>2, <1>3, <1>4, <1>5, <1>6, <1>7 DEF PublishNext, PublisherThread, Collector

LEMMA DeliveryStep ==
    ASSUME PublishInv, CommandInv, CommandInv', GeneratorInv, DeliveryInv, [CommandNext]_allVars
    PROVE  DeliveryInv'
<1>1. CASE main' = "idle"
  BY <1>1, IdleHasNoStreams
<1>2. CASE main # "idle" /\ UNCHANGED <<generatorVars, publishVars>>
  <2>1. /\ config' = config /\ generator' = generator /\ events' = events
        /\ workload' = workload /\ main' = main /\ report' = report
        /\ outcome' = outcome /\ accepted' = accepted /\ Producers' = Producers
    BY <1>2 DEF generatorVars, publishVars, threadVars, streamVars, Producers
  <2>2. \A p \in Producers : DeliveredInv(p)'
    BY <2>1, DeliveredStays DEF DeliveryInv
  <2> QED BY <2>1, <2>2 DEF DeliveryInv
<1>3. CASE PublishNext /\ UNCHANGED <<generatorVars, commandVars>>
  <2>1. main # "idle" /\ main' # "idle"
    BY <1>3, NotIdle, NeverIdleAgain
  <2>2. config' = config /\ generator' = generator /\ events' = events
    BY <1>3 DEF generatorVars
  <2>3. workload' = workload
    BY <1>3 DEF PublishNext, Connect, ConnectTimesOut, JoinThreads, Break, PublisherThread,
                Collector, WriteSucceeds, WriteFails, WritesDone, EndOfWrites, Finish,
                CollectorReads, CollectorFinishes
  <2>4. Producers' = Producers
    BY <2>3 DEF Producers
  <2>5. \A p \in Producers : DeliveredInv(p)'
    BY <1>3, <2>1, <2>2, DeliveryPublish
  <2> QED BY <2>1, <2>2, <2>3, <2>4, <2>5 DEF DeliveryInv
<1>4. CASE EndOfGeneration /\ main' # "idle"
  <2>0. main = "idle"
    BY <1>4 DEF EndOfGeneration, CommandInv
  <2>1. generator = "returned" /\ Publish(events) /\ UNCHANGED generatorVars
    BY <1>4, <2>0 DEF EndOfGeneration, publishVars
  <2>2. /\ workload' = events' /\ generator' = "returned"
        /\ report' = [p \in Producers' |-> NoResult]
        /\ outcome' = [p \in Producers' |-> "open"]
        /\ accepted' = [p \in Producers' |-> <<>>]
    BY <2>1 DEF Publish, generatorVars
  <2>3. ASSUME NEW p \in Producers' PROVE DeliveredInv(p)'
    <3>1. accepted'[p] = <<>> /\ report'[p] = NoResult /\ outcome'[p] = "open"
      BY <2>2
    <3>2. NoResult.status # "OK"
      BY DEF NoResult
    <3>3. Len(<<>>) = 0 /\ \A i \in 1 .. 0 : FALSE
      OBVIOUS
    <3>4. Rising(<<>>)
      BY <3>3 DEF Rising
    <3> QED BY <3>1, <3>2, <3>4 DEF DeliveredInv
  <2> QED BY <2>2, <2>3 DEF DeliveryInv
<1>5. ASSUME main # "idle", main' # "idle", Command, ~EndOfGeneration
      PROVE  UNCHANGED <<generatorVars, publishVars>>
  <2>1. generator = "returned"
    BY <1>5 DEF DeliveryInv
  <2>2. ~Generate /\ \A c : ~Construct(c)
    BY <2>1, GeneratorRests
  <2>3. ~(\E arguments \in ArgumentLists : ReadOptions(arguments))
    BY <1>5 DEF ReadOptions, CommandInv
  <2>4. ~(\E c \in LibraryConfigs : CallLibrary(c)) /\ ~ConfigRefused
    BY <1>5 DEF CallLibrary, ConfigRefused, CommandInv
  <2>5. EndOfPublish
    BY <1>5, <2>2, <2>3, <2>4 DEF Command
  <2> QED BY <2>5 DEF EndOfPublish
<1>6. ASSUME main = "idle", main' # "idle", Command
      PROVE  EndOfGeneration
  <2>1. main' = main \/ EndOfGeneration
    BY <1>6 DEF Command, ReadOptions, CallLibrary, ConfigRefused, EndOfPublish, publishVars
  <2> QED BY <1>6, <2>1
<1>7. CASE UNCHANGED allVars
  <2>1. UNCHANGED <<generatorVars, publishVars>> /\ main' = main
    BY <1>7 DEF allVars, publishVars
  <2> QED BY <1>1, <1>2, <2>1
<1>8. CASE Command
  <2>1. CASE main' # "idle" /\ EndOfGeneration
    BY <1>4, <2>1
  <2>2. CASE main' # "idle" /\ ~EndOfGeneration
    <3>1. main # "idle"
      BY <1>6, <1>8, <2>2
    <3>2. UNCHANGED <<generatorVars, publishVars>>
      BY <1>5, <1>8, <2>2, <3>1
    <3> QED BY <1>2, <3>1, <3>2
  <2> QED BY <1>1, <2>1, <2>2
<1> QED BY <1>3, <1>7, <1>8 DEF CommandNext

LEMMA DeliveryInvariant ==
    CommandSpec => [](PublishInv /\ CommandInv /\ GeneratorInv /\ DeliveryInv)
<1>1. CommandInit => DeliveryInv
  <2> SUFFICES ASSUME CommandInit PROVE DeliveryInv
    OBVIOUS
  <2>1. workload = <<>> /\ main = "idle"
    BY DEF CommandInit, PublishInit
  <2>2. Producers = {}
    BY <2>1 DEF Producers
  <2> QED BY <2>1, <2>2 DEF DeliveryInv
<1>2. PublishInv /\ CommandInv /\ CommandInv' /\ GeneratorInv /\ DeliveryInv
        /\ [CommandNext]_allVars => DeliveryInv'
  BY DeliveryStep
<1> QED BY <1>1, <1>2, CommandInvariant, GeneratorInvHolds, PTL DEF CommandSpec

LEMMA ExitTruthful ==
    PublishInv /\ CommandInv /\ GeneratorInv /\ DeliveryInv => ExitStatusTruthful
<1> SUFFICES ASSUME PublishInv, CommandInv, GeneratorInv, DeliveryInv
             PROVE  ExitStatusTruthful
  OBVIOUS
<1>1. ExitMeansDelivered
  BY ExitFollows
<1>2. ASSUME exit_code = "0", NEW p \in Producers
      PROVE  report[p].gaps = Cardinality(DroppedInside(p))
  <2>1. main # "idle"
    <3>1. SUFFICES ASSUME main = "idle" PROVE FALSE
      OBVIOUS
    <3>2. workload = <<>>
      BY <3>1 DEF CommandInv
    <3>3. Producers = {}
      BY <3>2 DEF Producers
    <3> QED BY <3>3
  <2>2. Succeeded
    BY <1>2, <2>1 DEF CommandInv
  <2>3. report[p].status = "OK"
    BY <2>2 DEF Succeeded, ProducerSucceeded
  <2>4. report[p].gaps = SequenceGaps(p) /\ Rising(accepted[p])
    BY <2>3 DEF DeliveryInv, DeliveredInv
  <2>5. accepted[p] = EventsOf(p)
    BY <1>1, <1>2 DEF ExitMeansDelivered
  <2>6. generator = "returned" /\ workload = events
    BY <2>1 DEF DeliveryInv
  <2>7. SequenceGaps(p) = Cardinality(DroppedInside(p))
    BY <2>4, <2>5, <2>6, GapsAreDrops
  <2> QED BY <2>4, <2>7
<1>3. CleanConfig => \A p \in Producers : outcome[p] # "INVALID_ARGUMENT"
  BY DEF DeliveryInv, DeliveredInv
<1> QED BY <1>1, <1>2, <1>3 DEF ExitStatusTruthful, CleanConfig

\* The exit status tells the truth for any arguments and draws: what status 0
\* means, that the gaps the collector reports are exactly the injected drops
\* inside a stream, and that a clean workload is never refused as out of order.
THEOREM ExitIsTruthful == CommandSpec => []ExitStatusTruthful
BY DeliveryInvariant, ExitTruthful, PTL
=============================================================================
