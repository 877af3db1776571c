----------------------- MODULE CollectorServiceProofs -----------------------
(***************************************************************************)
(* Proofs about CollectorService for any streams, events, queue capacity   *)
(* and word size: the statuses and summaries that clients get describe     *)
(* what was put into the queue for them.                                   *)
(*                                                                         *)
(* The argument: a stream's validator describes the events of the stream   *)
(* in the queue followed by the one that try_accept still has, or has      *)
(* refused; and a step of the service is a step of the sink, so what is    *)
(* proved of the sink holds here.                                          *)
(***************************************************************************)
EXTENDS CollectorService, QueuedSinkProofs, SetLemmas

Reactors == {"none", "reading", "offering", "finished"}
Refusals == {"RESOURCE_EXHAUSTED", "UNAVAILABLE"}
Statuses == {"none", "OK", "INVALID_ARGUMENT"} \cup Refusals

\* The streams inside try_accept whose event has not reached the queue's mutex.
Unsent == {s \in Producers : reactor[s] = "offering" /\ pc[s] # "notify"}

\* The bound on the offers counts them.
OfferBound == accepted_items + rejected_items + Cardinality(Unsent) <= MaxCalls

ValidatorType ==
    [producer_id : ProducerIds \cup {"", "too long"}, accepted_events : Nat,
     first_sequence_number : SequenceNumbers, last_sequence_number : SequenceNumbers,
     sequence_gaps : SequenceNumbers]

ReactorType ==
    /\ reactor \in [Producers -> Reactors]
    /\ status \in [Producers -> Statuses]
    /\ event \in [Producers -> Optional(Events)]
    /\ validator \in [Producers -> ValidatorType] /\ DOMAIN summary = Producers

\* The reactor's place, its thread in the sink and its status agree.
Places ==
    \A s \in Producers :
      /\ reactor[s] # "offering" => pc[s] = "idle"
      /\ reactor[s] = "finished" <=> status[s] # "none"
      /\ reactor[s] = "offering" \/ status[s] \in Refusals => event[s] # <<>>
      /\ status[s] = "OK" => summary[s] = validator[s]

\* What the validator has accepted and the queue has not.
Owed(s) == IF s \in Unsent \/ status[s] \in Refusals THEN event[s] ELSE <<>>

Passed(s) == EventsOf(s, pushed) \o Owed(s)

\* The events evs are in order and of one producer, and v sums them up.
Describes(v, evs) ==
    /\ v.accepted_events = Len(evs)
    /\ evs = <<>> => v = NewValidator
    /\ evs # <<>> =>
         /\ v.first_sequence_number = evs[1].sequence_number
         /\ v.last_sequence_number = evs[Len(evs)].sequence_number
         /\ v.sequence_gaps =
              Cardinality((v.first_sequence_number .. v.last_sequence_number) \ Numbers(evs))
         /\ v.producer_id # ""
    /\ \A i \in 1 .. Len(evs) :
         /\ evs[i].producer_id = v.producer_id
         /\ ValidatePayload(evs[i].payload)
         /\ \A j \in 1 .. Len(evs) : i < j => evs[i].sequence_number < evs[j].sequence_number

Validated == \A s \in Producers : Describes(validator[s], Passed(s))

ServiceInv == StatsInv /\ OfferBound /\ ReactorType /\ Places /\ Validated

-----------------------------------------------------------------------------
(* The events of one stream in the queue. *)

OwnEvents(s, q) ==
    CHOOSE f : f = [n \in 0 .. Len(q) |->
                      IF n = 0 THEN <<>>
                      ELSE IF q[n].stream = s THEN Append(f[n - 1], q[n].event)
                      ELSE f[n - 1]]

LEMMA EventsAreOwn ==
    ASSUME NEW s, NEW q PROVE EventsOf(s, q) = OwnEvents(s, q)[Len(q)]
BY DEF EventsOf, OwnEvents

LEMMA OwnUnfold ==
    ASSUME NEW s, NEW q \in Seq(Items)
    PROVE  OwnEvents(s, q) =
             [n \in 0 .. Len(q) |->
                IF n = 0 THEN <<>>
                ELSE IF q[n].stream = s THEN Append(OwnEvents(s, q)[n - 1], q[n].event)
                ELSE OwnEvents(s, q)[n - 1]]
<1> DEFINE Of(f, k) == f = [n \in 0 .. k |->
                              IF n = 0 THEN <<>>
                              ELSE IF q[n].stream = s THEN Append(f[n - 1], q[n].event)
                              ELSE f[n - 1]]
           T == {k \in 0 .. Len(q) : \E f : Of(f, k)}
<1>1. 0 \in T
  <2>1. Of([n \in {0} |-> <<>>], 0)
    OBVIOUS
  <2>2. 0 \in 0 .. Len(q)
    OBVIOUS
  <2> HIDE DEF Of
  <2> QED BY <2>1, <2>2
<1>2. ASSUME NEW k \in 0 .. Len(q), k # Len(q), k \in T PROVE k + 1 \in T
  <2>1. PICK g : Of(g, k)
    BY <1>2
  <2> DEFINE h == [n \in 0 .. k + 1 |->
                     IF n = k + 1
                     THEN IF q[n].stream = s THEN Append(g[k], q[n].event) ELSE g[k]
                     ELSE g[n]]
  <2>2. ASSUME NEW n \in 0 .. k + 1
        PROVE  h[n] = IF n = 0 THEN <<>>
                      ELSE IF q[n].stream = s THEN Append(h[n - 1], q[n].event)
                      ELSE h[n - 1]
    <3>1. CASE n = k + 1
      <4>1. k + 1 # 0 /\ (k + 1) - 1 = k /\ k \in 0 .. k + 1 /\ k # k + 1
        OBVIOUS
      <4>2. h[k + 1] = IF q[k + 1].stream = s THEN Append(g[k], q[k + 1].event) ELSE g[k]
        OBVIOUS
      <4>3. h[k] = g[k]
        BY <4>1
      <4> QED BY <3>1, <4>1, <4>2, <4>3
    <3>2. CASE n # k + 1
      <4>1. n \in 0 .. k
        BY <3>2
      <4>2. h[n] = g[n] /\ (n # 0 => n - 1 \in 0 .. k /\ h[n - 1] = g[n - 1])
        BY <3>2, <4>1
      <4>3. g[n] = IF n = 0 THEN <<>>
                   ELSE IF q[n].stream = s THEN Append(g[n - 1], q[n].event)
                   ELSE g[n - 1]
        BY <2>1, <4>1
      <4> QED BY <4>2, <4>3
    <3> QED BY <3>1, <3>2
  <2>3. Of(h, k + 1)
    BY <2>2
  <2>4. k + 1 \in 0 .. Len(q)
    BY <1>2
  <2> QED BY <2>3, <2>4
<1>3. \A k \in 0 .. Len(q) : k \in T
  <2> HIDE DEF T
  <2>1. Len(q) \in Nat
    OBVIOUS
  <2> QED BY <1>1, <1>2, <2>1, SetInduction
<1>4. \E f : Of(f, Len(q))
  <2>1. Len(q) \in 0 .. Len(q)
    OBVIOUS
  <2>2. Len(q) \in T
    BY <1>3, <2>1
  <2> QED BY <2>2
<1> QED BY <1>4 DEF OwnEvents

LEMMA OwnAt ==
    ASSUME NEW s, NEW q \in Seq(Items)
    PROVE  /\ OwnEvents(s, q)[0] = <<>>
           /\ \A n \in 1 .. Len(q) :
                OwnEvents(s, q)[n] = IF q[n].stream = s
                                     THEN Append(OwnEvents(s, q)[n - 1], q[n].event)
                                     ELSE OwnEvents(s, q)[n - 1]
<1> DEFINE f == OwnEvents(s, q)
<1>1. f = [n \in 0 .. Len(q) |->
             IF n = 0 THEN <<>>
             ELSE IF q[n].stream = s THEN Append(f[n - 1], q[n].event) ELSE f[n - 1]]
  BY OwnUnfold
<1>2. Len(q) \in Nat
  OBVIOUS
<1> HIDE DEF f
<1>3. f[0] = <<>>
  BY <1>1, <1>2
<1>4. ASSUME NEW n \in 1 .. Len(q)
      PROVE  f[n] = IF q[n].stream = s THEN Append(f[n - 1], q[n].event) ELSE f[n - 1]
  <2>1. n \in 0 .. Len(q) /\ n # 0
    BY <1>2
  <2> QED BY <1>1, <2>1
<1> QED BY <1>3, <1>4 DEF f

LEMMA NoEvents == \A s : EventsOf(s, <<>>) = <<>>
<1> TAKE s
<1>1. <<>> \in Seq(Items) /\ Len(<<>>) = 0
  OBVIOUS
<1> QED BY <1>1, OwnAt, EventsAreOwn

LEMMA OneMoreEvent ==
    ASSUME NEW s, NEW q \in Seq(Items), NEW x \in Items
    PROVE  EventsOf(s, Append(q, x)) =
             IF x.stream = s THEN Append(EventsOf(s, q), x.event) ELSE EventsOf(s, q)
<1> DEFINE r == Append(q, x)
           f == OwnEvents(s, q)
           g == OwnEvents(s, r)
           T == {n \in 0 .. Len(q) : g[n] = f[n]}
<1>1. /\ r \in Seq(Items) /\ Len(r) = Len(q) + 1 /\ Len(q) \in Nat
      /\ r[Len(q) + 1] = x
      /\ \A n \in 1 .. Len(q) : r[n] = q[n]
  OBVIOUS
<1>2. /\ f[0] = <<>>
      /\ \A n \in 1 .. Len(q) :
           f[n] = IF q[n].stream = s THEN Append(f[n - 1], q[n].event) ELSE f[n - 1]
  BY OwnAt
<1>3. /\ g[0] = <<>>
      /\ \A n \in 1 .. Len(r) :
           g[n] = IF r[n].stream = s THEN Append(g[n - 1], r[n].event) ELSE g[n - 1]
  <2>1. r \in Seq(Items)
    BY <1>1
  <2> HIDE DEF r
  <2> QED BY <2>1, OwnAt
<1>4. EventsOf(s, q) = f[Len(q)] /\ EventsOf(s, r) = g[Len(r)]
  BY EventsAreOwn
<1> HIDE DEF r, f, g
<1>5. 0 \in T
  BY <1>1, <1>2, <1>3
<1>6. ASSUME NEW n \in 0 .. Len(q), n # Len(q), n \in T PROVE n + 1 \in T
  <2>1. n + 1 \in 1 .. Len(q) /\ n + 1 \in 1 .. Len(r) /\ (n + 1) - 1 = n
    BY <1>1, <1>6
  <2>2. g[n + 1] = f[n + 1]
    BY <1>1, <1>2, <1>3, <1>6, <2>1
  <2> QED BY <2>1, <2>2
<1>7. g[Len(q)] = f[Len(q)]
  <2>1. \A n \in 0 .. Len(q) : n \in T
    <3> HIDE DEF T
    <3> QED BY <1>1, <1>5, <1>6, SetInduction
  <2> QED BY <1>1, <2>1
<1>8. Len(r) \in 1 .. Len(r) /\ Len(r) - 1 = Len(q)
  BY <1>1
<1>9. g[Len(r)] = IF x.stream = s THEN Append(f[Len(q)], x.event) ELSE f[Len(q)]
  BY <1>1, <1>3, <1>7, <1>8
<1> QED BY <1>4, <1>9 DEF r

LEMMA EventsType ==
    ASSUME NEW s, NEW q \in Seq(Items) PROVE EventsOf(s, q) \in Seq(Events)
<1> DEFINE f == OwnEvents(s, q)
           T == {n \in 0 .. Len(q) : f[n] \in Seq(Events)}
<1>1. /\ f[0] = <<>>
      /\ \A n \in 1 .. Len(q) :
           f[n] = IF q[n].stream = s THEN Append(f[n - 1], q[n].event) ELSE f[n - 1]
  BY OwnAt
<1>2. Len(q) \in Nat /\ \A n \in 1 .. Len(q) : q[n].event \in Events
  <2>1. Len(q) \in Nat /\ \A n \in 1 .. Len(q) : q[n] \in Items
    OBVIOUS
  <2>2. \A x \in Items : x.event \in Events
    BY ItemsAssumption
  <2> QED BY <2>1, <2>2
<1>3. EventsOf(s, q) = f[Len(q)]
  BY EventsAreOwn
<1> HIDE DEF f
<1>4. 0 \in T
  <2>1. <<>> \in Seq(Events)
    OBVIOUS
  <2>2. f[0] = <<>> /\ 0 \in 0 .. Len(q)
    BY <1>1, <1>2
  <2> QED BY <2>1, <2>2
<1>5. ASSUME NEW n \in 0 .. Len(q), n # Len(q), n \in T PROVE n + 1 \in T
  <2>1. n + 1 \in 1 .. Len(q) /\ n + 1 \in 0 .. Len(q) /\ (n + 1) - 1 = n
    BY <1>2, <1>5
  <2>2. f[n + 1] = IF q[n + 1].stream = s THEN Append(f[n], q[n + 1].event) ELSE f[n]
    BY <1>1, <2>1
  <2>3. f[n] \in Seq(Events) /\ q[n + 1].event \in Events
    BY <1>2, <1>5, <2>1
  <2>4. Append(f[n], q[n + 1].event) \in Seq(Events)
    BY <2>3
  <2> QED BY <2>1, <2>2, <2>3, <2>4
<1>6. \A n \in 0 .. Len(q) : n \in T
  <2> HIDE DEF T
  <2> QED BY <1>2, <1>4, <1>5, SetInduction
<1> QED BY <1>2, <1>3, <1>6

-----------------------------------------------------------------------------
(* StreamValidator::accept. *)

LEMMA EventFields ==
    ASSUME NEW e \in Events
    PROVE  e.sequence_number \in 0 .. Word - 1 /\ Word \in Nat
BY EventsAssumption, WordAssumption DEF EventType, SequenceNumbers

\* The numbers skipped between the last event and the next are counted
\* exactly, and the count fits into a word.
LEMMA MissingNumbers ==
    ASSUME NEW first \in Nat, NEW last \in Nat, NEW next \in Nat, NEW N,
           first <= last, last < next, next <= Word - 1,
           \A k \in N : k \in first .. last
    PROVE  /\ Cardinality((first .. last) \ N) \in Nat
           /\ Cardinality((first .. next) \ (N \cup {next})) =
                Cardinality((first .. last) \ N) + (next - last - 1)
           /\ Cardinality((first .. next) \ (N \cup {next})) < Word
<1> DEFINE A == (first .. last) \ N
           B == last + 1 .. next - 1
           C == (first .. next) \ (N \cup {next})
<1>1. IsFiniteSet(A) /\ Cardinality(A) \in Nat
  <2>1. IsFiniteSet(first .. last)
    BY FS_Interval
  <2>2. A \in SUBSET (first .. last)
    OBVIOUS
  <2> HIDE DEF A
  <2> QED BY <2>1, <2>2, FS_Subset, FS_CardinalityType
<1>2. IsFiniteSet(B) /\ Cardinality(B) = next - last - 1
  <2>1. last + 1 \in Int /\ next - 1 \in Int
    OBVIOUS
  <2>2. /\ IsFiniteSet(B)
        /\ Cardinality(B) = IF last + 1 > next - 1 THEN 0 ELSE (next - 1) - (last + 1) + 1
    BY <2>1, FS_Interval
  <2> HIDE DEF B
  <2> QED BY <2>2
<1>3. C = A \cup B
  OBVIOUS
<1>4. A \cap B = {}
  OBVIOUS
<1>5. Cardinality(C) = Cardinality(A) + (next - last - 1)
  <2> HIDE DEF A, B, C
  <2>1. Cardinality(A \cup B) = Cardinality(A) + Cardinality(B) - Cardinality(A \cap B)
    BY <1>1, <1>2, FS_Union
  <2>2. Cardinality(A \cap B) = 0
    BY <1>4, FS_EmptySet
  <2> QED BY <1>1, <1>2, <1>3, <2>1, <2>2
<1>6. Cardinality(C) < Word
  <2>1. IsFiniteSet(first .. next - 1) /\ Cardinality(first .. next - 1) = next - first
    <3>1. next - 1 \in Int /\ first \in Int
      OBVIOUS
    <3>2. /\ IsFiniteSet(first .. next - 1)
          /\ Cardinality(first .. next - 1) =
               IF first > next - 1 THEN 0 ELSE (next - 1) - first + 1
      BY <3>1, FS_Interval
    <3> QED BY <3>2
  <2>2. C \in SUBSET (first .. next - 1)
    OBVIOUS
  <2>3. Cardinality(C) <= next - first
    <3> HIDE DEF C
    <3>1. Cardinality(C) <= Cardinality(first .. next - 1)
      BY <2>1, <2>2, FS_Subset
    <3> QED BY <2>1, <3>1
  <2>4. Cardinality(C) \in Nat
    BY <1>1, <1>5
  <2> HIDE DEF C
  <2> QED BY <2>3, <2>4, WordAssumption
<1> QED BY <1>1, <1>5, <1>6

\* The validator still describes the events when accept has let one more in.
LEMMA AcceptDescribes ==
    ASSUME NEW v \in ValidatorType, NEW evs \in Seq(Events), NEW e \in Events,
           Describes(v, evs), Valid(v, e)
    PROVE  /\ Accepted(v, e) \in ValidatorType
           /\ Describes(Accepted(v, e), Append(evs, e))
<1> DEFINE w == Accepted(v, e)
           r == Append(evs, e)
           n == Len(evs)
           x == e.sequence_number
<1>1. /\ n \in Nat /\ n = v.accepted_events /\ (evs = <<>> <=> n = 0)
      /\ r \in Seq(Events) /\ Len(r) = n + 1 /\ r[n + 1] = e /\ r # <<>>
      /\ \A i \in 1 .. n : r[i] = evs[i]
  <2>1. n \in Nat /\ (evs = <<>> <=> n = 0) /\ r \in Seq(Events) /\ Len(r) = n + 1
    OBVIOUS
  <2>2. r[n + 1] = e /\ \A i \in 1 .. n : r[i] = evs[i]
    OBVIOUS
  <2>3. n = v.accepted_events
    BY DEF Describes
  <2>4. r # <<>>
    BY SMTT(30)
  <2> QED BY <2>1, <2>2, <2>3, <2>4
<1>0. e.producer_id \in ProducerIds \cup {"", "too long"}
  BY EventsAssumption DEF EventType
<1>2. x \in 0 .. Word - 1 /\ Word \in Nat /\ Word # 0
  BY EventFields, WordAssumption
<1>id. w.producer_id = IF n = 0 THEN e.producer_id ELSE v.producer_id
  BY <1>1 DEF Accepted
<1>3. /\ w.first_sequence_number = IF n = 0 THEN x ELSE v.first_sequence_number
      /\ w.sequence_gaps = IF n = 0 THEN v.sequence_gaps
                           ELSE (v.sequence_gaps + (x - v.last_sequence_number - 1)) % Word
      /\ w.last_sequence_number = x
      /\ w.accepted_events = n + 1
  BY <1>1 DEF Accepted, Missed
<1>4. /\ v.first_sequence_number \in 0 .. Word - 1
      /\ v.last_sequence_number \in 0 .. Word - 1
      /\ v.sequence_gaps \in 0 .. Word - 1
  BY DEF ValidatorType, SequenceNumbers
<1>5. w \in ValidatorType
  <2>0. w = [producer_id |-> w.producer_id, accepted_events |-> w.accepted_events,
             first_sequence_number |-> w.first_sequence_number,
             last_sequence_number |-> w.last_sequence_number,
             sequence_gaps |-> w.sequence_gaps]
    BY DEF Accepted
  <2> HIDE DEF w, x, n
  <2>1. w.sequence_gaps \in 0 .. Word - 1
    <3> DEFINE g == v.sequence_gaps + (x - v.last_sequence_number - 1)
    <3>1. g \in Int
      BY <1>2, <1>4
    <3> HIDE DEF g
    <3>2. g % Word \in 0 .. Word - 1
      BY <1>2, <3>1
    <3> QED BY <1>3, <1>4, <3>2 DEF g
  <2>2. /\ w.accepted_events \in Nat
        /\ w.first_sequence_number \in 0 .. Word - 1
        /\ w.last_sequence_number \in 0 .. Word - 1
    BY <1>1, <1>2, <1>3, <1>4
  <2>3. w.producer_id \in ProducerIds \cup {"", "too long"}
    BY <1>0, <1>id DEF ValidatorType
  <2> QED BY <2>0, <2>1, <2>2, <2>3 DEF ValidatorType, SequenceNumbers
<1> HIDE DEF w, r, n
<1>6. /\ e.producer_id # "" /\ ValidatePayload(e.payload)
      /\ n # 0 => v.producer_id = e.producer_id
  <2>1. n # 0 => v.producer_id # ""
    BY <1>1 DEF Describes
  <2> QED BY <2>1 DEF Valid
<1>less. n # 0 => v.last_sequence_number < x
  <2>1. n # 0 => v.accepted_events > 0
    BY <1>1
  <2>2. v.accepted_events > 0 => x > v.last_sequence_number
    BY DEF Valid, Increases
  <2> QED BY <1>2, <1>4, <2>1, <2>2
<1>7. \A i \in 1 .. n : evs[i] \in Events /\ evs[i].sequence_number \in 0 .. Word - 1
  <2>1. \A i \in 1 .. n : evs[i] \in Events
    BY DEF n
  <2> QED BY <2>1, EventFields
\* Each event so far lies between the first and the last.
<1>8. n # 0 => /\ v.first_sequence_number <= v.last_sequence_number
               /\ \A i \in 1 .. n :
                    evs[i].sequence_number \in v.first_sequence_number .. v.last_sequence_number
  <2> SUFFICES ASSUME n # 0, NEW i \in 1 .. n
               PROVE  /\ v.first_sequence_number <= v.last_sequence_number
                      /\ evs[i].sequence_number \in
                           v.first_sequence_number .. v.last_sequence_number
    BY <1>1
  <2>1. /\ v.first_sequence_number = evs[1].sequence_number
        /\ v.last_sequence_number = evs[n].sequence_number
        /\ \A k, j \in 1 .. n : k < j => evs[k].sequence_number < evs[j].sequence_number
    BY <1>1 DEF Describes
  <2>2. evs[1].sequence_number <= evs[i].sequence_number
    <3>1. 1 \in 1 .. n /\ (i = 1 \/ 1 < i)
      BY <1>1
    <3> QED BY <1>7, <2>1, <3>1
  <2>3. evs[i].sequence_number <= evs[n].sequence_number
    <3>1. n \in 1 .. n /\ (i = n \/ i < n)
      BY <1>1
    <3> QED BY <1>7, <2>1, <3>1
  <2>4. 1 \in 1 .. n /\ n \in 1 .. n
    BY <1>1
  <2> QED BY <1>7, <2>1, <2>2, <2>3, <2>4
<1>9. Numbers(r) = Numbers(evs) \cup {x}
  <2>1. /\ 1 .. Len(r) = 1 .. n \cup {n + 1}
        /\ Numbers(r) = {r[i].sequence_number : i \in 1 .. Len(r)}
        /\ Numbers(evs) = {evs[i].sequence_number : i \in 1 .. n}
    BY <1>1 DEF Numbers, n
  <2>2. \A i \in 1 .. n : r[i].sequence_number = evs[i].sequence_number
    BY <1>1
  <2>3. r[n + 1].sequence_number = x
    BY <1>1
  <2> QED BY <2>1, <2>2, <2>3, SMTT(30)
<1>10. w.sequence_gaps =
         Cardinality((w.first_sequence_number .. w.last_sequence_number) \ Numbers(r))
  <2>1. CASE n = 0
    <3>1. (x .. x) \ Numbers(r) = {}
      BY <1>2, <1>9
    <3>2. v.sequence_gaps = 0
      <4>1. v = NewValidator
        BY <1>1, <2>1 DEF Describes
      <4> QED BY <4>1 DEF NewValidator
    <3> QED BY <1>3, <2>1, <3>1, <3>2, FS_EmptySet
  <2>2. CASE n # 0
    <3> DEFINE first == v.first_sequence_number
               last == v.last_sequence_number
               N == Numbers(evs)
    <3>1. v.sequence_gaps = Cardinality((first .. last) \ N)
      BY <1>1, <2>2 DEF Describes
    <3>2. first \in Nat /\ last \in Nat /\ x \in Nat /\ first <= last /\ last < x
          /\ x <= Word - 1
      BY <1>2, <1>4, <1>less, <1>8, <2>2
    <3>3. \A k \in N : k \in first .. last
      BY <1>8, <2>2 DEF Numbers, n
    <3>4. w.sequence_gaps = (v.sequence_gaps + (x - last - 1)) % Word
          /\ w.first_sequence_number = first /\ w.last_sequence_number = x
      BY <1>3, <2>2
    <3> HIDE DEF w, r, x, first, last, N
    <3>5. /\ Cardinality((first .. last) \ N) \in Nat
          /\ Cardinality((first .. x) \ (N \cup {x})) =
               Cardinality((first .. last) \ N) + (x - last - 1)
          /\ Cardinality((first .. x) \ (N \cup {x})) < Word
      BY <3>2, <3>3, MissingNumbers
    <3>6. Cardinality((first .. x) \ (N \cup {x})) = v.sequence_gaps + (x - last - 1)
      BY <3>1, <3>5
    <3>7. v.sequence_gaps + (x - last - 1) \in 0 .. Word - 1
      BY <1>2, <3>1, <3>2, <3>5
    <3>8. w.sequence_gaps = v.sequence_gaps + (x - last - 1)
      BY <1>2, <3>4, <3>7
    <3> QED BY <1>9, <3>4, <3>6, <3>8 DEF N
  <2> QED BY <2>1, <2>2
<1>11. ASSUME NEW i \in 1 .. n + 1
       PROVE  /\ r[i].producer_id = w.producer_id /\ ValidatePayload(r[i].payload)
              /\ \A j \in 1 .. n + 1 :
                   i < j => r[i].sequence_number < r[j].sequence_number
  <2>0. \A k \in 1 .. n :
          /\ evs[k].producer_id = v.producer_id /\ ValidatePayload(evs[k].payload)
          /\ \A j \in 1 .. n : k < j => evs[k].sequence_number < evs[j].sequence_number
    BY <1>1 DEF Describes
  <2>1. CASE i = n + 1
    <3>1. \A j \in 1 .. n + 1 : ~(i < j)
      BY <1>1, <2>1
    <3>2. r[i] = e /\ w.producer_id = e.producer_id
      BY <1>1, <1>id, <1>6, <2>1
    <3> QED BY <1>6, <3>1, <3>2
  <2>2. CASE i # n + 1
    <3>1. i \in 1 .. n /\ n # 0 /\ r[i] = evs[i]
      BY <1>1, <2>2
    <3>2. w.producer_id = v.producer_id
      BY <1>id, <3>1
    <3>3. evs[i].sequence_number < x
      BY <1>2, <1>4, <1>less, <1>7, <1>8, <3>1
    <3>4. ASSUME NEW j \in 1 .. n + 1, i < j PROVE r[i].sequence_number < r[j].sequence_number
      <4>1. CASE j = n + 1
        BY <1>1, <3>1, <3>3, <4>1
      <4>2. CASE j # n + 1
        <5>1. j \in 1 .. n /\ r[j] = evs[j]
          BY <1>1, <4>2
        <5> QED BY <2>0, <3>1, <3>4, <5>1
      <4> QED BY <4>1, <4>2
    <3> QED BY <2>0, <3>1, <3>2, <3>4
  <2> QED BY <2>1, <2>2
<1>12. w.producer_id # ""
  BY <1>id, <1>6
<1>13. w.first_sequence_number = r[1].sequence_number
  <2>1. CASE n = 0
    BY <1>1, <1>3, <2>1
  <2>2. CASE n # 0
    <3>1. 1 \in 1 .. n
      BY <1>1, <2>2
    <3> QED BY <1>1, <1>3, <2>2, <3>1 DEF Describes
  <2> QED BY <2>1, <2>2
<1> HIDE DEF w, r, x
<1>14. Describes(w, r)
  BY <1>1, <1>3, <1>10, <1>11, <1>12, <1>13 DEF Describes, x
<1> QED BY <1>5, <1>14 DEF w, r

-----------------------------------------------------------------------------
(* The service's steps are steps of the sink. *)

LEMMA ServiceCases ==
    ASSUME ServiceNext
    PROVE  \/ \E s \in Producers : StreamTelemetry(s) \/ OnReadEnd(s) \/ Offer(s)
           \/ \E s \in Producers, e \in Events : EventsLeft /\ OnReadDone(s, e)
           \/ SinkThreads
BY DEF ServiceNext

LEMMA UnsentFinite == IsFiniteSet(Unsent) /\ Cardinality(Unsent) \in Nat
<1>1. IsFiniteSet(Producers)
  BY ThreadsAssumption, FS_Subset DEF Threads
<1> QED BY <1>1, FS_Subset, FS_CardinalityType DEF Unsent

LEMMA ServiceTypes ==
    ASSUME ServiceInv
    PROVE  /\ accepted_items \in Nat /\ rejected_items \in Nat /\ MaxCalls \in Nat
           /\ pushed \in Seq(Items) /\ handled \in Seq(Items)
           /\ pc \in [Threads -> ProducerPCs \cup WorkerPCs \cup MainPCs]
           /\ \A p \in Producers : pc[p] \in ProducerPCs /\ p \in Threads
           /\ answer \in [Producers -> SinkResult \cup {"none"}]
           /\ result \in [Threads -> QueuePushResult \cup {"none"}]
           /\ SinkInv /\ TypeInv
BY ThreadRoles, MaxCallsAssumption DEF ServiceInv, StatsInv, SinkInv, TypeInv, TypeOK, SinkTypeOK

\* What a reactor holds while it offers it.
LEMMA HeldEvent ==
    ASSUME ServiceInv, NEW s \in Producers, reactor[s] = "offering" \/ status[s] \in Refusals
    PROVE  /\ event[s] = <<event[s][1]>> /\ event[s][1] \in Events
           /\ Collected(s) \in Items
           /\ Collected(s).stream = s /\ Collected(s).event = event[s][1]
<1>1. event[s] \in Optional(Events) /\ event[s] # <<>>
  BY DEF ServiceInv, ReactorType, Places
<1>2. event[s] = <<event[s][1]>> /\ event[s][1] \in Events
  BY <1>1 DEF Optional
<1> QED BY <1>2, ItemsAssumption DEF Collected

\* The service's bound on events is the sink's bound on calls.
LEMMA OfferFits ==
    ASSUME ServiceInv, NEW s \in Producers, reactor[s] = "offering", CheckAccepting(s)
    PROVE  CallsLeft
<1>1. s \in Unsent
  BY DEF CheckAccepting, Unsent
<1>2. Pushing \in SUBSET (Unsent \ {s})
  BY DEF CheckAccepting, Pushing, Unsent, ServiceInv, Places
<1>3. IsFiniteSet(Unsent \ {s}) /\ Cardinality(Unsent \ {s}) = Cardinality(Unsent) - 1
  BY <1>1, UnsentFinite, FS_RemoveElement
<1>4. Cardinality(Pushing) <= Cardinality(Unsent) - 1
  BY <1>2, <1>3, FS_Subset
<1> QED BY <1>4, UnsentFinite, PushingFinite, ServiceTypes DEF CallsLeft, ServiceInv, OfferBound

LEMMA ServiceStepIsSinkStep ==
    ASSUME ServiceInv, [ServiceNext]_serviceVars
    PROVE  [SinkNext]_sinkVars
<1>1. CASE UNCHANGED serviceVars
  BY <1>1 DEF serviceVars
<1>2. CASE ServiceNext
  <2>1. ASSUME NEW s \in Producers, StreamTelemetry(s) \/ OnReadEnd(s)
        PROVE  UNCHANGED sinkVars
    BY <2>1 DEF StreamTelemetry, OnReadEnd
  <2>2. ASSUME NEW s \in Producers, NEW e \in Events, OnReadDone(s, e)
        PROVE  UNCHANGED sinkVars
    BY <2>2 DEF OnReadDone
  <2>3. ASSUME NEW s \in Producers, Offer(s) PROVE SinkNext
    <3>1. reactor[s] = "offering"
      BY <2>3 DEF Offer
    <3>2. CASE CheckAccepting(s)
      BY <3>1, <3>2, OfferFits DEF SinkNext, TryAccept
    <3>3. CASE PushEvent(s, Collected(s))
      <4>1. Collected(s) \in Items
        BY <3>1, HeldEvent
      <4> QED BY <3>3, <4>1 DEF SinkNext, TryAccept
    <3>4. CASE ReturnAccepted(s)
      BY <3>4 DEF SinkNext, TryAccept
    <3> QED BY <2>3, <3>2, <3>3, <3>4 DEF Offer
  <2>4. CASE SinkThreads
    BY <2>4 DEF SinkThreads, SinkNext
  <2> QED BY <1>2, <2>1, <2>2, <2>3, <2>4, ServiceCases
<1> QED BY <1>1, <1>2

-----------------------------------------------------------------------------
(* What a step does to a stream. *)

Calls == accepted_items + rejected_items

\* The other reactors, and the other handlers of the sink, stay where they are.
OnlyStream(s) ==
    \A t \in Producers : t # s =>
      /\ reactor'[t] = reactor[t] /\ status'[t] = status[t] /\ event'[t] = event[t]
      /\ pc'[t] = pc[t] /\ validator'[t] = validator[t] /\ summary'[t] = summary[t]

\* The four things that try_accept can do with the event of stream s: go on to
\* the queue, refuse it, queue it, return.
Checks(s) ==
    /\ pc[s] = "idle" /\ pc'[s] = "push"
    /\ reactor' = reactor /\ status' = status /\ event' = event
    /\ pushed' = pushed /\ Calls' = Calls

Refuses(s) ==
    /\ pc[s] # "notify" /\ pc'[s] = "idle"
    /\ reactor'[s] = "finished" /\ status'[s] \in Refusals /\ event' = event
    /\ pushed' = pushed /\ Calls' \in {Calls, Calls + 1}

Queues(s) ==
    /\ pc[s] = "push" /\ pc'[s] = "notify"
    /\ reactor' = reactor /\ status' = status /\ event' = event
    /\ pushed' = Append(pushed, Collected(s)) /\ Calls' = Calls + 1

Returns(s) ==
    /\ pc[s] = "notify" /\ pc'[s] = "idle"
    /\ reactor'[s] = "reading" /\ status' = status /\ event'[s] = <<>>
    /\ pushed' = pushed /\ Calls' = Calls

LEMMA OfferEffect ==
    ASSUME ServiceInv, NEW s \in Producers, Offer(s)
    PROVE  /\ reactor[s] = "offering" /\ validator' = validator /\ summary' = summary
           /\ OnlyStream(s)
           /\ DOMAIN reactor' = Producers /\ DOMAIN status' = Producers
           /\ DOMAIN event' = Producers
           /\ Checks(s) \/ Refuses(s) \/ Queues(s) \/ Returns(s)
<1>1. /\ reactor \in [Producers -> Reactors] /\ status \in [Producers -> Statuses]
      /\ event \in [Producers -> Optional(Events)]
      /\ reactor[s] = "offering" /\ validator' = validator /\ summary' = summary
  BY DEF Offer, ServiceInv, ReactorType
<1>2. \A t \in Producers : t # s => pc'[t] = pc[t]
  BY ServiceTypes DEF Offer, CheckAccepting, PushEvent, ReturnAccepted, Goto
<1>3. /\ DOMAIN reactor' = Producers /\ DOMAIN status' = Producers
      /\ DOMAIN event' = Producers
      /\ \A t \in Producers : t # s =>
           /\ reactor'[t] = reactor[t] /\ status'[t] = status[t] /\ event'[t] = event[t]
  BY <1>1 DEF Offer, AfterTryAccept, Finish
<1>4. OnlyStream(s)
  BY <1>1, <1>2, <1>3 DEF OnlyStream
<1>5. ASSUME CheckAccepting(s) PROVE Checks(s) \/ Refuses(s)
  <2>1. pc[s] = "idle" /\ pushed' = pushed /\ Calls' = Calls
    BY <1>5 DEF CheckAccepting, queueVars, state, history, Calls
  <2>2. CASE pc'[s] = "push"
    BY <2>1, <2>2 DEF Offer, AfterTryAccept, Checks
  <2>3. CASE pc'[s] = "idle" /\ answer'[s] = "unavailable"
    <3>1. reactor'[s] = "finished" /\ status'[s] = "UNAVAILABLE" /\ event' = event
      BY <1>1, <2>3 DEF Offer, AfterTryAccept, Finish, ReadsOn
    <3> QED BY <2>1, <2>3, <3>1 DEF Refuses, Refusals
  <2> QED BY <1>5, <2>1, <2>2, <2>3, ServiceTypes DEF CheckAccepting, Goto
<1>6. ASSUME PushEvent(s, Collected(s)) PROVE Queues(s) \/ Refuses(s)
  <2>1. pc[s] = "push" /\ TryPush(s, Collected(s))
    BY <1>6 DEF PushEvent
  <2>2. CASE Enqueue(s, Collected(s))
    <3>1. result'[s] = "accepted" /\ pushed' = Append(pushed, Collected(s)) /\ Calls' = Calls + 1
      BY <2>2, ServiceTypes DEF Enqueue, Calls
    <3>2. pc'[s] = "notify"
      BY <1>6, <3>1, ServiceTypes DEF PushEvent, Goto
    <3>3. reactor' = reactor /\ status' = status /\ event' = event
      BY <3>2 DEF Offer, AfterTryAccept
    <3> QED BY <2>1, <3>1, <3>2, <3>3 DEF Queues
  <2>3. CASE Reject(s, "full") \/ Reject(s, "closed")
    <3>1. result'[s] \in {"full", "closed"} /\ pushed' = pushed /\ Calls' = Calls + 1
      BY <2>3, ServiceTypes DEF Reject, Calls, history
    <3>2. pc'[s] = "idle" /\ answer'[s] \in {"overloaded", "unavailable"}
      BY <1>6, <3>1, ServiceTypes DEF PushEvent, Goto
    <3>3. reactor'[s] = "finished" /\ status'[s] \in Refusals /\ event' = event
      BY <1>1, <3>2 DEF Offer, AfterTryAccept, Finish, ReadsOn, Refusals
    <3> QED BY <2>1, <3>1, <3>2, <3>3 DEF Refuses
  <2> QED BY <2>1, <2>2, <2>3 DEF TryPush
<1>7. ASSUME ReturnAccepted(s) PROVE Returns(s)
  <2>1. /\ pc[s] = "notify" /\ pc'[s] = "idle" /\ answer'[s] = "accepted"
        /\ pushed' = pushed /\ Calls' = Calls
    BY <1>7, ServiceTypes DEF ReturnAccepted, NotifyOne, Goto, state, history, Calls
  <2>2. reactor'[s] = "reading" /\ status' = status /\ event'[s] = <<>>
    BY <1>1, <2>1 DEF Offer, AfterTryAccept, ReadsOn
  <2> QED BY <2>1, <2>2 DEF Returns
<1> QED BY <1>1, <1>3, <1>4, <1>5, <1>6, <1>7 DEF Offer

\* The worker and the owner of the sink do not touch the streams.
LEMMA SinkThreadsEffect ==
    ASSUME ServiceInv, SinkThreads
    PROVE  /\ \A p \in Producers : pc'[p] = pc[p]
           /\ pushed' = pushed /\ Calls' = Calls
           /\ UNCHANGED reactorVars
<1> USE ServiceTypes, ThreadRoles DEF Goto, Calls
<1>0. UNCHANGED reactorVars
  BY DEF SinkThreads
<1>1. CASE PopEvent
  <2>1. pushed' = pushed /\ Calls' = Calls
    BY <1>1 DEF PopEvent, WaitPop, Dequeue, ReturnNullopt, Block, state, history
  <2>2. \A p \in Producers : pc'[p] = pc[p]
    BY <1>1 DEF PopEvent
  <2> QED BY <1>0, <2>1, <2>2
<1>2. ASSUME NEW t \in Closers, CloseQueue(t)
      PROVE  (\A p \in Producers : pc'[p] = pc[p]) /\ pushed' = pushed /\ Calls' = Calls
  BY <1>2 DEF CloseQueue, Close, history
<1>3. ASSUME NEW t \in Closers, NotifyClosed(t)
      PROVE  (\A p \in Producers : pc'[p] = pc[p]) /\ pushed' = pushed /\ Calls' = Calls
  BY <1>3 DEF NotifyClosed, NotifyAll, AfterClose, state, history
<1>4. CASE WakeSpuriously
  BY <1>0, <1>4 DEF WakeSpuriously, SpuriousWakeup, ownSinkVars, state, history
<1>5. CASE \/ FinishConstruction \/ ConsumeSucceeds \/ CountConsumed \/ ConsumeFails
           \/ CountFailure \/ StopAccepting \/ Shutdown \/ Join
  BY <1>0, <1>5 DEF FinishConstruction, ConsumeSucceeds, CountConsumed, ConsumeFails,
                    CountFailure, StopAccepting, Shutdown, Join, queueVars, state, history
<1> QED BY <1>0, <1>1, <1>2, <1>3, <1>4, <1>5 DEF SinkThreads, ConsumeLoop, FinishShutdown

-----------------------------------------------------------------------------
(* The invariant is inductive. *)

LEMMA PassedType == ASSUME ServiceInv, NEW s \in Producers PROVE Passed(s) \in Seq(Events)
<1>1. EventsOf(s, pushed) \in Seq(Events)
  BY ServiceTypes, EventsType
<1>2. Owed(s) \in Seq(Events)
  <2>1. event[s] \in Optional(Events)
    BY DEF ServiceInv, ReactorType
  <2>2. \A x \in Events : <<x>> \in Seq(Events)
    OBVIOUS
  <2>3. <<>> \in Seq(Events)
    OBVIOUS
  <2>4. event[s] \in Seq(Events)
    BY <2>1, <2>2, <2>3 DEF Optional
  <2> QED BY <2>3, <2>4 DEF Owed
<1> QED BY <1>1, <1>2 DEF Passed

LEMMA OfferBoundStep ==
    ASSUME ServiceInv, [ServiceNext]_serviceVars
    PROVE  OfferBound'
<1>0. /\ Calls \in Nat /\ MaxCalls \in Nat /\ Calls + Cardinality(Unsent) <= MaxCalls
  BY ServiceTypes DEF ServiceInv, OfferBound, Calls
<1> USE <1>0, UnsentFinite
<1>1. Unsent' = Unsent /\ Calls' = Calls => OfferBound'
  BY DEF OfferBound, Calls
<1>2. ASSUME NEW s \in Unsent, Unsent' = Unsent \ {s}, Calls' \in {Calls, Calls + 1}
      PROVE  OfferBound'
  <2>1. Cardinality(Unsent \ {s}) = Cardinality(Unsent) - 1
    BY FS_RemoveElement
  <2>2. Calls' + Cardinality(Unsent') <= MaxCalls
    BY <1>2, <2>1
  <2> QED BY <2>2 DEF OfferBound, Calls
<1>3. CASE UNCHANGED serviceVars
  BY <1>1, <1>3 DEF serviceVars, sinkVars, queueVars, ownSinkVars, state, reactorVars,
                    Unsent, Calls
<1>4. CASE ServiceNext
  <2>1. ASSUME NEW s \in Producers, StreamTelemetry(s) \/ OnReadEnd(s)
        PROVE  Unsent' = Unsent /\ Calls' = Calls
    BY <2>1 DEF StreamTelemetry, OnReadEnd, Finish, sinkVars, queueVars, ownSinkVars, state,
                Unsent, Calls, ServiceInv, ReactorType
  <2>2. ASSUME NEW s \in Producers, NEW e \in Events, EventsLeft, OnReadDone(s, e)
        PROVE  OfferBound'
    <3>1. Calls' = Calls
      BY <2>2 DEF OnReadDone, sinkVars, queueVars, state, Calls
    <3>2. Unsent' = Unsent \/ Unsent' = Unsent \cup {s}
      BY <2>2 DEF OnReadDone, Finish, sinkVars, ownSinkVars, Unsent, ServiceInv, ReactorType
    <3>3. Cardinality(Unsent) + Calls < MaxCalls
      <4> DEFINE Offering == {t \in Producers : reactor[t] = "offering"}
      <4>1. IsFiniteSet(Offering)
        BY ThreadsAssumption, FS_Subset DEF Threads
      <4>2. Unsent \in SUBSET Offering
        BY DEF Unsent
      <4>3. Calls + Cardinality(Offering) < MaxCalls
        BY <2>2 DEF EventsLeft, Calls
      <4> HIDE DEF Offering
      <4>4. Cardinality(Unsent) <= Cardinality(Offering) /\ Cardinality(Offering) \in Nat
        BY <4>1, <4>2, FS_Subset, FS_CardinalityType
      <4> QED BY <4>3, <4>4
    <3>4. CASE Unsent' = Unsent \cup {s}
      <4>1. Cardinality(Unsent \cup {s}) \in {Cardinality(Unsent), Cardinality(Unsent) + 1}
        BY FS_AddElement
      <4>2. Calls' + Cardinality(Unsent') <= MaxCalls
        BY <3>1, <3>3, <3>4, <4>1
      <4> QED BY <4>2 DEF OfferBound, Calls
    <3> QED BY <1>1, <3>1, <3>2, <3>4
  <2>3. ASSUME NEW s \in Producers, Offer(s) PROVE OfferBound'
    <3>1. /\ reactor[s] = "offering" /\ OnlyStream(s)
          /\ Checks(s) \/ Refuses(s) \/ Queues(s) \/ Returns(s)
      BY <2>3, OfferEffect
    <3>2. CASE Checks(s)
      <4>1. Unsent' = Unsent
        BY <3>1, <3>2 DEF OnlyStream, Checks, Unsent
      <4> QED BY <1>1, <3>2, <4>1 DEF Checks
    <3>3. CASE Returns(s)
      <4>1. Unsent' = Unsent
        BY <3>1, <3>3 DEF OnlyStream, Returns, Unsent
      <4> QED BY <1>1, <3>3, <4>1 DEF Returns
    <3>4. CASE Refuses(s) \/ Queues(s)
      <4>1. s \in Unsent /\ Unsent' = Unsent \ {s}
        BY <3>1, <3>4 DEF OnlyStream, Refuses, Queues, Unsent
      <4>2. Calls' \in {Calls, Calls + 1}
        BY <3>4 DEF Refuses, Queues
      <4> QED BY <1>2, <4>1, <4>2
    <3> QED BY <3>1, <3>2, <3>3, <3>4
  <2>4. CASE SinkThreads
    <3>1. /\ \A p \in Producers : pc'[p] = pc[p]
          /\ Calls' = Calls /\ reactor' = reactor
      BY <2>4, SinkThreadsEffect DEF reactorVars
    <3>2. Unsent' = Unsent
      BY <3>1 DEF Unsent
    <3> QED BY <1>1, <3>1, <3>2
  <2> QED BY <1>1, <1>4, <2>1, <2>2, <2>3, <2>4, ServiceCases
<1> QED BY <1>3, <1>4

LEMMA ReactorStep ==
    ASSUME ServiceInv, [ServiceNext]_serviceVars
    PROVE  ReactorType' /\ Places'
<1>0. ReactorType /\ Places
  BY DEF ServiceInv
<1>1. CASE UNCHANGED serviceVars
  BY <1>0, <1>1 DEF serviceVars, sinkVars, ownSinkVars, reactorVars, ReactorType, Places
<1>2. CASE ServiceNext
  <2>1. ASSUME NEW s \in Producers, StreamTelemetry(s) \/ OnReadEnd(s)
        PROVE  ReactorType' /\ Places'
    <3>1. pc' = pc
      BY <2>1 DEF StreamTelemetry, OnReadEnd, sinkVars, ownSinkVars
    <3>2. ReactorType'
      BY <1>0, <2>1 DEF StreamTelemetry, OnReadEnd, Finish, ReactorType, Reactors, Statuses
    <3>3. Places'
      BY <1>0, <2>1, <3>1 DEF StreamTelemetry, OnReadEnd, Finish, ReactorType, Reactors,
                              Places, Refusals
    <3> QED BY <3>2, <3>3
  <2>2. ASSUME NEW s \in Producers, NEW e \in Events, OnReadDone(s, e)
        PROVE  ReactorType' /\ Places'
    <3>1. pc' = pc /\ summary' = summary /\ reactor[s] = "reading"
      BY <2>2 DEF OnReadDone, sinkVars, ownSinkVars
    <3>2. CASE ~Valid(validator[s], e)
      <4>1. Finish(s, "INVALID_ARGUMENT") /\ event' = event /\ validator' = validator
        BY <2>2, <3>2 DEF OnReadDone
      <4> QED BY <1>0, <3>1, <4>1 DEF Finish, ReactorType, Reactors, Statuses, Places, Refusals
    <3>3. CASE Valid(validator[s], e)
      <4>1. /\ validator' = [validator EXCEPT ![s] = Accepted(validator[s], e)]
            /\ event' = [event EXCEPT ![s] = <<e>>]
            /\ reactor' = [reactor EXCEPT ![s] = "offering"]
            /\ status' = status
        BY <2>2, <3>3 DEF OnReadDone
      <4>2. Accepted(validator[s], e) \in ValidatorType
        <5>1. validator[s] \in ValidatorType
          BY <1>0 DEF ReactorType
        <5>2. Describes(validator[s], Passed(s)) /\ Passed(s) \in Seq(Events)
          BY PassedType DEF ServiceInv, Validated
        <5> QED BY <3>3, <5>1, <5>2, AcceptDescribes
      <4>3. ReactorType'
        BY <1>0, <3>1, <4>1, <4>2 DEF ReactorType, Reactors, Optional
      <4>4. status[s] = "none"
        BY <1>0, <3>1 DEF Places
      <4>5. Places'
        BY <1>0, <3>1, <4>1, <4>4 DEF ReactorType, Places, Refusals
      <4> QED BY <4>3, <4>5
    <3> QED BY <3>2, <3>3
  <2>3. ASSUME NEW s \in Producers, Offer(s) PROVE ReactorType' /\ Places'
    <3>1. /\ reactor[s] = "offering" /\ validator' = validator /\ summary' = summary
          /\ OnlyStream(s)
          /\ DOMAIN reactor' = Producers /\ DOMAIN status' = Producers
          /\ DOMAIN event' = Producers
          /\ Checks(s) \/ Refuses(s) \/ Queues(s) \/ Returns(s)
      BY <2>3, OfferEffect
    <3>2. status[s] = "none" /\ event[s] # <<>>
      BY <1>0, <3>1 DEF Places
    <3>3. /\ reactor'[s] \in Reactors /\ status'[s] \in Statuses
          /\ event'[s] \in Optional(Events)
      BY <1>0, <3>1 DEF ReactorType, Checks, Refuses, Queues, Returns, Reactors, Statuses,
                        Optional
    <3>4. ReactorType'
      BY <1>0, <2>3, <3>1, <3>3 DEF Offer, AfterTryAccept, Finish, ReactorType, OnlyStream
    <3>5. /\ reactor'[s] # "offering" => pc'[s] = "idle"
          /\ reactor'[s] = "finished" <=> status'[s] # "none"
          /\ reactor'[s] = "offering" \/ status'[s] \in Refusals => event'[s] # <<>>
          /\ status'[s] # "OK"
      BY <3>1, <3>2 DEF Checks, Refuses, Queues, Returns, Refusals
    <3>6. Places'
      BY <1>0, <3>1, <3>5 DEF OnlyStream, Places
    <3> QED BY <3>4, <3>6
  <2>4. CASE SinkThreads
    BY <1>0, <2>4, SinkThreadsEffect DEF reactorVars, ReactorType, Places
  <2> QED BY <1>2, <2>1, <2>2, <2>3, <2>4, ServiceCases
<1> QED BY <1>1, <1>2

\* The events of a stream, when none is owed and when one is.
LEMMA PassedPlain ==
    ASSUME ServiceInv, NEW s \in Producers
    PROVE  /\ Owed(s) = <<>> => Passed(s) = EventsOf(s, pushed)
           /\ \A e \in Events : Owed(s) = <<e>> =>
                Passed(s) = Append(EventsOf(s, pushed), e)
<1>1. EventsOf(s, pushed) \in Seq(Events)
  BY ServiceTypes, EventsType
<1>2. ASSUME NEW q \in Seq(Events)
      PROVE  q \o <<>> = q /\ \A e \in Events : q \o <<e>> = Append(q, e)
  BY ConcatEmptySeq, AppendIsConcat
<1> QED BY <1>1, <1>2 DEF Passed

\* The validators still describe what their streams have passed.
LEMMA ValidatedStep ==
    ASSUME ServiceInv, [ServiceNext]_serviceVars
    PROVE  Validated'
<1>0. /\ \A t \in Producers : Describes(validator[t], Passed(t))
      /\ ReactorType /\ Places
  BY DEF ServiceInv, Validated
<1> DEFINE Same(t) == validator'[t] = validator[t] /\ Passed(t)' = Passed(t)
<1>1. (\A t \in Producers : Same(t)) => Validated'
  BY <1>0 DEF Validated
\* Streams that a step of another leaves where they are.
<1>2. ASSUME NEW s \in Producers, OnlyStream(s),
             pushed' = pushed \/ (reactor[s] = "offering" /\ pushed' = Append(pushed, Collected(s)))
      PROVE  \A t \in Producers : t # s => Same(t)
  <2> SUFFICES ASSUME NEW t \in Producers, t # s PROVE Same(t)
    OBVIOUS
  <2>1. Owed(t)' = Owed(t)
    BY <1>2 DEF OnlyStream, Owed, Unsent
  <2>2. EventsOf(t, pushed') = EventsOf(t, pushed)
    <3>1. CASE pushed' = pushed
      BY <3>1
    <3>2. CASE reactor[s] = "offering" /\ pushed' = Append(pushed, Collected(s))
      <4>1. Collected(s) \in Items /\ Collected(s).stream # t
        BY <3>2, HeldEvent
      <4> QED BY <3>2, <4>1, ServiceTypes, OneMoreEvent
    <3> QED BY <1>2, <3>1, <3>2
  <2> QED BY <1>2, <2>1, <2>2 DEF OnlyStream, Passed
<1>3. CASE UNCHANGED serviceVars
  BY <1>1, <1>3 DEF serviceVars, sinkVars, queueVars, ownSinkVars, history, reactorVars,
                    Passed, Owed, Unsent
<1>4. CASE ServiceNext
  <2>1. ASSUME NEW s \in Producers, StreamTelemetry(s) \/ OnReadEnd(s)
        PROVE  Validated'
    <3>1. /\ pc' = pc /\ pushed' = pushed /\ event' = event /\ validator' = validator
          /\ reactor[s] \in {"none", "reading"}
      BY <2>1 DEF StreamTelemetry, OnReadEnd, sinkVars, queueVars, ownSinkVars, history
    <3>2. \A t \in Producers : t # s => reactor'[t] = reactor[t] /\ status'[t] = status[t]
      BY <1>0, <2>1 DEF StreamTelemetry, OnReadEnd, Finish, ReactorType
    <3>3. /\ reactor'[s] # "offering" /\ status'[s] \notin Refusals
          /\ reactor[s] # "offering" /\ status[s] \notin Refusals
      BY <1>0, <2>1, <3>1 DEF StreamTelemetry, OnReadEnd, Finish, ReactorType, Places, Refusals
    <3>4. \A t \in Producers : Owed(t)' = Owed(t)
      BY <3>1, <3>2, <3>3 DEF Owed, Unsent
    <3> QED BY <1>1, <3>1, <3>4 DEF Passed
  <2>2. ASSUME NEW s \in Producers, NEW e \in Events, OnReadDone(s, e)
        PROVE  Validated'
    <3>1. pc' = pc /\ pushed' = pushed /\ summary' = summary /\ reactor[s] = "reading"
      BY <2>2 DEF OnReadDone, sinkVars, queueVars, ownSinkVars, history
    <3>2. status[s] = "none" /\ pc[s] = "idle"
      BY <1>0, <3>1 DEF Places
    <3>3. Owed(s) = <<>> /\ Passed(s) = EventsOf(s, pushed)
      <4>1. Owed(s) = <<>>
        BY <3>1, <3>2 DEF Owed, Unsent, Refusals
      <4> QED BY <4>1, PassedPlain
    <3>4. OnlyStream(s)
      BY <1>0, <2>2, <3>1 DEF OnReadDone, Finish, ReactorType, OnlyStream
    <3>5. \A t \in Producers : t # s => Same(t)
      BY <1>2, <3>1, <3>4
    <3>6. CASE ~Valid(validator[s], e)
      <4>1. /\ validator' = validator /\ reactor'[s] = "finished"
            /\ status'[s] = "INVALID_ARGUMENT"
        BY <1>0, <2>2, <3>6 DEF OnReadDone, Finish, ReactorType
      <4>2. Owed(s)' = <<>>
        BY <4>1 DEF Owed, Unsent, Refusals
      <4>3. Same(s)
        BY <3>1, <3>3, <4>1, <4>2 DEF Passed
      <4> QED BY <1>1, <3>5, <4>3
    <3>7. CASE Valid(validator[s], e)
      <4>1. /\ validator'[s] = Accepted(validator[s], e)
            /\ event'[s] = <<e>> /\ reactor'[s] = "offering"
        BY <1>0, <2>2, <3>7 DEF OnReadDone, ReactorType
      <4>2. Owed(s)' = <<e>>
        BY <3>1, <3>2, <4>1 DEF Owed, Unsent
      <4>3. Passed(s)' = Append(Passed(s), e)
        <5>1. Passed(s)' = EventsOf(s, pushed) \o <<e>>
          BY <3>1, <4>2 DEF Passed
        <5>2. Passed(s) \in Seq(Events)
          BY PassedType
        <5> QED BY <3>3, <5>1, <5>2, AppendIsConcat
      <4>4. Describes(Accepted(validator[s], e), Append(Passed(s), e))
        <5>1. validator[s] \in ValidatorType /\ Passed(s) \in Seq(Events)
          BY <1>0, PassedType DEF ReactorType
        <5> QED BY <1>0, <3>7, <5>1, AcceptDescribes
      <4>5. Describes(validator'[s], Passed(s)')
        BY <4>1, <4>3, <4>4
      <4>6. \A t \in Producers : Describes(validator'[t], Passed(t)')
        BY <1>0, <3>5, <4>5
      <4> QED BY <4>6 DEF Validated
    <3> QED BY <3>6, <3>7
  <2>3. ASSUME NEW s \in Producers, Offer(s) PROVE Validated'
    <3>1. /\ reactor[s] = "offering" /\ validator' = validator /\ OnlyStream(s)
          /\ Checks(s) \/ Refuses(s) \/ Queues(s) \/ Returns(s)
      BY <2>3, OfferEffect
    <3>2. status[s] = "none"
      BY <1>0, <3>1 DEF Places
    <3>3. \A t \in Producers : t # s => Same(t)
      BY <1>2, <3>1 DEF Checks, Refuses, Queues, Returns
    <3>4. CASE Checks(s) \/ Refuses(s)
      <4>1. Owed(s) = event[s] /\ Owed(s)' = event[s] /\ pushed' = pushed
        BY <3>1, <3>4 DEF Checks, Refuses, Owed, Unsent
      <4> QED BY <1>1, <3>1, <3>3, <4>1 DEF Passed
    <3>5. CASE Queues(s)
      <4> DEFINE e == event[s][1]
      <4>1. /\ event[s] = <<e>> /\ e \in Events /\ Collected(s) \in Items
            /\ Collected(s).stream = s /\ Collected(s).event = e
        BY <3>1, HeldEvent
      <4>2. Owed(s) = event[s] /\ Owed(s)' = <<>>
        BY <3>1, <3>2, <3>5 DEF Queues, Owed, Unsent, Refusals
      <4>3. EventsOf(s, pushed') = Append(EventsOf(s, pushed), e)
        BY <3>5, <4>1, ServiceTypes, OneMoreEvent DEF Queues
      <4> HIDE DEF e
      <4>4. Passed(s) = Append(EventsOf(s, pushed), e)
        BY <4>1, <4>2, PassedPlain
      <4>5. Passed(s) \in Seq(Events)
        BY PassedType
      <4>6. Passed(s)' = Passed(s) \o <<>>
        BY <4>2, <4>3, <4>4 DEF Passed
      <4>7. Passed(s)' = Passed(s)
        BY <4>5, <4>6, ConcatEmptySeq
      <4> QED BY <1>1, <3>1, <3>3, <4>7
    <3>6. CASE Returns(s)
      <4>1. Owed(s) = <<>> /\ Owed(s)' = <<>> /\ pushed' = pushed
        BY <3>1, <3>2, <3>6 DEF Returns, Owed, Unsent, Refusals
      <4> QED BY <1>1, <3>1, <3>3, <4>1 DEF Passed
    <3> QED BY <3>1, <3>4, <3>5, <3>6
  <2>4. CASE SinkThreads
    <3>1. /\ \A p \in Producers : pc'[p] = pc[p]
          /\ pushed' = pushed /\ reactor' = reactor /\ status' = status /\ event' = event
          /\ validator' = validator
      BY <2>4, SinkThreadsEffect DEF reactorVars
    <3>2. \A t \in Producers : Owed(t)' = Owed(t)
      BY <3>1 DEF Owed, Unsent
    <3> QED BY <1>1, <3>1, <3>2 DEF Passed
  <2> QED BY <1>4, <2>1, <2>2, <2>3, <2>4, ServiceCases
<1> QED BY <1>3, <1>4

LEMMA ServiceInvInit == ASSUME ServiceInit PROVE ServiceInv
<1>0. SinkInit
  BY DEF ServiceInit
<1>1. StatsInv
  <2>1. pc[Main] = "constructing" /\ pc[Worker] = "loop"
        /\ \A p \in Producers : pc[p] = "idle"
    BY <1>0, ThreadRoles DEF SinkInit
  <2> QED BY <1>0, <2>1, SinkInvInit
          DEF SinkInit, QueueInit, StatsInv, Construction, Counters, ShutdownOrder
<1>2. OfferBound
  <2>1. Unsent = {}
    BY DEF ServiceInit, Unsent
  <2>2. accepted_items = 0 /\ rejected_items = 0
    BY <1>0 DEF SinkInit, QueueInit
  <2> QED BY <2>1, <2>2, FS_EmptySet, MaxCallsAssumption DEF OfferBound
<1>3. ReactorType
  <2>1. NewValidator \in ValidatorType
    <3>1. 0 \in SequenceNumbers
      BY WordAssumption DEF SequenceNumbers
    <3> QED BY <3>1 DEF NewValidator, ValidatorType
  <2>2. <<>> \in Optional(Events)
    BY DEF Optional
  <2> QED BY <2>1, <2>2 DEF ServiceInit, ReactorType, Reactors, Statuses
<1>4. Places
  BY <1>0, ThreadRoles DEF ServiceInit, SinkInit, Places, Refusals
<1>5. Validated
  <2> SUFFICES ASSUME NEW s \in Producers PROVE Describes(validator[s], Passed(s))
    BY DEF Validated
  <2>1. Owed(s) = <<>> /\ validator[s] = NewValidator
    BY DEF ServiceInit, Owed, Unsent, Refusals
  <2>2. EventsOf(s, pushed) = <<>>
    <3>1. pushed = <<>>
      BY <1>0 DEF SinkInit, QueueInit
    <3> QED BY <3>1, NoEvents
  <2>3. Passed(s) = <<>>
    BY <2>1, <2>2 DEF Passed
  <2>4. NewValidator.accepted_events = 0
    BY DEF NewValidator
  <2>5. 1 .. Len(<<>>) = {} /\ Len(<<>>) = 0
    OBVIOUS
  <2> QED BY <2>1, <2>3, <2>4, <2>5 DEF Describes
<1> QED BY <1>1, <1>2, <1>3, <1>4, <1>5 DEF ServiceInv

LEMMA ServiceInvStep ==
    ASSUME ServiceInv, [ServiceNext]_serviceVars
    PROVE  ServiceInv'
<1>1. StatsInv'
  BY ServiceStepIsSinkStep, SinkInvStep, StatsStep DEF ServiceInv, StatsInv
<1> QED BY <1>1, OfferBoundStep, ReactorStep, ValidatedStep DEF ServiceInv

LEMMA ServiceInvariant == ServiceSpec => []ServiceInv
<1>1. ServiceInit => ServiceInv BY ServiceInvInit
<1>2. ServiceInv /\ [ServiceNext]_serviceVars => ServiceInv' BY ServiceInvStep
<1> QED BY <1>1, <1>2, PTL DEF ServiceSpec

\* The service uses the sink as its handlers may, so every theorem about the
\* sink holds of the sink inside the service.
THEOREM ServiceUsesSink == ServiceSpec => SinkSpec
<1>1. ServiceInit => SinkInit BY DEF ServiceInit
<1>2. ServiceInv /\ [ServiceNext]_serviceVars => [SinkNext]_sinkVars
  BY ServiceStepIsSinkStep
<1> QED BY <1>1, <1>2, ServiceInvariant, PTL DEF ServiceSpec, SinkSpec

-----------------------------------------------------------------------------
(* What it says about the answers. *)

\* A stream that owes nothing has its validator describe what is queued.
LEMMA NothingOwed ==
    ASSUME ServiceInv, NEW s \in Producers,
           reactor[s] = "reading" \/ status[s] \in {"OK", "INVALID_ARGUMENT"}
    PROVE  Describes(validator[s], EventsOf(s, pushed))
<1>1. Owed(s) = <<>>
  BY DEF ServiceInv, Places, Owed, Unsent, Refusals
<1> QED BY <1>1, PassedPlain DEF ServiceInv, Validated

LEMMA SummariesFollow == ServiceInv => SummaryTruthful
<1> SUFFICES ASSUME ServiceInv, NEW s \in Producers, status[s] = "OK"
             PROVE  LET evs == EventsOf(s, pushed)
                        sum == summary[s]
                    IN  /\ sum.accepted_events = Len(evs)
                        /\ evs = <<>> => sum = NewValidator
                        /\ evs # <<>> =>
                             /\ sum.first_sequence_number = evs[1].sequence_number
                             /\ sum.last_sequence_number = evs[Len(evs)].sequence_number
                             /\ sum.sequence_gaps =
                                  Cardinality((sum.first_sequence_number ..
                                               sum.last_sequence_number) \ Numbers(evs))
                             /\ \A i \in 1 .. Len(evs) : evs[i].producer_id = sum.producer_id
  BY DEF SummaryTruthful
<1>1. summary[s] = validator[s]
  BY DEF ServiceInv, Places
<1>2. Describes(summary[s], EventsOf(s, pushed))
  BY <1>1, NothingOwed
<1> QED BY <1>2 DEF Describes

\* What is queued for a stream is a part of what has passed its validator.
LEMMA QueuedPassed ==
    ASSUME ServiceInv, NEW s \in Producers
    PROVE  /\ EventsOf(s, pushed) \in Seq(Events)
           /\ Len(EventsOf(s, pushed)) <= Len(Passed(s))
           /\ \A i \in 1 .. Len(EventsOf(s, pushed)) : Passed(s)[i] = EventsOf(s, pushed)[i]
<1>1. EventsOf(s, pushed) \in Seq(Events)
  BY ServiceTypes, EventsType
<1>2. Owed(s) = <<>> \/ \E e \in Events : Owed(s) = <<e>>
  <2>1. event[s] \in Optional(Events)
    BY DEF ServiceInv, ReactorType
  <2> QED BY <2>1 DEF Owed, Optional
<1>3. CASE Owed(s) = <<>>
  BY <1>1, <1>3, PassedPlain
<1>4. ASSUME NEW e \in Events, Owed(s) = <<e>>
      PROVE  /\ Len(EventsOf(s, pushed)) <= Len(Passed(s))
             /\ \A i \in 1 .. Len(EventsOf(s, pushed)) : Passed(s)[i] = EventsOf(s, pushed)[i]
  <2>1. Passed(s) = Append(EventsOf(s, pushed), e)
    BY <1>4, PassedPlain
  <2> QED BY <1>1, <2>1
<1> QED BY <1>1, <1>2, <1>3, <1>4

LEMMA OrderFollows == ServiceInv => StreamsInOrder
<1> SUFFICES ASSUME ServiceInv, NEW s \in Producers
             PROVE  LET evs == EventsOf(s, pushed) IN
                    /\ \A i, j \in 1 .. Len(evs) :
                         /\ i < j => evs[i].sequence_number < evs[j].sequence_number
                         /\ evs[i].producer_id = evs[j].producer_id
                    /\ \A i \in 1 .. Len(evs) : ValidatePayload(evs[i].payload)
  BY DEF StreamsInOrder
<1> DEFINE evs == EventsOf(s, pushed)
           all == Passed(s)
<1>1. /\ Len(evs) \in Nat /\ Len(all) \in Nat /\ Len(evs) <= Len(all)
      /\ \A i \in 1 .. Len(evs) : all[i] = evs[i]
  BY QueuedPassed, PassedType
<1>2. \A i \in 1 .. Len(all) :
        /\ all[i].producer_id = validator[s].producer_id
        /\ ValidatePayload(all[i].payload)
        /\ \A j \in 1 .. Len(all) : i < j => all[i].sequence_number < all[j].sequence_number
  BY DEF ServiceInv, Validated, Describes
<1> HIDE DEF evs, all
<1>3. \A i \in 1 .. Len(evs) : i \in 1 .. Len(all)
  BY <1>1
<1>4. \A i \in 1 .. Len(evs) :
        /\ evs[i].producer_id = validator[s].producer_id
        /\ ValidatePayload(evs[i].payload)
        /\ \A j \in 1 .. Len(evs) : i < j => evs[i].sequence_number < evs[j].sequence_number
  BY <1>1, <1>2, <1>3
<1> QED BY <1>4 DEF evs

LEMMA NoDropFollows == ServiceInv => NoSilentDrop
<1> SUFFICES ASSUME ServiceInv, NEW s \in Producers
             PROVE  LET n == Len(EventsOf(s, pushed)) IN
                    /\ reactor[s] = "reading" \/ status[s] \in {"OK", "INVALID_ARGUMENT"} =>
                         validator[s].accepted_events = n
                    /\ status[s] \in Refusals => validator[s].accepted_events = n + 1
  BY DEF NoSilentDrop, Refusals
<1>1. ASSUME reactor[s] = "reading" \/ status[s] \in {"OK", "INVALID_ARGUMENT"}
      PROVE  validator[s].accepted_events = Len(EventsOf(s, pushed))
  BY <1>1, NothingOwed DEF Describes
<1>2. ASSUME status[s] \in Refusals
      PROVE  validator[s].accepted_events = Len(EventsOf(s, pushed)) + 1
  <2>1. Owed(s) = <<event[s][1]>> /\ event[s][1] \in Events
    BY <1>2, HeldEvent DEF Owed
  <2>2. Passed(s) = Append(EventsOf(s, pushed), event[s][1])
    BY <2>1, PassedPlain
  <2>3. Len(Passed(s)) = Len(EventsOf(s, pushed)) + 1
    BY <2>1, <2>2, QueuedPassed
  <2> QED BY <2>3 DEF ServiceInv, Validated, Describes
<1> QED BY <1>1, <1>2

LEMMA ConsumedFollows == ServiceInv => OkMeansConsumed
<1> SUFFICES ASSUME ServiceInv, pc[Main] = "stopped", failed = <<>>,
                    NEW s \in Producers, status[s] = "OK"
             PROVE  Len(EventsOf(s, handled)) = summary[s].accepted_events
  BY DEF OkMeansConsumed
<1>1. pc[Worker] = "exited"
  BY DEF ServiceInv, StatsInv, ShutdownOrder
<1>2. handled = pushed
  <2>1. AllHandled /\ items = <<>>
    BY <1>1 DEF ServiceInv, StatsInv, SinkInv, Delivery, LastFailed
  <2>2. taken \in Seq(Items) /\ pushed = taken \o items
    BY DEF ServiceInv, StatsInv, SinkInv, HistoryInv, TypeOK, Fifo
  <2> QED BY <2>1, <2>2, ConcatEmptySeq DEF AllHandled
<1>3. summary[s] = validator[s] /\ Describes(validator[s], EventsOf(s, pushed))
  BY NothingOwed DEF ServiceInv, Places
<1> QED BY <1>2, <1>3 DEF Describes

\* A summary sent with status OK describes exactly the events that the queue
\* accepted from the stream: their number, the first and the last sequence
\* number, the producer and the numbers missing in between.
THEOREM SummariesTruthful == ServiceSpec => []SummaryTruthful
BY ServiceInvariant, SummariesFollow, PTL

\* The events of one stream reach the queue well-formed, of one producer and
\* in strictly increasing sequence order, whatever the other streams do.
THEOREM StreamsOrdered == ServiceSpec => []StreamsInOrder
BY ServiceInvariant, OrderFollows, PTL

\* An event that passed validation is in the queue, or its stream has ended
\* with RESOURCE_EXHAUSTED or UNAVAILABLE and it was the last.
THEOREM NoEventDropped == ServiceSpec => []NoSilentDrop
BY ServiceInvariant, NoDropFollows, PTL

\* After a shutdown without consumer failure the consumer has seen every event
\* that an OK summary acknowledged.
THEOREM AcknowledgedConsumed == ServiceSpec => []OkMeansConsumed
BY ServiceInvariant, ConsumedFollows, PTL
=============================================================================
