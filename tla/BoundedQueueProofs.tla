------------------------- MODULE BoundedQueueProofs -------------------------
(***************************************************************************)
(* Proofs about BoundedQueue for any number of threads, any capacity and   *)
(* any items.                                                              *)
(***************************************************************************)
EXTENDS BoundedQueue, TLAPS, SequenceTheorems, FiniteSetTheorems

(* Every step of the queue is one of nine kinds, by one thread. *)
StepOf(t) ==
    \/ \E why \in {"closed", "full"} :
         call[t] = "idle" /\ Reject(t, why) /\ tried' = tried + 1
    \/ \E x \in Items :
         call[t] = "idle" /\ ~closed /\ ~Full /\ Enqueue(t, x) /\ tried' = tried + 1
    \/ NotifyOne(t)
    \/ call[t] \in {"idle", "woken"} /\ items # <<>> /\ Dequeue(t)
    \/ call[t] \in {"idle", "woken"} /\ items = <<>> /\ closed /\ ReturnNullopt(t)
    \/ call[t] \in {"idle", "woken"} /\ items = <<>> /\ ~closed /\ Block(t)
    \/ SpuriousWakeup(t)
    \/ Close(t)
    \/ NotifyAll(t)

LEMMA StepCases == ASSUME QueueNext PROVE \E t \in Threads : StepOf(t)
<1>1. ASSUME NEW t \in Producers, NEW x \in Items, TryPush(t, x) PROVE StepOf(t)
  BY <1>1 DEF StepOf, TryPush
<1>2. ASSUME NEW t \in Producers, NotifyOne(t) PROVE StepOf(t)
  BY <1>2 DEF StepOf
<1>3. ASSUME NEW t \in Consumers, WaitPop(t) PROVE StepOf(t)
  BY <1>3 DEF StepOf, WaitPop
<1>4. ASSUME NEW t \in Consumers, SpuriousWakeup(t) PROVE StepOf(t)
  BY <1>4 DEF StepOf
<1>5. ASSUME NEW t \in Closers, Close(t) \/ NotifyAll(t) PROVE StepOf(t)
  BY <1>5 DEF StepOf
<1> QED BY <1>1, <1>2, <1>3, <1>4, <1>5 DEF QueueNext, Threads

-----------------------------------------------------------------------------
(* Types, and the bound on the number of items. *)

LEMMA TypeInit == ASSUME QueueInit PROVE TypeOK
<1> USE DEF QueueInit
<1>1. items \in Seq(Items) /\ pushed \in Seq(Items) /\ taken \in Seq(Items)
  OBVIOUS
<1>2. Len(items) <= Capacity
  BY CapacityAssumption
<1>3. popped \in [Threads -> Optional(Items)]
  BY DEF Optional
<1>4. sizes \in SUBSET Nat
  <2>1. sizes = {0} OBVIOUS
  <2>2. 0 \in Nat OBVIOUS
  <2> QED BY <2>1, <2>2, Zenon
<1> QED BY <1>1, <1>2, <1>3, <1>4 DEF TypeOK, CallStates

LEMMA TypeStep == ASSUME TypeOK, [QueueNext]_queueVars PROVE TypeOK'
<1> USE DEF TypeOK, CallStates, QueuePushResult, Optional
<1>1. CASE UNCHANGED queueVars
  BY <1>1 DEF queueVars, state, history
<1>2. CASE QueueNext
  <2>1. PICK t \in Threads : StepOf(t)
    BY <1>2, StepCases
  <2>2. ASSUME NEW why \in {"closed", "full"}, Reject(t, why), tried' = tried + 1
        PROVE  TypeOK'
    BY <2>2 DEF Reject, history
  <2>3. ASSUME NEW x \in Items, ~Full, Enqueue(t, x), tried' = tried + 1
        PROVE  TypeOK'
    <3>1. Len(items') \in Nat /\ Len(items') <= Capacity /\ items' \in Seq(Items)
      BY <2>3, CapacityAssumption DEF Enqueue, Full
    <3>2. sizes' \in SUBSET Nat
      BY <2>3, <3>1 DEF Enqueue
    <3> QED BY <2>3, <3>1, <3>2 DEF Enqueue, RaiseWatermark
  <2>4. CASE NotifyOne(t)
    BY <2>4 DEF NotifyOne, Waiting, state, history
  <2>5. CASE items # <<>> /\ Dequeue(t)
    <3>1. Len(items') \in Nat /\ Len(items') <= Capacity /\ items' \in Seq(Items)
      BY <2>5, CapacityAssumption DEF Dequeue
    <3>2. sizes' \in SUBSET Nat
      BY <2>5, <3>1 DEF Dequeue
    <3> QED BY <2>5, <3>1, <3>2 DEF Dequeue
  <2>6. CASE ReturnNullopt(t)
    BY <2>6 DEF ReturnNullopt, state
  <2>7. CASE Block(t)
    BY <2>7 DEF Block, state, history
  <2>8. CASE SpuriousWakeup(t)
    BY <2>8 DEF SpuriousWakeup, state, history
  <2>9. CASE Close(t)
    BY <2>9 DEF Close, history
  <2>10. CASE NotifyAll(t)
    BY <2>10 DEF NotifyAll, Waiting, state, history
  <2> QED BY <2>1, <2>2, <2>3, <2>4, <2>5, <2>6, <2>7, <2>8, <2>9, <2>10 DEF StepOf
<1> QED BY <1>1, <1>2

\* The members of the queue keep their types, and never more than capacity_
\* items are queued.
THEOREM TypeCorrect == QueueSpec => []TypeOK
<1>1. QueueInit => TypeOK BY TypeInit
<1>2. TypeOK /\ [QueueNext]_queueVars => TypeOK' BY TypeStep
<1> QED BY <1>1, <1>2, PTL DEF QueueSpec

-----------------------------------------------------------------------------
(* The history: what went in, what came out, and the statistics. *)

LEMMA AppendConcat ==
    \A a, b \in Seq(Items) : \A x \in Items : Append(a \o b, x) = a \o Append(b, x)
<1> TAKE a, b \in Seq(Items)
<1> TAKE x \in Items
<1>1. <<x>> \in Seq(Items) OBVIOUS
<1>2. (a \o b) \o <<x>> = a \o (b \o <<x>>)
  BY <1>1, ConcatAssociative
<1>3. a \o b \in Seq(Items) BY ConcatProperties
<1> QED BY <1>2, <1>3, AppendIsConcat

LEMMA MoveHead ==
    ASSUME NEW S, NEW a \in Seq(S), NEW b \in Seq(S), b # <<>>
    PROVE  Append(a, Head(b)) \o Tail(b) = a \o b
<1>1. /\ Head(b) \in S /\ Tail(b) \in Seq(S) /\ <<Head(b)>> \in Seq(S)
  BY HeadTailProperties
<1>2. b = <<Head(b)>> \o Tail(b)
  BY <1>1, SMT
<1>3. Append(a, Head(b)) = a \o <<Head(b)>>
  BY <1>1, AppendIsConcat
<1> QED BY <1>1, <1>2, <1>3, ConcatAssociative

LEMMA ConcatEmpty ==
    ASSUME NEW S, NEW a \in Seq(S), NEW b \in Seq(S)
    PROVE  a = a \o b <=> b = <<>>
<1>1. Len(a \o b) = Len(a) + Len(b) /\ Len(a) \in Nat /\ Len(b) \in Nat
  BY ConcatProperties, LenProperties
<1>2. Len(b) = 0 => b = <<>> BY EmptySeq
<1>3. a \o <<>> = a BY ConcatEmptySeq
<1> QED BY <1>1, <1>2, <1>3

HistoryInv == TypeOK /\ Fifo /\ StatsExact /\ EndIsFinal

LEMMA HistoryInit == ASSUME QueueInit PROVE Fifo /\ StatsExact /\ EndIsFinal
<1> USE DEF QueueInit
<1>1. Fifo BY DEF Fifo
<1>2. StatsExact
  <2>1. Len(items) = 0 /\ Len(pushed) = 0 /\ sizes \cup {Len(items)} = {0}
    OBVIOUS
  <2>2. \A n \in sizes \cup {Len(items)} : n <= high_watermark
    BY <2>1
  <2>3. high_watermark \in sizes
    OBVIOUS
  <2>4. high_watermark <= Capacity
    BY CapacityAssumption
  <2>5. tried = 0 /\ accepted_items = 0 /\ rejected_items = 0
    OBVIOUS
  <2>6. rejected_items = tried - Len(pushed)
    <3> HIDE DEF QueueInit
    <3> QED BY <2>1, <2>5
  <2> QED BY <2>1, <2>2, <2>3, <2>4, <2>5, <2>6 DEF StatsExact
<1>3. EndIsFinal BY DEF EndIsFinal
<1> QED BY <1>1, <1>2, <1>3

LEMMA HistoryStep ==
    ASSUME HistoryInv, [QueueNext]_queueVars
    PROVE  Fifo' /\ StatsExact' /\ EndIsFinal'
<1> USE DEF HistoryInv
<1>1. CASE UNCHANGED queueVars
  BY <1>1 DEF queueVars, state, history, Fifo, StatsExact, EndIsFinal
<1>2. CASE QueueNext
  <2>1. PICK t \in Threads : StepOf(t)
    BY <1>2, StepCases
  <2>2. ASSUME NEW why \in {"closed", "full"}, Reject(t, why), tried' = tried + 1
        PROVE  Fifo' /\ StatsExact' /\ EndIsFinal'
    <3>1. Len(pushed) \in Nat /\ tried \in Nat
      BY LenProperties DEF TypeOK
    <3> QED BY <2>2, <3>1 DEF Reject, Fifo, StatsExact, EndIsFinal
  <2>3. ASSUME NEW x \in Items, ~closed, ~Full, Enqueue(t, x), tried' = tried + 1
        PROVE  Fifo' /\ StatsExact' /\ EndIsFinal'
    <3> USE DEF TypeOK
    <3>1. Fifo'
      <4>0. taken \in Seq(Items) /\ items \in Seq(Items)
        OBVIOUS
      <4>1. Append(taken \o items, x) = taken \o Append(items, x)
        BY <4>0, AppendConcat, Zenon
      <4> QED BY <2>3, <4>1 DEF Fifo, Enqueue
    <3>2. Len(items') = Len(items) + 1 /\ Len(pushed') = Len(pushed) + 1
      BY <2>3 DEF Enqueue
    <3>3. Len(items) \in Nat /\ Len(pushed) \in Nat
      BY LenProperties
    <3>4. /\ high_watermark' = IF Len(items) + 1 > high_watermark THEN Len(items) + 1
                               ELSE high_watermark
          /\ sizes' = sizes \cup {Len(items) + 1}
      BY <2>3, <3>2 DEF Enqueue, RaiseWatermark
    <3>5. StatsExact'
      <4>1. /\ high_watermark' \in sizes'
            /\ \A n \in sizes' \cup {Len(items')} : n <= high_watermark'
        BY <3>2, <3>3, <3>4 DEF StatsExact
      <4>2. high_watermark' <= Capacity
        BY <2>3, <3>3, <3>4, CapacityAssumption DEF StatsExact, Full
      <4>3. accepted_items' = Len(pushed') /\ rejected_items' = tried' - Len(pushed')
        BY <2>3, <3>2, <3>3 DEF StatsExact, Enqueue
      <4> QED BY <4>1, <4>2, <4>3 DEF StatsExact
    <3>6. EndIsFinal'
      BY <2>3 DEF EndIsFinal, Enqueue
    <3> QED BY <3>1, <3>5, <3>6
  <2>4. CASE NotifyOne(t)
    BY <2>4 DEF NotifyOne, state, history, Fifo, StatsExact, EndIsFinal
  <2>5. CASE items # <<>> /\ Dequeue(t)
    <3> USE DEF TypeOK
    <3>1. Fifo'
      BY <2>5, MoveHead DEF Fifo, Dequeue
    <3>2. StatsExact'
      <4>1. Len(items') = Len(items) - 1 /\ Len(items) \in Nat
        BY <2>5, HeadTailProperties DEF Dequeue
      <4>2. sizes' = sizes \cup {Len(items) - 1}
        BY <2>5, <4>1 DEF Dequeue
      <4>3. \A n \in sizes' \cup {Len(items')} : n <= high_watermark
        BY <4>1, <4>2 DEF StatsExact
      <4> QED BY <2>5, <4>2, <4>3 DEF StatsExact, Dequeue
    <3>3. taken # pushed
      BY <2>5, ConcatEmpty DEF Fifo
    <3>4. EndIsFinal'
      BY <2>5, <3>3 DEF EndIsFinal, Dequeue
    <3> QED BY <3>1, <3>2, <3>4
  <2>6. CASE items = <<>> /\ closed /\ ReturnNullopt(t)
    <3>1. taken = pushed
      BY <2>6, ConcatEmptySeq DEF Fifo, TypeOK
    <3> QED BY <2>6, <3>1 DEF ReturnNullopt, state, Fifo, StatsExact, EndIsFinal
  <2>7. CASE Block(t)
    BY <2>7 DEF Block, state, history, Fifo, StatsExact, EndIsFinal
  <2>8. CASE SpuriousWakeup(t)
    BY <2>8 DEF SpuriousWakeup, state, history, Fifo, StatsExact, EndIsFinal
  <2>9. CASE Close(t)
    BY <2>9 DEF Close, history, Fifo, StatsExact, EndIsFinal
  <2>10. CASE NotifyAll(t)
    BY <2>10 DEF NotifyAll, state, history, Fifo, StatsExact, EndIsFinal
  <2> QED BY <2>1, <2>2, <2>3, <2>4, <2>5, <2>6, <2>7, <2>8, <2>9, <2>10 DEF StepOf
<1> QED BY <1>1, <1>2

\* wait_pop returns the accepted items in order, the statistics are exact, and
\* a nullopt is final.
THEOREM HistoryCorrect == QueueSpec => [](Fifo /\ StatsExact /\ EndIsFinal)
<1>1. QueueInit => HistoryInv
  BY TypeInit, HistoryInit DEF HistoryInv
<1>2. HistoryInv /\ [QueueNext]_queueVars => HistoryInv'
  BY TypeStep, HistoryStep DEF HistoryInv
<1>3. HistoryInv => Fifo /\ StatsExact /\ EndIsFinal
  BY DEF HistoryInv
<1> QED BY <1>1, <1>2, <1>3, PTL DEF QueueSpec

\* high_watermark_ is the largest size the queue has had and never exceeds the
\* capacity, accepted_items_ counts the accepted pushes and rejected_items_ the
\* refused ones.
THEOREM StatsCorrect == QueueSpec => []StatsExact
BY HistoryCorrect, PTL

\* When wait_pop has returned nullopt to anybody, the queue is closed and every
\* accepted item has been handed out.
THEOREM EndCorrect == QueueSpec => []EndIsFinal
BY HistoryCorrect, PTL

-----------------------------------------------------------------------------
(* No lost wakeup. *)

WakeupInv == TypeOK /\ NoLostWakeup

LEMMA WakeupStep ==
    ASSUME WakeupInv, [QueueNext]_queueVars
    PROVE  NoLostWakeup'
<1> USE DEF WakeupInv
<1> DEFINE n == Cardinality(Notifying)
           w == Cardinality(Woken)
<1>0. /\ IsFiniteSet(Notifying) /\ IsFiniteSet(Woken)
      /\ n \in Nat /\ w \in Nat /\ Len(items) \in Nat
  <2>1. IsFiniteSet(Notifying) /\ IsFiniteSet(Woken)
    BY ThreadsAssumption, FS_Subset DEF Notifying, Woken
  <2> QED BY <2>1, FS_CardinalityType, LenProperties DEF TypeOK
<1>1. CASE UNCHANGED queueVars
  BY <1>1 DEF queueVars, state, NoLostWakeup, Waiting, Woken, Notifying
<1>2. CASE QueueNext
  <2>1. PICK t \in Threads : StepOf(t)
    BY <1>2, StepCases
  <2>2. ASSUME NEW why \in {"closed", "full"}, Reject(t, why)
        PROVE  NoLostWakeup'
    BY <2>2 DEF Reject, NoLostWakeup, Waiting, Woken, Notifying
  <2>3. ASSUME NEW x \in Items, call[t] = "idle", Enqueue(t, x)
        PROVE  NoLostWakeup'
    <3>1. /\ Waiting' = Waiting /\ Woken' = Woken
          /\ Notifying' = Notifying \cup {t} /\ t \notin Notifying
      BY <2>3 DEF Enqueue, Waiting, Woken, Notifying, TypeOK
    <3>2. Cardinality(Notifying') = n + 1
      BY <1>0, <3>1, FS_AddElement
    <3>3. Len(items') = Len(items) + 1
      BY <2>3 DEF Enqueue, TypeOK
    <3>4. ASSUME NEW u \in Threads, call[u] = "notify_all" PROVE call'[u] = "notify_all"
      BY <2>3, <3>4 DEF Enqueue, TypeOK
    <3> QED BY <1>0, <2>3, <3>1, <3>2, <3>3, <3>4 DEF NoLostWakeup, Enqueue
  <2>4. CASE NotifyOne(t)
    <3>1. CASE call' = [call EXCEPT ![t] = "idle"] /\ Waiting = {}
      BY <3>1 DEF NoLostWakeup, Waiting, TypeOK
    <3>2. ASSUME NEW v \in Waiting,
                 call' = [call EXCEPT ![t] = "idle", ![v] = "woken"]
          PROVE  NoLostWakeup'
      <4>1. v \in Threads /\ call[v] = "waiting" /\ call[t] = "notify_one" /\ v # t
        BY <2>4 DEF Waiting, NotifyOne
      <4>2. /\ Notifying' = Notifying \ {t} /\ t \in Notifying
            /\ Woken' = Woken \cup {v} /\ v \notin Woken
            /\ Waiting # {}
        BY <3>2, <4>1 DEF Waiting, Woken, Notifying, TypeOK
      <4>3. Cardinality(Notifying') = n - 1 /\ Cardinality(Woken') = w + 1
        BY <1>0, <4>2, FS_AddElement, FS_RemoveElement
      <4>4. ASSUME NEW u \in Threads, call[u] = "notify_all"
            PROVE  call'[u] = "notify_all"
        BY <3>2, <4>1, <4>4 DEF TypeOK
      <4>5. items' = items /\ closed' = closed
        BY <2>4 DEF NotifyOne, state
      <4> QED BY <1>0, <4>2, <4>3, <4>4, <4>5 DEF NoLostWakeup
    <3> QED BY <2>4, <3>1, <3>2 DEF NotifyOne
  <2>5. CASE call[t] \in {"idle", "woken"} /\ items # <<>> /\ Dequeue(t)
    <3>1. /\ Waiting' = Waiting /\ Woken' = Woken \ {t} /\ Notifying' = Notifying
      BY <2>5 DEF Dequeue, Waiting, Woken, Notifying, TypeOK
    <3>2. Cardinality(Woken') >= w - 1
      <4>1. Cardinality(Woken \ {t}) = IF t \in Woken THEN w - 1 ELSE w
        BY <1>0, FS_RemoveElement
      <4> QED BY <1>0, <3>1, <4>1
    <3>3. Len(items') = Len(items) - 1
      BY <2>5, HeadTailProperties DEF Dequeue, TypeOK
    <3>4. ASSUME NEW u \in Threads, call[u] = "notify_all" PROVE call'[u] = "notify_all"
      BY <2>5, <3>4 DEF Dequeue, TypeOK
    <3>5. IsFiniteSet(Woken') /\ Cardinality(Woken') \in Nat
      BY <1>0, <3>1, FS_RemoveElement, FS_CardinalityType
    <3> QED BY <1>0, <2>5, <3>1, <3>2, <3>3, <3>4, <3>5 DEF NoLostWakeup, Dequeue
  <2>6. ASSUME call[t] \in {"idle", "woken"}, items = <<>>,
               ReturnNullopt(t) \/ (~closed /\ Block(t))
        PROVE  NoLostWakeup'
    <3>1. /\ items' = <<>> /\ closed' = closed
          /\ Notifying' = Notifying /\ Woken' = Woken \ {t}
          /\ closed => Waiting' = Waiting
      BY <2>6 DEF ReturnNullopt, Block, state, Waiting, Woken, Notifying, TypeOK
    <3>2. Cardinality(Woken') \in Nat
      BY <1>0, <3>1, FS_RemoveElement, FS_CardinalityType
    <3>3. ASSUME NEW u \in Threads, call[u] = "notify_all" PROVE call'[u] = "notify_all"
      BY <2>6, <3>3 DEF ReturnNullopt, Block, TypeOK
    <3>4. Len(items') = 0 BY <3>1
    <3>5. Len(items') <= Cardinality(Notifying') + Cardinality(Woken')
      BY <1>0, <3>1, <3>2, <3>4
    <3> QED BY <3>1, <3>3, <3>5 DEF NoLostWakeup
  <2>7. CASE SpuriousWakeup(t)
    <3>1. /\ Notifying' = Notifying /\ Woken' = Woken \cup {t} /\ t \notin Woken
          /\ Waiting # {} /\ items' = items /\ closed' = closed
      BY <2>7 DEF SpuriousWakeup, state, Waiting, Woken, Notifying, TypeOK
    <3>2. Cardinality(Woken') = w + 1
      BY <1>0, <3>1, FS_AddElement
    <3>3. ASSUME NEW u \in Threads, call[u] = "notify_all" PROVE call'[u] = "notify_all"
      BY <2>7, <3>3 DEF SpuriousWakeup, TypeOK
    <3> QED BY <1>0, <3>1, <3>2, <3>3 DEF NoLostWakeup
  <2>8. CASE Close(t)
    <3>1. /\ Waiting' = Waiting /\ Woken' = Woken /\ Notifying' = Notifying
          /\ items' = items /\ call'[t] = "notify_all"
      BY <2>8 DEF Close, Waiting, Woken, Notifying, TypeOK
    <3> QED BY <3>1 DEF NoLostWakeup
  <2>9. CASE NotifyAll(t)
    <3>1. Waiting' = {}
      BY <2>9 DEF NotifyAll, Waiting, TypeOK
    <3> QED BY <3>1 DEF NoLostWakeup
  <2> QED BY <2>1, <2>2, <2>3, <2>4, <2>5, <2>6, <2>7, <2>8, <2>9 DEF StepOf
<1> QED BY <1>1, <1>2

\* No wakeup is lost although the notifications run after the unlock.
THEOREM WakeupCorrect == QueueSpec => []NoLostWakeup
<1>1. QueueInit => WakeupInv
  <2>1. ASSUME QueueInit PROVE Waiting = {}
    BY <2>1 DEF QueueInit, Waiting
  <2> QED BY <2>1, TypeInit DEF WakeupInv, NoLostWakeup
<1>2. WakeupInv /\ [QueueNext]_queueVars => WakeupInv'
  BY TypeStep, WakeupStep DEF WakeupInv
<1>3. WakeupInv => NoLostWakeup
  BY DEF WakeupInv
<1> QED BY <1>1, <1>2, <1>3, PTL DEF QueueSpec
=============================================================================
