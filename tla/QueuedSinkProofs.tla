-------------------------- MODULE QueuedSinkProofs --------------------------
(***************************************************************************)
(* Proofs about QueuedSink for any number of gRPC handlers and any queue   *)
(* capacity: the sink uses the queue as BoundedQueue prescribes, it loses  *)
(* no event, and it implements IngestPipeline.                             *)
(***************************************************************************)
EXTENDS QueuedSink, BoundedQueueProofs

(* Every step of the sink is one of these. *)
LEMMA SinkCases ==
    ASSUME SinkNext
    PROVE  \/ FinishConstruction
           \/ \E p \in Producers : CallsLeft /\ CheckAccepting(p)
           \/ \E p \in Producers, x \in Items : PushEvent(p, x)
           \/ \E p \in Producers : ReturnAccepted(p)
           \/ PopEvent
           \/ ConsumeSucceeds \/ CountConsumed \/ ConsumeFails \/ CountFailure
           \/ StopAccepting
           \/ \E t \in Closers : CloseQueue(t)
           \/ \E t \in Closers : NotifyClosed(t)
           \/ WakeSpuriously \/ Shutdown \/ Join
BY SinkThreadsAssumption
   DEF SinkNext, TryAccept, ConsumeLoop, FinishShutdown

LEMMA ThreadRoles ==
    /\ Worker \in Threads /\ Main \in Threads
    /\ Worker \in Consumers /\ Worker \in Closers /\ Main \in Closers
    /\ Worker # Main
    /\ \A p \in Producers : p \in Threads /\ p # Worker /\ p # Main
    /\ \A t \in Closers : t \in Threads /\ (t = Worker \/ t = Main) /\ t \notin Producers
BY SinkThreadsAssumption DEF Threads

-----------------------------------------------------------------------------
(* The sink's steps are steps of the queue. *)

\* Every handler about to push is within the bound on the number of calls.
PushBound == accepted_items + rejected_items + Cardinality(Pushing) <= MaxCalls

\* While consume runs, the worker holds the event it popped.
HoldsEvent == pc[Worker] = "consume" => \E x \in Items : popped[Worker] = <<x>>

TypeInv == TypeOK /\ SinkTypeOK /\ PushBound /\ HoldsEvent

LEMMA PushingFinite ==
    IsFiniteSet(Pushing) /\ Cardinality(Pushing) \in Nat
<1>1. IsFiniteSet(Producers)
  BY ThreadsAssumption, FS_Subset DEF Threads
<1> QED BY <1>1, FS_Subset, FS_CardinalityType DEF Pushing

LEMMA StepIsQueueStep ==
    ASSUME TypeInv, [SinkNext]_sinkVars
    PROVE  [QueueNext]_queueVars
<1> USE DEF TypeInv
<1>1. CASE UNCHANGED sinkVars
  BY <1>1 DEF sinkVars
<1>2. CASE SinkNext
  <2>1. ASSUME NEW p \in Producers, NEW x \in Items, PushEvent(p, x)
        PROVE  QueueNext
    <3>1. p \in Pushing
      BY <2>1 DEF PushEvent, Pushing
    <3>2. Cardinality(Pushing) # 0
      BY <3>1, PushingFinite, FS_EmptySet
    <3>3. accepted_items + rejected_items < MaxCalls
      BY <3>2, PushingFinite, MaxCallsAssumption DEF PushBound, TypeOK
    <3> QED BY <2>1, <3>3 DEF PushEvent, QueueNext
  <2>2. ASSUME NEW p \in Producers, ReturnAccepted(p) PROVE QueueNext
    BY <2>2 DEF ReturnAccepted, QueueNext
  <2>3. CASE PopEvent \/ WakeSpuriously
    BY <2>3, ThreadRoles DEF PopEvent, WakeSpuriously, QueueNext
  <2>4. ASSUME NEW t \in Closers, CloseQueue(t) \/ NotifyClosed(t) PROVE QueueNext
    BY <2>4 DEF CloseQueue, NotifyClosed, QueueNext
  <2>5. ASSUME NEW p \in Producers, CheckAccepting(p) PROVE UNCHANGED queueVars
    BY <2>5 DEF CheckAccepting
  <2>6. CASE \/ FinishConstruction \/ ConsumeSucceeds \/ CountConsumed \/ ConsumeFails
             \/ CountFailure \/ StopAccepting \/ Shutdown \/ Join
    BY <2>6 DEF FinishConstruction, ConsumeSucceeds, CountConsumed, ConsumeFails,
                CountFailure, StopAccepting, Shutdown, Join
  <2> QED BY <1>2, <2>1, <2>2, <2>3, <2>4, <2>5, <2>6, SinkCases
<1> QED BY <1>1, <1>2

LEMMA SinkTypeStep ==
    ASSUME TypeInv, [SinkNext]_sinkVars
    PROVE  SinkTypeOK'
<1> USE ThreadRoles DEF TypeInv, SinkTypeOK, ProducerPCs, WorkerPCs, MainPCs, SinkResult, Goto
<1>1. CASE UNCHANGED sinkVars
  BY <1>1 DEF sinkVars, ownSinkVars
<1>2. CASE SinkNext
  <2>1. CASE FinishConstruction
    BY <2>1 DEF FinishConstruction
  <2>2. ASSUME NEW p \in Producers, CheckAccepting(p) PROVE SinkTypeOK'
    BY <2>2 DEF CheckAccepting
  <2>3. ASSUME NEW p \in Producers, NEW x \in Items, PushEvent(p, x) PROVE SinkTypeOK'
    BY <2>3 DEF PushEvent
  <2>4. ASSUME NEW p \in Producers, ReturnAccepted(p) PROVE SinkTypeOK'
    BY <2>4 DEF ReturnAccepted
  <2>5. CASE PopEvent
    BY <2>5 DEF PopEvent
  <2>6. CASE CountConsumed
    BY <2>6 DEF CountConsumed
  <2>7. CASE CountFailure
    BY <2>7 DEF CountFailure
  <2>8. CASE StopAccepting
    BY <2>8 DEF StopAccepting
  <2>9. CASE ConsumeSucceeds \/ ConsumeFails
    <3>1. popped[Worker][1] \in Items
      BY <2>9 DEF HoldsEvent, ConsumeSucceeds, ConsumeFails
    <3>2. /\ Append(handled, popped[Worker][1]) \in Seq(Items)
          /\ Append(failed, popped[Worker][1]) \in Seq(Items)
      BY <3>1
    <3>3. CASE ConsumeSucceeds
      BY <3>2, <3>3 DEF ConsumeSucceeds
    <3>4. CASE ConsumeFails
      BY <3>2, <3>4 DEF ConsumeFails
    <3> QED BY <2>9, <3>3, <3>4
  <2>10. ASSUME NEW t \in Closers, CloseQueue(t) PROVE SinkTypeOK'
    BY <2>10 DEF CloseQueue
  <2>11. ASSUME NEW t \in Closers, NotifyClosed(t) PROVE SinkTypeOK'
    BY <2>11 DEF NotifyClosed, AfterClose
  <2>12. CASE WakeSpuriously
    BY <2>12 DEF WakeSpuriously, ownSinkVars
  <2>13. CASE Shutdown
    BY <2>13 DEF Shutdown
  <2>14. CASE Join
    BY <2>14 DEF Join
  <2> QED BY <1>2, <2>1, <2>2, <2>3, <2>4, <2>5, <2>6, <2>7, <2>8, <2>9, <2>10, <2>11,
             <2>12, <2>13, <2>14, SinkCases
<1> QED BY <1>1, <1>2

\* Steps that leave the handlers where they are, and the counters of the
\* queue, keep the bound.
LEMMA PushBoundStep ==
    ASSUME TypeInv, [SinkNext]_sinkVars
    PROVE  PushBound'
<1>0. /\ accepted_items \in Nat /\ rejected_items \in Nat /\ MaxCalls \in Nat
      /\ pc \in [Threads -> ProducerPCs \cup WorkerPCs \cup MainPCs]
      /\ PushBound
  BY MaxCallsAssumption DEF TypeInv, SinkTypeOK, TypeOK
<1> USE <1>0, ThreadRoles, PushingFinite
<1> DEFINE n == Cardinality(Pushing)
           Same == Pushing' = Pushing /\ accepted_items' = accepted_items
                     /\ rejected_items' = rejected_items
<1>1. Same => PushBound'
  BY DEF PushBound
<1>2. CASE UNCHANGED sinkVars
  BY <1>1, <1>2 DEF sinkVars, ownSinkVars, queueVars, state, Pushing
<1>3. CASE SinkNext
  <2>1. ASSUME NEW p \in Producers, CallsLeft, CheckAccepting(p) PROVE PushBound'
    <3>1. accepted_items' = accepted_items /\ rejected_items' = rejected_items
      BY <2>1 DEF CheckAccepting, queueVars, state
    <3>2. Pushing' = Pushing \/ Pushing' = Pushing \cup {p}
      BY <2>1 DEF CheckAccepting, Goto, Pushing
    <3>3. Cardinality(Pushing \cup {p}) <= n + 1
      <4>1. Cardinality(Pushing \cup {p}) = IF p \in Pushing THEN n ELSE n + 1
        BY FS_AddElement
      <4> QED BY <4>1
    <3>4. Cardinality(Pushing \cup {p}) \in Nat
      BY FS_AddElement, FS_CardinalityType
    <3>5. Cardinality(Pushing') \in Nat /\ Cardinality(Pushing') <= n + 1
      BY <3>2, <3>3, <3>4
    <3>6. accepted_items + rejected_items + n < MaxCalls
      BY <2>1 DEF CallsLeft
    <3> QED BY <3>1, <3>5, <3>6 DEF PushBound
  <2>2. ASSUME NEW p \in Producers, NEW x \in Items, PushEvent(p, x) PROVE PushBound'
    <3>1. accepted_items' + rejected_items' = accepted_items + rejected_items + 1
      BY <2>2 DEF PushEvent, TryPush, Reject, Enqueue
    <3>2. p \in Pushing /\ Pushing' = Pushing \ {p}
      BY <2>2 DEF PushEvent, Goto, Pushing
    <3>3. Cardinality(Pushing') = n - 1
      BY <3>2, FS_RemoveElement
    <3> QED BY <3>1, <3>3 DEF PushBound
  <2>3. ASSUME NEW p \in Producers, ReturnAccepted(p) PROVE Same
    BY <2>3 DEF ReturnAccepted, NotifyOne, state, Goto, Pushing
  <2>4. ASSUME PopEvent PROVE Same
    <3>1. accepted_items' = accepted_items /\ rejected_items' = rejected_items
      BY <2>4 DEF PopEvent, WaitPop, Dequeue, ReturnNullopt, Block, state
    <3>2. Pushing' = Pushing
      BY <2>4 DEF PopEvent, Goto, Pushing
    <3> QED BY <3>1, <3>2
  <2>5. ASSUME NEW t \in Closers, CloseQueue(t) \/ NotifyClosed(t) PROVE Same
    BY <2>5 DEF CloseQueue, NotifyClosed, Close, NotifyAll, state, Goto, AfterClose, Pushing
  <2>6. ASSUME WakeSpuriously PROVE Same
    BY <2>6 DEF WakeSpuriously, SpuriousWakeup, state, ownSinkVars, Pushing
  <2>7. ASSUME \/ FinishConstruction \/ ConsumeSucceeds \/ CountConsumed \/ ConsumeFails
               \/ CountFailure \/ StopAccepting \/ Shutdown \/ Join
        PROVE  Same
    BY <2>7 DEF FinishConstruction, ConsumeSucceeds, CountConsumed, ConsumeFails,
                CountFailure, StopAccepting, Shutdown, Join, queueVars, state, Goto, Pushing
  <2> QED BY <1>1, <1>3, <2>1, <2>2, <2>3, <2>4, <2>5, <2>6, <2>7, SinkCases
<1> QED BY <1>2, <1>3

LEMMA HoldsEventStep ==
    ASSUME TypeInv, [SinkNext]_sinkVars
    PROVE  HoldsEvent'
<1> USE ThreadRoles DEF TypeInv, SinkTypeOK, TypeOK, HoldsEvent
<1> DEFINE Same == popped'[Worker] = popped[Worker] /\ pc'[Worker] = pc[Worker]
           Leaves == pc'[Worker] # "consume"
<1>1. CASE UNCHANGED sinkVars
  BY <1>1 DEF sinkVars, ownSinkVars, queueVars
<1>2. CASE SinkNext
  <2>1. CASE FinishConstruction \/ Shutdown \/ Join
    BY <2>1 DEF FinishConstruction, Shutdown, Join, queueVars, Goto
  <2>2. ASSUME NEW p \in Producers, CheckAccepting(p) PROVE Same
    BY <2>2 DEF CheckAccepting, queueVars, Goto
  <2>3. ASSUME NEW p \in Producers, NEW x \in Items, PushEvent(p, x) PROVE Same
    BY <2>3 DEF PushEvent, TryPush, Reject, Enqueue, Goto
  <2>4. ASSUME NEW p \in Producers, ReturnAccepted(p) PROVE Same
    BY <2>4 DEF ReturnAccepted, NotifyOne, Goto
  <2>5. CASE PopEvent
    <3>1. popped'[Worker] \in Optional(Items)
      BY <2>5, StepIsQueueStep, TypeStep
    <3> QED BY <2>5, <3>1 DEF PopEvent, Optional, Goto
  <2>6. CASE ConsumeSucceeds \/ CountConsumed \/ ConsumeFails \/ CountFailure \/ StopAccepting
    BY <2>6 DEF ConsumeSucceeds, CountConsumed, ConsumeFails, CountFailure, StopAccepting, Goto
  <2>7. ASSUME NEW t \in Closers, CloseQueue(t) PROVE Same \/ Leaves
    BY <2>7 DEF CloseQueue, Close, Goto
  <2>8. ASSUME NEW t \in Closers, NotifyClosed(t) PROVE Same \/ Leaves
    BY <2>8 DEF NotifyClosed, NotifyAll, Goto, AfterClose
  <2>9. CASE WakeSpuriously
    BY <2>9 DEF WakeSpuriously, SpuriousWakeup, ownSinkVars
  <2> QED BY <1>2, <2>1, <2>2, <2>3, <2>4, <2>5, <2>6, <2>7, <2>8, <2>9, SinkCases
<1> QED BY <1>1, <1>2

LEMMA TypeInvInit == ASSUME SinkInit PROVE TypeInv
<1> USE ThreadRoles DEF SinkInit
<1>1. TypeOK
  BY TypeInit
<1>2. SinkTypeOK
  <2>1. handled \in Seq(Items) /\ failed \in Seq(Items)
    OBVIOUS
  <2>2. consumed_events \in Nat /\ consumer_failures \in Nat
    BY GarbageAssumption
  <2> QED BY <2>1, <2>2 DEF SinkTypeOK, ProducerPCs, WorkerPCs, MainPCs, SinkResult
<1>3. PushBound
  <2>1. Pushing = {}
    BY DEF Pushing
  <2> QED BY <2>1, FS_EmptySet, MaxCallsAssumption DEF PushBound, QueueInit
<1>4. HoldsEvent
  BY DEF HoldsEvent
<1> QED BY <1>1, <1>2, <1>3, <1>4 DEF TypeInv

LEMMA TypeInvStep == ASSUME TypeInv, [SinkNext]_sinkVars PROVE TypeInv'
<1>1. TypeOK'
  BY StepIsQueueStep, TypeStep DEF TypeInv
<1> QED BY <1>1, SinkTypeStep, PushBoundStep, HoldsEventStep DEF TypeInv

\* The members of the sink keep their types.
THEOREM SinkTypeCorrect == SinkSpec => []SinkTypeOK
<1>1. SinkInit => TypeInv BY TypeInvInit
<1>2. TypeInv /\ [SinkNext]_sinkVars => TypeInv' BY TypeInvStep
<1>3. TypeInv => SinkTypeOK BY DEF TypeInv
<1> QED BY <1>1, <1>2, <1>3, PTL DEF SinkSpec

\* The sink uses the queue by its protocol, so every theorem about the queue
\* holds of the queue inside the sink.
THEOREM SinkUsesQueue == SinkSpec => UsesQueue
<1>1. SinkInit => TypeInv /\ QueueInit
  BY TypeInvInit DEF SinkInit
<1>2. TypeInv /\ [SinkNext]_sinkVars => TypeInv' /\ [QueueNext]_queueVars
  BY TypeInvStep, StepIsQueueStep
<1> QED BY <1>1, <1>2, PTL DEF SinkSpec, UsesQueue, QueueSpec

-----------------------------------------------------------------------------
(* What the worker has taken from the queue, and what became of it. *)

Failing == {"count_failure", "stop_accepting", "close", "notify_all"}

AllHandled == failed = <<>> /\ taken = handled
LastFailed == \E x \in Items : failed = <<x>> /\ taken = Append(handled, x)

\* Stated per place of the worker in consume_loop.
Delivery ==
    /\ pc[Worker] \in {"loop", "count"} => AllHandled
    /\ pc[Worker] = "consume" =>
         failed = <<>> /\ taken = Append(handled, popped[Worker][1])
    /\ pc[Worker] \in Failing => LastFailed
    /\ pc[Worker] = "notify_all" => closed
    /\ pc[Worker] = "exited" => closed /\ (LastFailed \/ (AllHandled /\ items = <<>>))

LEMMA DeliveryStep ==
    ASSUME TypeInv, Delivery, [SinkNext]_sinkVars
    PROVE  Delivery'
<1>0. /\ pc \in [Threads -> ProducerPCs \cup WorkerPCs \cup MainPCs]
      /\ pc[Worker] \in WorkerPCs
      /\ popped \in [Threads -> Optional(Items)]
      /\ failed \in Seq(Items) /\ handled \in Seq(Items) /\ items \in Seq(Items)
      /\ call \in [Threads -> CallStates]
      /\ HoldsEvent
  BY DEF TypeInv, SinkTypeOK, TypeOK
<1> USE <1>0, ThreadRoles
\* The worker does not move, nothing of its history changes, and an empty
\* closed queue stays so.
<1> DEFINE Quiet ==
             /\ pc'[Worker] = pc[Worker] /\ popped'[Worker] = popped[Worker]
             /\ handled' = handled /\ failed' = failed /\ taken' = taken
             /\ closed => closed' /\ items' = items
<1>1. Quiet => Delivery'
  BY DEF Delivery, AllHandled, LastFailed
<1>2. CASE UNCHANGED sinkVars
  BY <1>1, <1>2 DEF sinkVars, ownSinkVars, queueVars, state, history
<1>3. CASE SinkNext
  <2>1. ASSUME FinishConstruction \/ Shutdown \/ Join PROVE Quiet
    BY <2>1 DEF FinishConstruction, Shutdown, Join, queueVars, state, history, Goto
  <2>2. ASSUME NEW p \in Producers, CheckAccepting(p) PROVE Quiet
    BY <2>2 DEF CheckAccepting, queueVars, state, history, Goto
  <2>3. ASSUME NEW p \in Producers, NEW x \in Items, PushEvent(p, x) PROVE Quiet
    BY <2>3 DEF PushEvent, TryPush, Reject, Enqueue, history, Goto
  <2>4. ASSUME NEW p \in Producers, ReturnAccepted(p) PROVE Quiet
    BY <2>4 DEF ReturnAccepted, NotifyOne, state, history, Goto
  <2>5. CASE PopEvent
    <3>1. pc[Worker] = "loop" /\ failed = <<>> /\ taken = handled
          /\ failed' = failed /\ handled' = handled
      BY <2>5 DEF PopEvent, Delivery, AllHandled
    <3>2. CASE items # <<>> /\ Dequeue(Worker)
      <4>1. /\ call'[Worker] = "idle" /\ popped'[Worker] = <<Head(items)>>
            /\ taken' = Append(taken, Head(items))
        BY <3>2 DEF Dequeue
      <4>2. pc'[Worker] = "consume"
        BY <2>5, <4>1 DEF PopEvent, Goto
      <4> QED BY <3>1, <4>1, <4>2 DEF Delivery, Failing
    <3>3. CASE items = <<>> /\ closed /\ ReturnNullopt(Worker)
      <4>1. /\ call'[Worker] = "idle" /\ popped'[Worker] = <<>>
            /\ taken' = taken /\ items' = items /\ closed' = closed
        BY <3>3 DEF ReturnNullopt, state
      <4>2. pc'[Worker] = "exited"
        BY <2>5, <4>1 DEF PopEvent, Goto
      <4> QED BY <3>1, <3>3, <4>1, <4>2 DEF Delivery, AllHandled, Failing
    <3>4. CASE Block(Worker)
      <4>1. call'[Worker] = "waiting" /\ taken' = taken
        BY <3>4 DEF Block, history
      <4>2. pc'[Worker] = "loop"
        BY <2>5, <3>1, <4>1 DEF PopEvent
      <4> QED BY <3>1, <4>1, <4>2 DEF Delivery, AllHandled, Failing
    <3> QED BY <2>5, <3>2, <3>3, <3>4 DEF PopEvent, WaitPop
  <2>6. CASE ConsumeSucceeds
    BY <2>6 DEF ConsumeSucceeds, queueVars, history, Goto, Delivery, AllHandled, Failing
  <2>7. CASE CountConsumed
    BY <2>7 DEF CountConsumed, queueVars, history, Goto, Delivery, AllHandled, Failing
  <2>8. CASE ConsumeFails
    <3>1. PICK x \in Items : popped[Worker] = <<x>>
      BY <2>8 DEF ConsumeFails, HoldsEvent
    <3>2. failed' = <<x>> /\ taken = Append(handled, x)
      BY <2>8, <3>1 DEF ConsumeFails, Delivery
    <3>3. pc'[Worker] = "count_failure" /\ taken' = taken /\ handled' = handled
      BY <2>8 DEF ConsumeFails, queueVars, history, Goto
    <3>4. LastFailed'
      BY <3>2, <3>3 DEF LastFailed
    <3> QED BY <3>3, <3>4 DEF Delivery
  <2>9. CASE CountFailure \/ StopAccepting
    <3>1. /\ pc[Worker] \in Failing /\ pc'[Worker] \in {"stop_accepting", "close"}
          /\ taken' = taken /\ handled' = handled /\ failed' = failed
      BY <2>9 DEF CountFailure, StopAccepting, queueVars, history, Goto, Failing
    <3> QED BY <3>1 DEF Delivery, LastFailed, Failing
  <2>10. ASSUME NEW t \in Closers, CloseQueue(t) PROVE Delivery'
    <3>1. /\ taken' = taken /\ handled' = handled /\ failed' = failed /\ closed'
          /\ items' = items /\ popped' = popped
      BY <2>10 DEF CloseQueue, Close, history
    <3>2. CASE t = Worker
      <4>1. pc[Worker] = "close" /\ pc'[Worker] = "notify_all"
        BY <2>10, <3>2 DEF CloseQueue, Goto
      <4> QED BY <3>1, <4>1 DEF Delivery, LastFailed, Failing
    <3>3. CASE t = Main
      <4>1. pc'[Worker] = pc[Worker]
        BY <2>10, <3>3 DEF CloseQueue, Goto
      <4> QED BY <1>1, <3>1, <4>1
    <3> QED BY <3>2, <3>3
  <2>11. ASSUME NEW t \in Closers, NotifyClosed(t) PROVE Delivery'
    <3>1. /\ taken' = taken /\ handled' = handled /\ failed' = failed
          /\ closed' = closed /\ items' = items /\ popped' = popped
      BY <2>11 DEF NotifyClosed, NotifyAll, history, state
    <3>2. CASE t = Worker
      <4>1. pc[Worker] = "notify_all" /\ pc'[Worker] = "exited"
        BY <2>11, <3>2 DEF NotifyClosed, AfterClose, Goto
      <4> QED BY <3>1, <4>1 DEF Delivery, LastFailed, Failing
    <3>3. CASE t = Main
      <4>1. pc'[Worker] = pc[Worker]
        BY <2>11, <3>3 DEF NotifyClosed, Goto
      <4> QED BY <1>1, <3>1, <4>1
    <3> QED BY <3>2, <3>3
  <2>12. ASSUME WakeSpuriously PROVE Quiet
    BY <2>12 DEF WakeSpuriously, SpuriousWakeup, ownSinkVars, state, history
  <2> QED BY <1>1, <1>3, <2>1, <2>2, <2>3, <2>4, <2>5, <2>6, <2>7, <2>8, <2>9, <2>10, <2>11,
             <2>12, SinkCases
<1> QED BY <1>2, <1>3

SinkInv == TypeInv /\ HistoryInv /\ Delivery

LEMMA SinkInvInit == ASSUME SinkInit PROVE SinkInv
<1>1. Delivery
  BY ThreadRoles DEF SinkInit, QueueInit, Delivery, AllHandled, Failing
<1> QED BY <1>1, TypeInvInit, HistoryInit DEF SinkInv, SinkInit, TypeInv, HistoryInv

LEMMA SinkInvStep == ASSUME SinkInv, [SinkNext]_sinkVars PROVE SinkInv'
<1>1. TypeInv' /\ Delivery'
  BY TypeInvStep, DeliveryStep DEF SinkInv
<1>2. HistoryInv'
  BY <1>1, StepIsQueueStep, HistoryStep DEF SinkInv, TypeInv, HistoryInv
<1> QED BY <1>1, <1>2 DEF SinkInv

LEMMA TakenSplit == ASSUME SinkInv PROVE taken = handled \o failed \o InFlight /\ Len(failed) <= 1
<1>0. /\ pc[Worker] \in WorkerPCs /\ handled \in Seq(Items) /\ HoldsEvent
  BY DEF SinkInv, TypeInv, SinkTypeOK
<1>1. handled \o <<>> = handled
  BY <1>0, ConcatEmptySeq
<1>2. ASSUME NEW x \in Items
      PROVE  /\ handled \o <<x>> = Append(handled, x)
             /\ handled \o <<x>> \o <<>> = Append(handled, x)
  <2>1. handled \o <<x>> = Append(handled, x) BY <1>0, AppendIsConcat
  <2>2. Append(handled, x) \in Seq(Items) BY <1>0
  <2> QED BY <2>1, <2>2, ConcatEmptySeq
<1>3. CASE AllHandled /\ pc[Worker] # "consume"
  <2>1. InFlight = <<>> /\ failed = <<>> /\ taken = handled
    BY <1>3 DEF AllHandled, InFlight
  <2>2. taken = handled \o failed \o InFlight
    BY <1>1, <2>1, Zenon
  <2>3. Len(failed) <= 1
    BY <2>1
  <2> QED BY <2>2, <2>3
<1>4. CASE LastFailed /\ pc[Worker] # "consume"
  BY <1>2, <1>4 DEF LastFailed, InFlight
<1>5. CASE pc[Worker] = "consume"
  <2>1. PICK x \in Items : popped[Worker] = <<x>>
    BY <1>0, <1>5 DEF HoldsEvent
  <2>2. failed = <<>> /\ taken = Append(handled, x) /\ InFlight = <<x>>
    BY <1>5, <2>1 DEF SinkInv, Delivery, InFlight
  <2> QED BY <1>1, <1>2, <2>2
<1> QED BY <1>0, <1>3, <1>4, <1>5 DEF SinkInv, Delivery, WorkerPCs, Failing

\* No accepted event is lost, duplicated or reordered between the handlers,
\* the queue, the worker and the consumer, and the worker leaves consume_loop
\* only with the queue closed and everything consumed or a failure recorded.
THEOREM SinkConserves == SinkSpec => [](Conservation /\ ExitIsClean)
<1>1. SinkInit => SinkInv BY SinkInvInit
<1>2. SinkInv /\ [SinkNext]_sinkVars => SinkInv' BY SinkInvStep
<1>3. SinkInv => Conservation
  <2> SUFFICES ASSUME SinkInv PROVE Conservation
    OBVIOUS
  <2>1. pushed = taken \o items
    BY DEF SinkInv, HistoryInv, Fifo
  <2>2. taken = handled \o failed \o InFlight /\ Len(failed) <= 1
    BY TakenSplit
  <2> QED BY <2>1, <2>2 DEF Conservation
<1>4. SinkInv => ExitIsClean
  <2> SUFFICES ASSUME SinkInv, pc[Worker] = "exited"
               PROVE  closed /\ (failed = <<>> => handled = pushed)
    BY DEF ExitIsClean
  <2>1. closed /\ (LastFailed \/ (AllHandled /\ items = <<>>))
    BY DEF SinkInv, Delivery
  <2>2. taken \in Seq(Items) /\ pushed = taken \o items
    BY DEF SinkInv, HistoryInv, TypeOK, Fifo
  <2>3. AllHandled /\ items = <<>> => handled = pushed
    BY <2>2, ConcatEmptySeq DEF AllHandled
  <2>4. LastFailed => failed # <<>>
    BY DEF LastFailed
  <2> QED BY <2>1, <2>3, <2>4
<1> QED BY <1>1, <1>2, <1>3, <1>4, PTL DEF SinkSpec

-----------------------------------------------------------------------------
(* Refinement of IngestPipeline. *)

LEMMA PipelineInit == ASSUME SinkInit PROVE Pipeline!Init
BY DEF SinkInit, QueueInit, Pipeline!Init

\* The event in the worker's hands is the next one of the pipeline.
LEMMA NextEvent ==
    ASSUME SinkInv, pc[Worker] = "consume"
    PROVE  /\ Pipeline!Pending
           /\ popped[Worker][1] = Pipeline!Next_event
<1>1. PICK x \in Items : popped[Worker] = <<x>>
  BY DEF SinkInv, TypeInv, HoldsEvent
<1>2. failed = <<>> /\ taken = Append(handled, x)
  BY <1>1 DEF SinkInv, Delivery
<1>3. pushed = taken \o items /\ items \in Seq(Items) /\ handled \in Seq(Items)
  BY DEF SinkInv, HistoryInv, TypeInv, TypeOK, SinkTypeOK, Fifo
<1>4. taken \in Seq(Items) /\ Len(taken) = Len(handled) + 1 /\ Len(handled) \in Nat
      /\ taken[Len(handled) + 1] = x
  BY <1>2, <1>3, AppendProperties, LenProperties
<1>5. Len(pushed) = Len(taken) + Len(items) /\ Len(items) \in Nat
  BY <1>3, <1>4, ConcatProperties, LenProperties
<1>6. pushed[Len(handled) + 1] = x
  BY <1>3, <1>4, SMT
<1> QED BY <1>1, <1>2, <1>4, <1>5, <1>6 DEF Pipeline!Pending, Pipeline!Next_event

LEMMA PipelineStep ==
    ASSUME SinkInv, [SinkNext]_sinkVars
    PROVE  [Pipeline!Next]_(Pipeline!vars)
<1> USE DEF Pipeline!vars
<1>1. CASE UNCHANGED sinkVars
  BY <1>1 DEF sinkVars, ownSinkVars, queueVars, state, history
<1>2. CASE SinkNext
  <2>1. ASSUME FinishConstruction \/ Shutdown \/ CountConsumed \/ CountFailure \/ StopAccepting
        PROVE  UNCHANGED Pipeline!vars
    BY <2>1 DEF FinishConstruction, Shutdown, CountConsumed, CountFailure, StopAccepting,
                queueVars, state, history
  <2>2. ASSUME NEW p \in Producers, CheckAccepting(p) PROVE UNCHANGED Pipeline!vars
    BY <2>2 DEF CheckAccepting, queueVars, state, history
  <2>3. ASSUME NEW p \in Producers, NEW x \in Items, PushEvent(p, x)
        PROVE  Pipeline!Accept \/ UNCHANGED Pipeline!vars
    <3>1. handled' = handled /\ failed' = failed /\ joined' = joined
      BY <2>3 DEF PushEvent
    <3>2. CASE ~closed /\ Enqueue(p, x)
      BY <3>1, <3>2 DEF Enqueue, Pipeline!Accept
    <3>3. CASE Reject(p, "closed") \/ Reject(p, "full")
      BY <3>1, <3>3 DEF Reject, history
    <3> QED BY <2>3, <3>2, <3>3 DEF PushEvent, TryPush
  <2>4. ASSUME NEW p \in Producers, ReturnAccepted(p) PROVE UNCHANGED Pipeline!vars
    BY <2>4 DEF ReturnAccepted, NotifyOne, state, history
  <2>5. ASSUME PopEvent PROVE UNCHANGED Pipeline!vars
    BY <2>5 DEF PopEvent, WaitPop, Dequeue, ReturnNullopt, Block, state, history
  <2>6. ASSUME ConsumeSucceeds PROVE Pipeline!Deliver
    BY <2>6, NextEvent DEF ConsumeSucceeds, Pipeline!Deliver, queueVars, state, history
  <2>7. ASSUME ConsumeFails PROVE Pipeline!Refuse
    <3>1. Pipeline!Pending /\ popped[Worker][1] = Pipeline!Next_event
      BY <2>7, NextEvent DEF ConsumeFails
    <3>2. failed' = <<popped[Worker][1]>>
      BY <2>7, <3>1 DEF ConsumeFails, Pipeline!Pending
    <3> QED BY <2>7, <3>1, <3>2 DEF ConsumeFails, Pipeline!Refuse, queueVars, state, history
  <2>8. ASSUME NEW t \in Closers, CloseQueue(t) PROVE Pipeline!Shut
    BY <2>8 DEF CloseQueue, Close, history, Pipeline!Shut
  <2>9. ASSUME NEW t \in Closers, NotifyClosed(t) PROVE UNCHANGED Pipeline!vars
    BY <2>9 DEF NotifyClosed, NotifyAll, state, history
  <2>10. ASSUME WakeSpuriously PROVE UNCHANGED Pipeline!vars
    BY <2>10 DEF WakeSpuriously, SpuriousWakeup, ownSinkVars, state, history
  <2>11. ASSUME Join PROVE Pipeline!Stop \/ UNCHANGED Pipeline!vars
    <3>1. CASE joined
      BY <2>11, <3>1 DEF Join, queueVars, state, history
    <3>2. CASE pc[Worker] = "exited"
      <4>1. closed /\ (LastFailed \/ (AllHandled /\ items = <<>>))
        BY <3>2 DEF SinkInv, Delivery
      <4>2. pushed = taken \o items /\ taken \in Seq(Items)
        BY DEF SinkInv, HistoryInv, TypeOK, Fifo
      <4>3. ~Pipeline!Pending
        <5>1. LastFailed => failed # <<>>
          BY DEF LastFailed
        <5>2. AllHandled /\ items = <<>> => handled = pushed
          BY <4>2, ConcatEmptySeq DEF AllHandled
        <5>3. Len(handled) \in Nat
          BY LenProperties DEF SinkInv, TypeInv, SinkTypeOK
        <5> QED BY <4>1, <5>1, <5>2, <5>3 DEF Pipeline!Pending
      <4> QED BY <2>11, <4>1, <4>3 DEF Join, Pipeline!Stop, queueVars, state, history
    <3> QED BY <2>11, <3>1, <3>2 DEF Join
  <2> QED BY <1>2, <2>1, <2>2, <2>3, <2>4, <2>5, <2>6, <2>7, <2>8, <2>9, <2>10, <2>11,
             SinkCases DEF Pipeline!Next
<1> QED BY <1>1, <1>2

\* The sink implements the promise of the ingestion pipeline.
THEOREM SinkImplementsPipeline == SinkSpec => ImplementsPipeline
<1>1. SinkInit => SinkInv /\ Pipeline!Init
  BY SinkInvInit, PipelineInit
<1>2. SinkInv /\ [SinkNext]_sinkVars => SinkInv' /\ [Pipeline!Next]_(Pipeline!vars)
  BY SinkInvStep, PipelineStep
<1> QED BY <1>1, <1>2, PTL DEF SinkSpec, ImplementsPipeline, Pipeline!Spec

-----------------------------------------------------------------------------
(* The statistics printed after shutdown. *)

\* While the constructor runs, the worker finds nothing to do, so it does not
\* touch the members that are not initialised yet.
Construction ==
    pc[Main] = "constructing" =>
      /\ pc[Worker] = "loop"
      /\ \A p \in Producers : pc[p] = "idle"
      /\ handled = <<>> /\ failed = <<>> /\ items = <<>>
      /\ ~closed

\* After that the counters lag the consumer's answers by at most one step.
Counters ==
    pc[Main] # "constructing" =>
      /\ consumed_events = Len(handled) - (IF pc[Worker] = "count" THEN 1 ELSE 0)
      /\ consumer_failures = Len(failed) - (IF pc[Worker] = "count_failure" THEN 1 ELSE 0)

ShutdownOrder ==
    /\ pc[Main] \in {"close", "notify_all", "join", "stopped"} => ~accepting_events
    /\ pc[Main] \in {"notify_all", "join", "stopped"} => closed
    /\ pc[Main] = "stopped" => joined
    /\ joined => pc[Worker] = "exited"

StatsInv == SinkInv /\ Construction /\ Counters /\ ShutdownOrder

LEMMA StatsStep ==
    ASSUME StatsInv, [SinkNext]_sinkVars
    PROVE  Construction' /\ Counters' /\ ShutdownOrder'
<1>0. /\ pc \in [Threads -> ProducerPCs \cup WorkerPCs \cup MainPCs]
      /\ pc[Worker] \in WorkerPCs /\ pc[Main] \in MainPCs
      /\ \A p \in Producers : pc[p] \in ProducerPCs
      /\ failed \in Seq(Items) /\ handled \in Seq(Items)
      /\ consumed_events \in Nat /\ consumer_failures \in Nat
      /\ call \in [Threads -> CallStates] /\ popped \in [Threads -> Optional(Items)]
      /\ HoldsEvent
  BY DEF StatsInv, SinkInv, TypeInv, SinkTypeOK, TypeOK
<1> USE <1>0, ThreadRoles DEF StatsInv, Goto
<1>1. CASE UNCHANGED sinkVars
  BY <1>1 DEF sinkVars, ownSinkVars, queueVars, state, history,
              Construction, Counters, ShutdownOrder
<1>2. CASE SinkNext
  <2> DEFINE Goal == Construction' /\ Counters' /\ ShutdownOrder'
  <2>1. ASSUME FinishConstruction PROVE Goal
    <3>1. /\ pc'[Main] = "running" /\ pc'[Worker] = "loop"
          /\ handled' = <<>> /\ failed' = <<>> /\ joined' = joined
          /\ consumed_events' = 0 /\ consumer_failures' = 0
      BY <2>1 DEF FinishConstruction, Construction
    <3>2. ~joined
      BY <2>1 DEF FinishConstruction, Construction, ShutdownOrder
    <3> QED BY <3>1, <3>2 DEF Construction, Counters, ShutdownOrder
  <2>2. ASSUME NEW p \in Producers, CheckAccepting(p) PROVE Goal
    BY <2>2 DEF CheckAccepting, queueVars, state, Construction, Counters, ShutdownOrder
  <2>3. ASSUME NEW p \in Producers, NEW x \in Items, PushEvent(p, x) PROVE Goal
    <3>1. /\ pc[Main] # "constructing" /\ pc'[Main] = pc[Main] /\ pc'[Worker] = pc[Worker]
      BY <2>3 DEF PushEvent, Construction
    <3>2. closed' = closed
      BY <2>3 DEF PushEvent, TryPush, Reject, Enqueue
    <3> QED BY <2>3, <3>1, <3>2 DEF PushEvent, Construction, Counters, ShutdownOrder
  <2>4. ASSUME NEW p \in Producers, ReturnAccepted(p) PROVE Goal
    <3>1. pc[Main] # "constructing" /\ pc'[Main] = pc[Main] /\ pc'[Worker] = pc[Worker]
      BY <2>4 DEF ReturnAccepted, Construction
    <3>2. closed' = closed
      BY <2>4 DEF ReturnAccepted, NotifyOne, state
    <3> QED BY <2>4, <3>1, <3>2 DEF ReturnAccepted, Construction, Counters, ShutdownOrder
  <2>5. ASSUME PopEvent PROVE Goal
    <3>1. /\ pc[Worker] = "loop" /\ pc'[Worker] \in {"loop", "consume", "exited"}
          /\ \A t \in Threads : t # Worker => pc'[t] = pc[t]
          /\ handled' = handled /\ failed' = failed /\ joined' = joined
          /\ accepting_events' = accepting_events
          /\ consumed_events' = consumed_events /\ consumer_failures' = consumer_failures
      BY <2>5 DEF PopEvent
    <3>2. closed' = closed
      BY <2>5 DEF PopEvent, WaitPop, Dequeue, ReturnNullopt, Block, state
    <3>3. Construction'
      <4> SUFFICES ASSUME pc[Main] = "constructing" PROVE Construction'
        BY <3>1 DEF Construction
      <4>1. items = <<>> /\ ~closed
        BY DEF Construction
      <4>2. Block(Worker)
        BY <2>5, <4>1 DEF PopEvent, WaitPop
      <4>3. pc' = pc /\ items' = items
        BY <2>5, <4>2 DEF PopEvent, Block, state
      <4> QED BY <3>1, <3>2, <4>3 DEF Construction
    <3>4. Counters'
      BY <3>1 DEF Counters
    <3>5. ShutdownOrder'
      BY <3>1, <3>2 DEF ShutdownOrder
    <3> QED BY <3>3, <3>4, <3>5
  <2>6. ASSUME ConsumeSucceeds \/ ConsumeFails PROVE Goal
    <3>1. popped[Worker][1] \in Items
      BY <2>6 DEF ConsumeSucceeds, ConsumeFails, HoldsEvent
    <3>2. /\ Len(Append(handled, popped[Worker][1])) = Len(handled) + 1
          /\ Len(Append(failed, popped[Worker][1])) = Len(failed) + 1
          /\ Len(handled) \in Nat /\ Len(failed) \in Nat
      BY <3>1, AppendProperties, LenProperties
    <3>3. pc[Main] # "constructing"
      BY <2>6 DEF ConsumeSucceeds, ConsumeFails, Construction
    <3>4. CASE ConsumeSucceeds
      BY <3>2, <3>3, <3>4 DEF ConsumeSucceeds, queueVars, state, Construction, Counters,
                              ShutdownOrder
    <3>5. CASE ConsumeFails
      BY <3>2, <3>3, <3>5 DEF ConsumeFails, queueVars, state, Construction, Counters,
                              ShutdownOrder
    <3> QED BY <2>6, <3>4, <3>5
  <2>7. ASSUME CountConsumed \/ CountFailure PROVE Goal
    <3>1. pc[Main] # "constructing"
      BY <2>7 DEF CountConsumed, CountFailure, Construction
    <3>2. Len(handled) \in Nat /\ Len(failed) \in Nat
      BY LenProperties
    <3>3. CASE CountConsumed
      BY <3>1, <3>2, <3>3 DEF CountConsumed, queueVars, state, Construction, Counters,
                              ShutdownOrder
    <3>4. CASE CountFailure
      BY <3>1, <3>2, <3>4 DEF CountFailure, queueVars, state, Construction, Counters,
                              ShutdownOrder
    <3> QED BY <2>7, <3>3, <3>4
  <2>8. ASSUME StopAccepting PROVE Goal
    BY <2>8 DEF StopAccepting, queueVars, state, Construction, Counters, ShutdownOrder
  <2>9. ASSUME NEW t \in Closers, CloseQueue(t) \/ NotifyClosed(t) PROVE Goal
    <3>1. /\ pc[Main] # "constructing"
          /\ pc'[Main] # "constructing"
      BY <2>9 DEF CloseQueue, NotifyClosed, Construction, AfterClose
    <3>3. Counters'
      BY <2>9, <3>1 DEF CloseQueue, NotifyClosed, Counters, AfterClose
    <3>4. CASE CloseQueue(t)
      BY <3>1, <3>3, <3>4 DEF CloseQueue, Close, Construction, ShutdownOrder
    <3>5. CASE NotifyClosed(t)
      BY <3>1, <3>3, <3>5 DEF NotifyClosed, NotifyAll, state, AfterClose, Construction,
                              ShutdownOrder
    <3> QED BY <2>9, <3>4, <3>5
  <2>10. ASSUME WakeSpuriously PROVE Goal
    BY <2>10 DEF WakeSpuriously, SpuriousWakeup, ownSinkVars, state, Construction, Counters,
                 ShutdownOrder
  <2>11. ASSUME Shutdown PROVE Goal
    BY <2>11 DEF Shutdown, queueVars, state, Construction, Counters, ShutdownOrder
  <2>12. ASSUME Join PROVE Goal
    BY <2>12 DEF Join, queueVars, state, Construction, Counters, ShutdownOrder
  <2> HIDE DEF Goal
  <2>13. Goal
    BY <1>2, <2>1, <2>2, <2>3, <2>4, <2>5, <2>6, <2>7, <2>8, <2>9, <2>10, <2>11, <2>12,
       SinkCases
  <2> QED BY <2>13 DEF Goal
<1> QED BY <1>1, <1>2

LEMMA StatsBalance == ASSUME StatsInv PROVE FinalStatsBalance
<1> SUFFICES ASSUME pc[Main] = "stopped"
             PROVE  /\ consumed_events = Len(handled)
                    /\ consumer_failures = Len(failed)
                    /\ accepted_items = consumed_events + consumer_failures + Len(items)
                    /\ Len(items) > 0 => consumer_failures = 1
                    /\ ~accepting_events /\ closed
  BY DEF FinalStatsBalance, stats
<1>1. pc[Worker] = "exited" /\ ~accepting_events /\ closed
  BY DEF StatsInv, ShutdownOrder
<1>2. consumed_events = Len(handled) /\ consumer_failures = Len(failed)
  <2>1. Len(handled) \in Nat /\ Len(failed) \in Nat
    BY LenProperties DEF StatsInv, SinkInv, TypeInv, SinkTypeOK
  <2> QED BY <1>1, <2>1 DEF StatsInv, Counters
<1>3. /\ handled \in Seq(Items) /\ items \in Seq(Items) /\ taken \in Seq(Items)
      /\ pushed = taken \o items /\ accepted_items = Len(pushed)
  BY DEF StatsInv, SinkInv, TypeInv, SinkTypeOK, HistoryInv, TypeOK, Fifo, StatsExact
<1>4. Len(pushed) = Len(taken) + Len(items) /\ Len(items) \in Nat
  BY <1>3, ConcatProperties, LenProperties
<1>5. LastFailed \/ (AllHandled /\ items = <<>>)
  BY <1>1 DEF StatsInv, SinkInv, Delivery
<1>6. CASE LastFailed
  <2>1. PICK x \in Items : failed = <<x>> /\ taken = Append(handled, x)
    BY <1>6 DEF LastFailed
  <2>2. Len(taken) = Len(handled) + 1 /\ Len(failed) = 1
    BY <1>3, <2>1, AppendProperties
  <2>3. Len(handled) \in Nat BY <1>3, LenProperties
  <2> QED BY <1>1, <1>2, <1>3, <1>4, <2>2, <2>3
<1>7. CASE AllHandled /\ items = <<>>
  <2>1. Len(failed) = 0 /\ Len(items) = 0 /\ Len(taken) = Len(handled)
    BY <1>7 DEF AllHandled
  <2>2. Len(handled) \in Nat BY <1>3, LenProperties
  <2> QED BY <1>1, <1>2, <1>3, <1>4, <2>1, <2>2
<1> QED BY <1>5, <1>6, <1>7

\* The statistics the collector prints after shutdown balance.
THEOREM SinkStatsBalance == SinkSpec => []FinalStatsBalance
<1>1. SinkInit => StatsInv
  <2> SUFFICES ASSUME SinkInit PROVE StatsInv
    OBVIOUS
  <2>1. pc[Main] = "constructing" /\ pc[Worker] = "loop" /\ \A p \in Producers : pc[p] = "idle"
    BY ThreadRoles DEF SinkInit
  <2> QED BY <2>1, SinkInvInit
          DEF SinkInit, QueueInit, StatsInv, Construction, Counters, ShutdownOrder
<1>2. StatsInv /\ [SinkNext]_sinkVars => StatsInv'
  BY SinkInvStep, StatsStep DEF StatsInv
<1>3. StatsInv => FinalStatsBalance
  BY StatsBalance
<1> QED BY <1>1, <1>2, <1>3, PTL DEF SinkSpec
=============================================================================
