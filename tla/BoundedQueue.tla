---------------------------- MODULE BoundedQueue ----------------------------
(***************************************************************************)
(* traceforge::concurrency::BoundedQueue                                   *)
(* (include/traceforge/concurrency/bounded_queue.hpp).                     *)
(*                                                                         *)
(* A bounded FIFO shared by several threads.  Every member is read and     *)
(* written under mutex_, so a critical section is one action.  What is not *)
(* under the mutex is the notification: try_push and close unlock first    *)
(* and notify afterwards, so the notification is an action of its own and  *)
(* other threads run in between.  A thread blocked in                      *)
(* condition_variable::wait is "waiting"; a notification, or a spurious    *)
(* wakeup, makes it "woken", and it then reacquires the mutex and          *)
(* evaluates the predicate again.                                          *)
(*                                                                         *)
(* pushed, taken, ended, tried and sizes record the history of the calls;  *)
(* no action reads them.                                                   *)
(***************************************************************************)
EXTENDS Naturals, Sequences, FiniteSets

CONSTANTS
    Producers,      \* threads that call try_push
    Consumers,      \* threads that call wait_pop
    Closers,        \* threads that call close
    Items,          \* the values of the template parameter Item
    Capacity,       \* capacity_
    MaxCalls        \* bound: number of try_push calls

Threads == Producers \cup Consumers \cup Closers

\* The constructor throws std::invalid_argument on a zero capacity.
ASSUME CapacityAssumption == Capacity \in Nat \ {0}
ASSUME MaxCallsAssumption == MaxCalls \in Nat
ASSUME ThreadsAssumption == IsFiniteSet(Threads)

VARIABLES
    items,              \* items_
    closed,             \* closed_
    accepted_items,     \* accepted_items_
    rejected_items,     \* rejected_items_
    high_watermark,     \* high_watermark_
    call,               \* where each thread is in its current call
    result,             \* QueuePushResult of each thread's last try_push
    popped,             \* std::optional<Item> of each thread's last wait_pop
    pushed,             \* history: every item accepted, in order
    taken,              \* history: every item returned by wait_pop, in order
    ended,              \* history: the threads wait_pop returned nullopt to
    tried,              \* history: how often try_push was called
    sizes               \* history: every size items_ has had

state == <<items, closed, accepted_items, rejected_items, high_watermark>>
history == <<pushed, taken, ended, tried, sizes>>
queueVars == <<state, call, result, popped, history>>

CallStates == {"idle", "notify_one", "notify_all", "waiting", "woken"}
QueuePushResult == {"accepted", "full", "closed"}
Optional(S) == {<<>>} \cup {<<x>> : x \in S}

TypeOK ==
    /\ items \in Seq(Items) /\ Len(items) <= Capacity
    /\ closed \in BOOLEAN
    /\ accepted_items \in Nat
    /\ rejected_items \in Nat
    /\ high_watermark \in Nat
    /\ call \in [Threads -> CallStates]
    /\ result \in [Threads -> QueuePushResult \cup {"none"}]
    /\ popped \in [Threads -> Optional(Items)]
    /\ pushed \in Seq(Items)
    /\ taken \in Seq(Items)
    /\ ended \in SUBSET Threads
    /\ tried \in Nat
    /\ sizes \in SUBSET Nat

QueueInit ==
    /\ items = <<>>
    /\ closed = FALSE
    /\ accepted_items = 0
    /\ rejected_items = 0
    /\ high_watermark = 0
    /\ call = [t \in Threads |-> "idle"]
    /\ result = [t \in Threads |-> "none"]
    /\ popped = [t \in Threads |-> <<>>]
    /\ pushed = <<>>
    /\ taken = <<>>
    /\ ended = {}
    /\ tried = 0
    /\ sizes = {0}

Waiting == {t \in Threads : call[t] = "waiting"}
Woken == {t \in Threads : call[t] = "woken"}
Notifying == {t \in Threads : call[t] = "notify_one"}

-----------------------------------------------------------------------------
(* try_push *)

\* Mutant: the capacity test lets one item too many in.
FullLate == Len(items) = Capacity + 1

Full == Len(items) = Capacity

\* Mutant: the high watermark takes the new size, whatever it was before.
RaiseWatermarkAlways(n) == n

RaiseWatermark(n) == IF n > high_watermark THEN n ELSE high_watermark

Reject(t, why) ==
    /\ rejected_items' = rejected_items + 1
    /\ result' = [result EXCEPT ![t] = why]
    /\ UNCHANGED <<items, closed, accepted_items, high_watermark, call, popped,
                   pushed, taken, ended, sizes>>

\* Mutant: the item is put at the front of the deque.
EnqueueFront(t, x) ==
    /\ items' = <<x>> \o items
    /\ accepted_items' = accepted_items + 1
    /\ high_watermark' = RaiseWatermark(Len(items) + 1)
    /\ call' = [call EXCEPT ![t] = "notify_one"]
    /\ result' = [result EXCEPT ![t] = "accepted"]
    /\ pushed' = Append(pushed, x)
    /\ sizes' = sizes \cup {Len(items')}
    /\ UNCHANGED <<closed, rejected_items, popped, taken, ended>>

\* Mutant: try_push returns without notify_one.
EnqueueSilently(t, x) ==
    /\ items' = Append(items, x)
    /\ accepted_items' = accepted_items + 1
    /\ high_watermark' = RaiseWatermark(Len(items) + 1)
    /\ result' = [result EXCEPT ![t] = "accepted"]
    /\ pushed' = Append(pushed, x)
    /\ sizes' = sizes \cup {Len(items')}
    /\ UNCHANGED <<closed, rejected_items, call, popped, taken, ended>>

Enqueue(t, x) ==
    /\ items' = Append(items, x)
    /\ accepted_items' = accepted_items + 1
    /\ high_watermark' = RaiseWatermark(Len(items) + 1)
    /\ call' = [call EXCEPT ![t] = "notify_one"]
    /\ result' = [result EXCEPT ![t] = "accepted"]
    /\ pushed' = Append(pushed, x)
    /\ sizes' = sizes \cup {Len(items')}
    /\ UNCHANGED <<closed, rejected_items, popped, taken, ended>>

\* The critical section of try_push(x): closed_ is tested before the size.
TryPush(t, x) ==
    /\ call[t] = "idle"
    /\ tried' = tried + 1
    /\ \/ closed /\ Reject(t, "closed")
       \/ ~closed /\ Full /\ Reject(t, "full")
       \/ ~closed /\ ~Full /\ Enqueue(t, x)

\* item_available_.notify_one(), after the unlock: any one blocked thread
\* wakes; with none blocked the notification is lost.
NotifyOne(t) ==
    /\ call[t] = "notify_one"
    /\ \/ /\ Waiting = {}
          /\ call' = [call EXCEPT ![t] = "idle"]
       \/ \E w \in Waiting : call' = [call EXCEPT ![t] = "idle", ![w] = "woken"]
    /\ UNCHANGED <<state, result, popped, history>>

-----------------------------------------------------------------------------
(* wait_pop *)

Dequeue(t) ==
    /\ items' = Tail(items)
    /\ call' = [call EXCEPT ![t] = "idle"]
    /\ popped' = [popped EXCEPT ![t] = <<Head(items)>>]
    /\ taken' = Append(taken, Head(items))
    /\ sizes' = sizes \cup {Len(items')}
    /\ UNCHANGED <<closed, accepted_items, rejected_items, high_watermark, result,
                   pushed, ended, tried>>

ReturnNullopt(t) ==
    /\ call' = [call EXCEPT ![t] = "idle"]
    /\ popped' = [popped EXCEPT ![t] = <<>>]
    /\ ended' = ended \cup {t}
    /\ UNCHANGED <<state, result, pushed, taken, tried, sizes>>

Block(t) ==
    /\ call' = [call EXCEPT ![t] = "waiting"]
    /\ UNCHANGED <<state, result, popped, history>>

\* Mutant: wait_pop reports the end as soon as the queue is closed.
WaitPopDropsRest(t) ==
    /\ call[t] \in {"idle", "woken"}
    /\ \/ ~closed /\ items # <<>> /\ Dequeue(t)
       \/ closed /\ ReturnNullopt(t)
       \/ items = <<>> /\ ~closed /\ Block(t)

\* The critical section of wait_pop, on entry or after a wakeup: the wait
\* predicate is closed_ || !items_.empty(), and only an empty queue ends.
WaitPop(t) ==
    /\ call[t] \in {"idle", "woken"}
    /\ \/ items # <<>> /\ Dequeue(t)
       \/ items = <<>> /\ closed /\ ReturnNullopt(t)
       \/ items = <<>> /\ ~closed /\ Block(t)

\* condition_variable::wait may return without a notification.
SpuriousWakeup(t) ==
    /\ call[t] = "waiting"
    /\ call' = [call EXCEPT ![t] = "woken"]
    /\ UNCHANGED <<state, result, popped, history>>

-----------------------------------------------------------------------------
(* close *)

Close(t) ==
    /\ call[t] = "idle"
    /\ closed' = TRUE
    /\ call' = [call EXCEPT ![t] = "notify_all"]
    /\ UNCHANGED <<items, accepted_items, rejected_items, high_watermark, result,
                   popped, history>>

\* Mutant: close calls notify_one.
NotifyAllWakesOne(t) ==
    /\ call[t] = "notify_all"
    /\ \/ /\ Waiting = {}
          /\ call' = [call EXCEPT ![t] = "idle"]
       \/ \E w \in Waiting : call' = [call EXCEPT ![t] = "idle", ![w] = "woken"]
    /\ UNCHANGED <<state, result, popped, history>>

\* item_available_.notify_all(), after the unlock.
NotifyAll(t) ==
    /\ call[t] = "notify_all"
    /\ call' = [u \in Threads |->
                  IF u = t THEN "idle"
                  ELSE IF u \in Waiting THEN "woken" ELSE call[u]]
    /\ UNCHANGED <<state, result, popped, history>>

-----------------------------------------------------------------------------
(* The queue on its own, used by every thread according to its role. *)

QueueNext ==
    \/ \E t \in Producers, x \in Items :
         accepted_items + rejected_items < MaxCalls /\ TryPush(t, x)
    \/ \E t \in Producers : NotifyOne(t)
    \/ \E t \in Consumers : WaitPop(t) \/ SpuriousWakeup(t)
    \/ \E t \in Closers : Close(t) \/ NotifyAll(t)

\* A thread inside a call runs on; a thread that is not in a call need not
\* make one, and spurious wakeups need not happen.
QueueFairness ==
    /\ \A t \in Producers : WF_queueVars(NotifyOne(t))
    /\ \A t \in Closers : WF_queueVars(NotifyAll(t))
    /\ \A t \in Consumers : WF_queueVars(call[t] = "woken" /\ WaitPop(t))

QueueSpec == QueueInit /\ [][QueueNext]_queueVars
FairQueueSpec == QueueSpec /\ QueueFairness

-----------------------------------------------------------------------------
(* Properties *)

\* wait_pop hands out exactly the accepted items, in the order of the pushes
\* that were accepted, across all producers and consumers: nothing is lost,
\* duplicated or reordered by the critical sections of try_push and wait_pop.
Fifo == pushed = taken \o items

\* stats() agrees with the calls made: high_watermark_ is the largest size
\* the queue has had since it was made (a size it really had, below no other,
\* the present one included) and is within capacity_, accepted_items_ counts
\* the pushes that were accepted, and rejected_items_ all the others.
StatsExact ==
    /\ high_watermark \in sizes
    /\ \A n \in sizes \cup {Len(items)} : n <= high_watermark
    /\ high_watermark <= Capacity
    /\ accepted_items = Len(pushed)
    /\ rejected_items = tried - Len(pushed)

\* A nullopt from wait_pop is final: the queue is closed and every accepted
\* item has been handed out, to whichever consumer.
EndIsFinal == ended # {} => closed /\ taken = pushed

\* No wakeup is lost although notify_one and notify_all run after the unlock:
\* while a consumer is blocked, each queued item has a notify_one still to
\* come or a woken consumer about to look, and a closed queue has a
\* notify_all still to come.
NoLostWakeup ==
    Waiting # {} =>
      /\ Len(items) <= Cardinality(Notifying) + Cardinality(Woken)
      /\ closed => \E t \in Threads : call[t] = "notify_all"

\* Every consumer blocked in wait_pop on a closed queue returns.
CloseReleasesConsumers ==
    \A t \in Consumers : closed /\ call[t] = "waiting" ~> call[t] = "idle"

\* Items do not stay in the queue beside a blocked consumer for ever.
NoStrandedItems == <>[](items = <<>> \/ Waiting = {})
=============================================================================
