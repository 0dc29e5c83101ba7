--------------------------- MODULE ConsumerQueue ---------------------------
(***************************************************************************)
(* ConsumerQueue<T> of src/concurrency/consumer_queue.h: the bounded queue *)
(* under every Dispatcher and under the FrameAggregator.                   *)
(*                                                                         *)
(* Each critical section of mutex_ is one action.  A thread that sleeps on *)
(* a condition variable is woken by a notification or spuriously, and then *)
(* evaluates its predicate again in an action of its own, so lost wake-ups *)
(* are visible.  enqueue and blockingEnqueue unlock before they notify:    *)
(* the notification is a separate step.                                    *)
(*                                                                         *)
(* Members are named as in the code without the trailing underscore.       *)
(***************************************************************************)
EXTENDS Naturals, Sequences, FiniteSets

CONSTANTS
    Thread,     \* the threads that share the queue
    Item,       \* what is queued
    Capacity,   \* capacity_
    Ops         \* the member functions this queue's owner calls

AllOps == {"enqueue", "blockingEnqueue", "dequeue", "tryDequeue", "popFront",
           "clear", "start"}

ASSUME QueueAssumption ==
    /\ IsFiniteSet(Thread)
    /\ Capacity \in Nat
    /\ Ops \subseteq AllOps

VARIABLES
    queue,          \* queue_, oldest item first
    accepting,      \* accepting_
    need_to_flush,  \* need_to_flush_
    was_flushed,    \* was_flushed_ (written, never read)
    qpc,            \* where each thread is inside a call of this queue
    qitem           \* the argument of a blockingEnqueue in progress, <<x>> or <<>>

qvars == <<queue, accepting, need_to_flush, was_flushed, qpc, qitem>>

(***************************************************************************)
(* "out": in no call.  "notify": unlocked, notify_one on deq_cv_ is next.  *)
(* "..._wait": asleep on the condition variable.  "..._woken": awake, to   *)
(* re-acquire mutex_ and evaluate the predicate.                           *)
(***************************************************************************)
QueuePC == {"out", "notify", "enq_wait", "enq_woken", "deq_wait", "deq_woken"}

At(p) == {t \in Thread : qpc[t] = p}

\* The sets of threads a notify_one may wake: one sleeper, none if none sleeps.
NotifyOne(sleepers) == IF sleepers = {} THEN {{}} ELSE {{s} : s \in sleepers}

\* qpc after thread t has moved to p and the threads of S to woken.
Moved(t, p, S, woken) ==
    [u \in Thread |-> IF u = t THEN p ELSE IF u \in S THEN woken ELSE qpc[u]]

QueueInit ==
    /\ queue = <<>>
    /\ accepting = TRUE
    /\ need_to_flush = FALSE
    /\ was_flushed = FALSE
    /\ qpc = [t \in Thread |-> "out"]
    /\ qitem = [t \in Thread |-> <<>>]

----------------------------------------------------------------------------
(* Producers *)

\* push_back, then pop_front of ONE item if the queue has grown too long.
PushDroppingOldest(q, x) ==
    IF Len(q) + 1 > Capacity THEN Tail(Append(q, x)) ELSE Append(q, x)

\* Mutant: notify only when the queue was empty.
EnqueueNotifyFirst(t, x) ==
    /\ qpc[t] = "out"
    /\ queue' = IF accepting THEN PushDroppingOldest(queue, x) ELSE queue
    /\ qpc' = [qpc EXCEPT ![t] = IF queue = <<>> THEN "notify" ELSE "out"]
    /\ UNCHANGED <<accepting, need_to_flush, was_flushed, qitem>>

Enqueue(t, x) ==
    /\ qpc[t] = "out"
    /\ queue' = IF accepting THEN PushDroppingOldest(queue, x) ELSE queue
    /\ qpc' = [qpc EXCEPT ![t] = "notify"]
    /\ UNCHANGED <<accepting, need_to_flush, was_flushed, qitem>>

\* pred of blockingEnqueue.
HasRoom == Len(queue) < Capacity \/ need_to_flush

BlockingEnqueue(t, x) ==
    /\ qpc[t] = "out"
    /\ \/ /\ ~accepting
          /\ qpc' = [qpc EXCEPT ![t] = "notify"]
          /\ UNCHANGED <<queue, qitem>>
       \/ /\ accepting /\ HasRoom
          /\ queue' = Append(queue, x)
          /\ qpc' = [qpc EXCEPT ![t] = "notify"]
          /\ UNCHANGED qitem
       \/ /\ accepting /\ ~HasRoom
          /\ qpc' = [qpc EXCEPT ![t] = "enq_wait"]
          /\ qitem' = [qitem EXCEPT ![t] = <<x>>]
          /\ UNCHANGED queue
    /\ UNCHANGED <<accepting, need_to_flush, was_flushed>>

\* The woken producer pushes without looking at accepting_ again.
BlockingEnqueueResume(t) ==
    /\ qpc[t] = "enq_woken"
    /\ \/ /\ HasRoom
          /\ queue' = queue \o qitem[t]
          /\ qpc' = [qpc EXCEPT ![t] = "notify"]
          /\ qitem' = [qitem EXCEPT ![t] = <<>>]
       \/ /\ ~HasRoom
          /\ qpc' = [qpc EXCEPT ![t] = "enq_wait"]
          /\ UNCHANGED <<queue, qitem>>
    /\ UNCHANGED <<accepting, need_to_flush, was_flushed>>

\* Mutant: the notification is forgotten.
NotifyNobody(t) ==
    /\ qpc[t] = "notify"
    /\ qpc' = [qpc EXCEPT ![t] = "out"]
    /\ UNCHANGED <<queue, accepting, need_to_flush, was_flushed, qitem>>

\* deq_cv_.notify_one() after the unlock, the end of both enqueues.
NotifyDequeuer(t) ==
    /\ qpc[t] = "notify"
    /\ \E S \in NotifyOne(At("deq_wait")) : qpc' = Moved(t, "out", S, "deq_woken")
    /\ UNCHANGED <<queue, accepting, need_to_flush, was_flushed, qitem>>

----------------------------------------------------------------------------
(* Consumers.  got is <<x>> when the call returns x, <<>> otherwise. *)

\* What a call that ends now may return.
Returned == {<<>>, IF queue = <<>> THEN <<>> ELSE <<Head(queue)>>}

\* Mutant: no notification to the producers.
TakeFrontSilently(t, got) ==
    /\ got = IF queue = <<>> THEN <<>> ELSE <<Head(queue)>>
    /\ queue' = IF queue = <<>> THEN <<>> ELSE Tail(queue)
    /\ qpc' = [qpc EXCEPT ![t] = "out"]

\* Mutant: the item is looked at and left in the queue.
TakeFrontByPeek(t, got) ==
    /\ got = IF queue = <<>> THEN <<>> ELSE <<Head(queue)>>
    /\ qpc' = [qpc EXCEPT ![t] = "out"]
    /\ UNCHANGED queue

\* Take the front and notify one producer, or return false on an empty queue.
TakeFront(t, got) ==
    \/ /\ queue = <<>>
       /\ got = <<>>
       /\ qpc' = [qpc EXCEPT ![t] = "out"]
       /\ UNCHANGED queue
    \/ /\ queue # <<>>
       /\ got = <<Head(queue)>>
       /\ queue' = Tail(queue)
       /\ \E S \in NotifyOne(At("enq_wait")) : qpc' = Moved(t, "out", S, "enq_woken")

\* Mutant: the flush is forgotten.
ReadyIfNotEmpty == queue # <<>>

\* ready of dequeue.
Ready == queue # <<>> \/ need_to_flush

TakeOrSleep(t, got) ==
    \/ Ready /\ TakeFront(t, got)
    \/ /\ ~Ready
       /\ got = <<>>
       /\ qpc' = [qpc EXCEPT ![t] = "deq_wait"]
       /\ UNCHANGED queue

Dequeue(t, got) ==
    /\ qpc[t] = "out"
    /\ accepting' = TRUE
    /\ was_flushed' = TRUE
    /\ TakeOrSleep(t, got)
    /\ UNCHANGED <<need_to_flush, qitem>>

DequeueResume(t, got) ==
    /\ qpc[t] = "deq_woken"
    /\ TakeOrSleep(t, got)
    /\ UNCHANGED <<accepting, need_to_flush, was_flushed, qitem>>

\* wait_for evaluates ready once more when the time is over.
DequeueTimeout(t, got) ==
    /\ qpc[t] = "deq_wait"
    /\ TakeFront(t, got)
    /\ UNCHANGED <<accepting, need_to_flush, was_flushed, qitem>>

TryDequeue(t, got) ==
    /\ qpc[t] = "out"
    /\ accepting' = TRUE
    /\ TakeFront(t, got)
    /\ UNCHANGED <<need_to_flush, was_flushed, qitem>>

\* popFront notifies nobody.
PopFront(t) ==
    /\ qpc[t] = "out"
    /\ queue' = IF queue = <<>> THEN queue ELSE Tail(queue)
    /\ UNCHANGED <<accepting, need_to_flush, was_flushed, qpc, qitem>>

----------------------------------------------------------------------------
(* Control *)

\* Mutant: nobody is notified.
ClearSilently(t) ==
    /\ qpc[t] = "out"
    /\ accepting' = FALSE
    /\ need_to_flush' = TRUE
    /\ queue' = <<>>
    /\ UNCHANGED <<was_flushed, qpc, qitem>>

\* clear and its notify_all on both condition variables.
Clear(t) ==
    /\ qpc[t] = "out"
    /\ accepting' = FALSE
    /\ need_to_flush' = TRUE
    /\ queue' = <<>>
    /\ qpc' = [u \in Thread |-> CASE qpc[u] = "enq_wait" -> "enq_woken"
                                  [] qpc[u] = "deq_wait" -> "deq_woken"
                                  [] OTHER -> qpc[u]]
    /\ UNCHANGED <<was_flushed, qitem>>

Start(t) ==
    /\ qpc[t] = "out"
    /\ need_to_flush' = FALSE
    /\ accepting' = TRUE
    /\ UNCHANGED <<queue, was_flushed, qpc, qitem>>

\* std::condition_variable may wake a sleeper for no reason.
SpuriousWakeUp(t) ==
    /\ \/ qpc[t] = "enq_wait" /\ qpc' = [qpc EXCEPT ![t] = "enq_woken"]
       \/ qpc[t] = "deq_wait" /\ qpc' = [qpc EXCEPT ![t] = "deq_woken"]
    /\ UNCHANGED <<queue, accepting, need_to_flush, was_flushed, qitem>>

----------------------------------------------------------------------------
Next ==
    \E t \in Thread :
        \/ "enqueue" \in Ops /\ \E x \in Item : Enqueue(t, x)
        \/ "blockingEnqueue" \in Ops /\ \E x \in Item : BlockingEnqueue(t, x)
        \/ BlockingEnqueueResume(t)
        \/ NotifyDequeuer(t)
        \/ "dequeue" \in Ops /\ \E got \in Returned : Dequeue(t, got)
        \/ \E got \in Returned : DequeueResume(t, got)
        \/ \E got \in Returned : DequeueTimeout(t, got)
        \/ "tryDequeue" \in Ops /\ \E got \in Returned : TryDequeue(t, got)
        \/ "popFront" \in Ops /\ PopFront(t)
        \/ "clear" \in Ops /\ Clear(t)
        \/ "start" \in Ops /\ Start(t)
        \/ SpuriousWakeUp(t)

Spec == QueueInit /\ [][Next]_qvars

----------------------------------------------------------------------------
(* Properties *)

\* The members have their types, and exactly the threads inside a
\* blockingEnqueue carry an item (consumer_queue.h:47-57).
TypeOK ==
    /\ queue \in Seq(Item)
    /\ accepting \in BOOLEAN
    /\ need_to_flush \in BOOLEAN
    /\ was_flushed \in BOOLEAN
    /\ qpc \in [Thread -> QueuePC]
    /\ qitem \in [Thread -> Seq(Item)]
    /\ \A t \in Thread :
          Len(qitem[t]) = IF qpc[t] \in {"enq_wait", "enq_woken"} THEN 1 ELSE 0

\* "flush mechanism is required to abort wait on cv when need to stop"
\* (consumer_queue.h:133-134): from clear() until start() no thread sleeps in
\* the queue, neither one that slept before nor one that comes later.
FlushAbortsWaits ==
    need_to_flush => At("enq_wait") = {} /\ At("deq_wait") = {}

\* Neither way to enqueue lets the queue grow past capacity_, except a blocking
\* one that the flush lets through (consumer_queue.h:38-40, 48-53).
GrowsPastCapacityOnlyInFlush ==
    [][Len(queue') > Len(queue) /\ Len(queue') > Capacity => need_to_flush]_qvars

\* While a consumer sleeps, every queued item has a notification still to come or
\* a consumer already woken for it: dequeue never sleeps through an item
\* (consumer_queue.h:43-44, 55-56, 64).
NoLostDequeueWakeUp ==
    At("deq_wait") # {} =>
        Len(queue) <= Cardinality(At("notify")) + Cardinality(At("deq_woken"))

\* While a producer sleeps, every free place of the queue has a producer already
\* woken for it (consumer_queue.h:52, 72, 83).  It holds for the owners that do
\* not mix blockingEnqueue with popFront, which notifies nobody (line 89-92).
NoLostEnqueueWakeUp ==
    At("enq_wait") # {} =>
        Capacity <= Len(queue) + Cardinality(At("enq_woken"))
=============================================================================
