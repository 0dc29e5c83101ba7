------------------------ MODULE ConsumerQueueProofs ------------------------
(***************************************************************************)
(* Proofs about ConsumerQueue, for any set of threads, items and capacity. *)
(***************************************************************************)
EXTENDS ConsumerQueue, TLAPS, FiniteSetTheorems

\* Type and length of what the operations make of the queue.
LEMMA AppendType ==
    ASSUME NEW q \in Seq(Item), NEW x \in Item
    PROVE  Append(q, x) \in Seq(Item) /\ Len(Append(q, x)) = Len(q) + 1
    OBVIOUS

LEMMA ConcatType ==
    ASSUME NEW q \in Seq(Item), NEW r \in Seq(Item)
    PROVE  q \o r \in Seq(Item) /\ Len(q \o r) = Len(q) + Len(r)
    OBVIOUS

LEMMA TailType ==
    ASSUME NEW q \in Seq(Item), q # <<>>
    PROVE  Tail(q) \in Seq(Item) /\ Len(Tail(q)) = Len(q) - 1
    OBVIOUS

LEMMA LenType ==
    ASSUME NEW q \in Seq(Item)
    PROVE  Len(q) \in Nat /\ (Len(q) = 0 <=> q = <<>>)
    OBVIOUS

LEMMA ShortSequences ==
    /\ <<>> \in Seq(Item) /\ Len(<<>>) = 0
    /\ \A x \in Item : <<x>> \in Seq(Item) /\ Len(<<x>>) = 1
    OBVIOUS

\* enqueue adds one item below capacity_ and otherwise keeps the length.
LEMMA PushType ==
    ASSUME NEW q \in Seq(Item), NEW x \in Item
    PROVE  /\ PushDroppingOldest(q, x) \in Seq(Item)
           /\ Len(PushDroppingOldest(q, x)) =
                 IF Len(q) + 1 > Capacity THEN Len(q) ELSE Len(q) + 1
  <1>1. /\ Append(q, x) \in Seq(Item) /\ Len(Append(q, x)) = Len(q) + 1
        /\ Len(q) \in Nat /\ Append(q, x) # <<>>
    OBVIOUS
  <1>2. /\ Tail(Append(q, x)) \in Seq(Item)
        /\ Len(Tail(Append(q, x))) = Len(Append(q, x)) - 1
    BY <1>1
  <1>. QED
    BY <1>1, <1>2 DEF PushDroppingOldest

\* Every step of the queue keeps the types.
LEMMA TypeStep == TypeOK /\ [Next]_qvars => TypeOK'
  <1> SUFFICES ASSUME TypeOK, [Next]_qvars
               PROVE  TypeOK'
    OBVIOUS
  <1> USE DEF TypeOK, QueuePC
  <1>0. CASE UNCHANGED qvars
    BY <1>0 DEF qvars
  <1>1. ASSUME NEW t \in Thread, NEW x \in Item, Enqueue(t, x)
        PROVE  TypeOK'
    BY <1>1, PushType DEF Enqueue
  <1>2. ASSUME NEW t \in Thread, NEW x \in Item, BlockingEnqueue(t, x)
        PROVE  TypeOK'
    <2>1. queue' \in Seq(Item)
      BY <1>2, AppendType DEF BlockingEnqueue
    <2>2. qitem' \in [Thread -> Seq(Item)]
      BY <1>2, ShortSequences DEF BlockingEnqueue
    <2>3. qpc' \in [Thread -> QueuePC]
      BY <1>2 DEF BlockingEnqueue
    <2>4. ASSUME NEW u \in Thread
          PROVE  Len(qitem'[u]) = IF qpc'[u] \in {"enq_wait", "enq_woken"} THEN 1 ELSE 0
      BY <1>2, ShortSequences DEF BlockingEnqueue
    <2>. QED
      BY <1>2, <2>1, <2>2, <2>3, <2>4 DEF BlockingEnqueue
  <1>3. ASSUME NEW t \in Thread, BlockingEnqueueResume(t)
        PROVE  TypeOK'
    <2>1. queue' \in Seq(Item)
      <3>1. qitem[t] \in Seq(Item)
        OBVIOUS
      <3>2. queue \o qitem[t] \in Seq(Item)
        BY <3>1
      <3>. QED
        BY <1>3, <3>2 DEF BlockingEnqueueResume
    <2>2. qitem' \in [Thread -> Seq(Item)]
      BY <1>3, ShortSequences DEF BlockingEnqueueResume
    <2>3. ASSUME NEW u \in Thread
          PROVE  Len(qitem'[u]) = IF qpc'[u] \in {"enq_wait", "enq_woken"} THEN 1 ELSE 0
      BY <1>3, ShortSequences DEF BlockingEnqueueResume
    <2>. QED
      BY <1>3, <2>1, <2>2, <2>3 DEF BlockingEnqueueResume
  <1>4. ASSUME NEW t \in Thread, NotifyDequeuer(t)
        PROVE  TypeOK'
    <2>1. PICK S \in NotifyOne(At("deq_wait")) : qpc' = Moved(t, "out", S, "deq_woken")
      BY <1>4 DEF NotifyDequeuer
    <2>2. \A u \in S : u \in Thread /\ qpc[u] = "deq_wait"
      BY <2>1 DEF NotifyOne, At
    <2>. QED
      BY <1>4, <2>1, <2>2 DEF NotifyDequeuer, Moved
  <1>5. ASSUME NEW t \in Thread, NEW got, TakeFront(t, got),
               qpc[t] \notin {"enq_wait", "enq_woken"}, UNCHANGED qitem
        PROVE  /\ queue' \in Seq(Item)
               /\ qpc' \in [Thread -> QueuePC]
               /\ \A u \in Thread : Len(qitem'[u]) =
                     IF qpc'[u] \in {"enq_wait", "enq_woken"} THEN 1 ELSE 0
    <2>1. queue' \in Seq(Item)
      BY <1>5, TailType DEF TakeFront
    <2>2. CASE queue = <<>>
      BY <1>5, <2>1, <2>2 DEF TakeFront
    <2>3. CASE queue # <<>>
      <3>1. PICK S \in NotifyOne(At("enq_wait")) : qpc' = Moved(t, "out", S, "enq_woken")
        BY <1>5, <2>3 DEF TakeFront
      <3>2. \A u \in S : u \in Thread /\ qpc[u] = "enq_wait"
        BY <3>1 DEF NotifyOne, At
      <3>. QED
        BY <1>5, <2>1, <3>1, <3>2 DEF Moved
    <2>. QED
      BY <2>2, <2>3
  <1>6. ASSUME NEW t \in Thread, NEW got, TakeOrSleep(t, got),
               qpc[t] \notin {"enq_wait", "enq_woken"}, UNCHANGED qitem
        PROVE  /\ queue' \in Seq(Item)
               /\ qpc' \in [Thread -> QueuePC]
               /\ \A u \in Thread : Len(qitem'[u]) =
                     IF qpc'[u] \in {"enq_wait", "enq_woken"} THEN 1 ELSE 0
    BY <1>5, <1>6 DEF TakeOrSleep
  <1>7. ASSUME NEW t \in Thread, NEW got, Dequeue(t, got)
        PROVE  TypeOK'
    BY <1>6, <1>7 DEF Dequeue
  <1>8. ASSUME NEW t \in Thread, NEW got, DequeueResume(t, got)
        PROVE  TypeOK'
    BY <1>6, <1>8 DEF DequeueResume
  <1>9. ASSUME NEW t \in Thread, NEW got, DequeueTimeout(t, got)
        PROVE  TypeOK'
    BY <1>5, <1>9 DEF DequeueTimeout
  <1>10. ASSUME NEW t \in Thread, NEW got, TryDequeue(t, got)
         PROVE  TypeOK'
    BY <1>5, <1>10 DEF TryDequeue
  <1>11. ASSUME NEW t \in Thread, PopFront(t)
         PROVE  TypeOK'
    BY <1>11, TailType DEF PopFront
  <1>12. ASSUME NEW t \in Thread, Clear(t)
         PROVE  TypeOK'
    BY <1>12, ShortSequences DEF Clear
  <1>13. ASSUME NEW t \in Thread, Start(t)
         PROVE  TypeOK'
    BY <1>13 DEF Start
  <1>14. ASSUME NEW t \in Thread, SpuriousWakeUp(t)
         PROVE  TypeOK'
    BY <1>14 DEF SpuriousWakeUp
  <1>. QED
    BY <1>0, <1>1, <1>2, <1>3, <1>4, <1>7, <1>8, <1>9, <1>10, <1>11, <1>12, <1>13,
       <1>14 DEF Next

\* The type invariant of the queue's members and of its threads' positions.
THEOREM TypeCorrect == Spec => []TypeOK
  <1>1. QueueInit => TypeOK
    <2> SUFFICES ASSUME QueueInit PROVE TypeOK
      OBVIOUS
    <2>1. queue \in Seq(Item) /\ qitem \in [Thread -> Seq(Item)]
      BY ShortSequences DEF QueueInit
    <2>2. \A t \in Thread : Len(qitem[t]) = 0 /\ qpc[t] = "out"
      BY ShortSequences DEF QueueInit
    <2>. QED
      BY <2>1, <2>2 DEF QueueInit, TypeOK, QueuePC
  <1>. QED
    BY <1>1, TypeStep, PTL DEF Spec

----------------------------------------------------------------------------
\* clear() aborts every wait, and until start() no call waits: the comment at
\* consumer_queue.h:133-134, for every number of threads.
THEOREM FlushAborts == Spec => []FlushAbortsWaits
  <1>1. QueueInit => FlushAbortsWaits
    BY DEF QueueInit, FlushAbortsWaits
  <1>2. TypeOK /\ FlushAbortsWaits /\ [Next]_qvars => FlushAbortsWaits'
    <2> SUFFICES ASSUME TypeOK, FlushAbortsWaits, [Next]_qvars, need_to_flush',
                        NEW u \in Thread
                 PROVE  qpc'[u] \notin {"enq_wait", "deq_wait"}
      BY DEF FlushAbortsWaits, At
    <2> USE DEF TypeOK, QueuePC
    <2>a. ASSUME need_to_flush
          PROVE  \A v \in Thread : qpc[v] \notin {"enq_wait", "deq_wait"}
      BY <2>a DEF FlushAbortsWaits, At
    <2>0. CASE UNCHANGED qvars
      BY <2>0, <2>a DEF qvars
    <2>1. ASSUME NEW t \in Thread, NEW x \in Item, Enqueue(t, x)
          PROVE  qpc'[u] \notin {"enq_wait", "deq_wait"}
      BY <2>1, <2>a DEF Enqueue
    <2>2. ASSUME NEW t \in Thread, NEW x \in Item, BlockingEnqueue(t, x)
          PROVE  qpc'[u] \notin {"enq_wait", "deq_wait"}
      BY <2>2, <2>a DEF BlockingEnqueue, HasRoom
    <2>3. ASSUME NEW t \in Thread, BlockingEnqueueResume(t)
          PROVE  qpc'[u] \notin {"enq_wait", "deq_wait"}
      BY <2>3, <2>a DEF BlockingEnqueueResume, HasRoom
    <2>4. ASSUME NEW t \in Thread, NotifyDequeuer(t)
          PROVE  qpc'[u] \notin {"enq_wait", "deq_wait"}
      BY <2>4, <2>a DEF NotifyDequeuer, Moved
    <2>5. ASSUME NEW t \in Thread, NEW got, TakeFront(t, got), need_to_flush
          PROVE  qpc'[u] \notin {"enq_wait", "deq_wait"}
      BY <2>5, <2>a DEF TakeFront, Moved
    <2>6. ASSUME NEW t \in Thread, NEW got, TakeOrSleep(t, got), need_to_flush
          PROVE  qpc'[u] \notin {"enq_wait", "deq_wait"}
      BY <2>5, <2>6 DEF TakeOrSleep, Ready
    <2>7. ASSUME NEW t \in Thread, NEW got,
                 Dequeue(t, got) \/ DequeueResume(t, got)
          PROVE  qpc'[u] \notin {"enq_wait", "deq_wait"}
      BY <2>6, <2>7 DEF Dequeue, DequeueResume
    <2>8. ASSUME NEW t \in Thread, NEW got,
                 DequeueTimeout(t, got) \/ TryDequeue(t, got)
          PROVE  qpc'[u] \notin {"enq_wait", "deq_wait"}
      BY <2>5, <2>8 DEF DequeueTimeout, TryDequeue
    <2>9. ASSUME NEW t \in Thread, PopFront(t)
          PROVE  qpc'[u] \notin {"enq_wait", "deq_wait"}
      BY <2>9, <2>a DEF PopFront
    <2>10. ASSUME NEW t \in Thread, Clear(t)
           PROVE  qpc'[u] \notin {"enq_wait", "deq_wait"}
      BY <2>10 DEF Clear
    <2>11. ASSUME NEW t \in Thread, Start(t)
           PROVE  qpc'[u] \notin {"enq_wait", "deq_wait"}
      BY <2>11 DEF Start
    <2>12. ASSUME NEW t \in Thread, SpuriousWakeUp(t)
           PROVE  qpc'[u] \notin {"enq_wait", "deq_wait"}
      BY <2>12, <2>a DEF SpuriousWakeUp
    <2>. QED
      BY <2>0, <2>1, <2>2, <2>3, <2>4, <2>7, <2>8, <2>9, <2>10, <2>11, <2>12 DEF Next
  <1>. QED
    BY <1>1, <1>2, TypeCorrect, PTL DEF Spec

----------------------------------------------------------------------------
\* How a step changes the length of the queue; the common part of the theorem on
\* the capacity and of the two on wake-ups.
LEMMA TakeFrontLen ==
    ASSUME TypeOK, NEW t \in Thread, NEW got, TakeFront(t, got)
    PROVE  IF queue = <<>> THEN queue' = <<>> ELSE Len(queue') = Len(queue) - 1
  BY TailType DEF TakeFront, TypeOK

\* Neither enqueue makes the queue longer than capacity_ unless it is being flushed
\* (consumer_queue.h:35-57).
THEOREM CapacityRespected == Spec => GrowsPastCapacityOnlyInFlush
  <1>1. TypeOK /\ [Next]_qvars =>
            [Len(queue') > Len(queue) /\ Len(queue') > Capacity => need_to_flush]_qvars
    <2> SUFFICES ASSUME TypeOK, Next, Len(queue') > Len(queue), Len(queue') > Capacity
                 PROVE  need_to_flush
      OBVIOUS
    <2>0. queue \in Seq(Item) /\ Len(queue) \in Nat /\ Capacity \in Nat
      BY LenType, QueueAssumption DEF TypeOK
    <2>a. /\ queue' # queue
          /\ queue' # <<>>
          /\ ~(Len(queue') = Len(queue) - 1)
      BY <2>0, ShortSequences
    <2>1. ASSUME NEW t \in Thread, NEW x \in Item, Enqueue(t, x)
          PROVE  FALSE
      BY <2>0, <2>a, <2>1, PushType DEF Enqueue
    <2>2. ASSUME NEW t \in Thread, NEW x \in Item, BlockingEnqueue(t, x)
          PROVE  need_to_flush
      BY <2>0, <2>a, <2>2, AppendType DEF BlockingEnqueue, HasRoom
    <2>3. ASSUME NEW t \in Thread, BlockingEnqueueResume(t)
          PROVE  need_to_flush
      <3>1. qitem[t] \in Seq(Item) /\ Len(qitem[t]) = 1
        BY <2>3 DEF BlockingEnqueueResume, TypeOK
      <3>2. Len(queue \o qitem[t]) = Len(queue) + 1
        BY <2>0, <3>1, ConcatType
      <3>3. HasRoom /\ queue' = queue \o qitem[t]
        BY <2>a, <2>3 DEF BlockingEnqueueResume
      <3>. QED
        BY <2>0, <3>2, <3>3 DEF HasRoom
    <2>4. ASSUME NEW t \in Thread, NEW got, TakeFront(t, got)
          PROVE  FALSE
      BY <2>0, <2>a, <2>4, TakeFrontLen
    <2>5. ASSUME NEW t \in Thread, NEW got,
                 \/ Dequeue(t, got) \/ DequeueResume(t, got)
                 \/ DequeueTimeout(t, got) \/ TryDequeue(t, got)
          PROVE  FALSE
      BY <2>a, <2>4, <2>5
         DEF Dequeue, DequeueResume, DequeueTimeout, TryDequeue, TakeOrSleep
    <2>6. ASSUME NEW t \in Thread, PopFront(t)
          PROVE  FALSE
      BY <2>0, <2>a, <2>6, TailType DEF PopFront
    <2>7. ASSUME NEW t \in Thread,
                 NotifyDequeuer(t) \/ Clear(t) \/ Start(t) \/ SpuriousWakeUp(t)
          PROVE  FALSE
      BY <2>a, <2>7 DEF NotifyDequeuer, Clear, Start, SpuriousWakeUp
    <2>. QED
      BY <2>1, <2>2, <2>3, <2>5, <2>6, <2>7 DEF Next
  <1>. QED
    BY <1>1, TypeCorrect, PTL DEF Spec, GrowsPastCapacityOnlyInFlush

----------------------------------------------------------------------------
(* Counting the threads at a position *)

LEMMA AtFinite ==
    ASSUME NEW p
    PROVE  /\ IsFiniteSet(At(p)) /\ Cardinality(At(p)) \in Nat
           /\ IsFiniteSet(At(p)') /\ Cardinality(At(p)') \in Nat
  <1>1. IsFiniteSet(At(p)) /\ IsFiniteSet(At(p)')
    BY FS_Subset, QueueAssumption DEF At
  <1>. QED
    BY <1>1, FS_CardinalityType

\* A thread that leaves p takes one off the count, one that comes adds one.
LEMMA CountLeave ==
    ASSUME NEW p, NEW t \in At(p), At(p) \ {t} \subseteq At(p)'
    PROVE  Cardinality(At(p)') >= Cardinality(At(p)) - 1
  <1>1. IsFiniteSet(At(p) \ {t}) /\ Cardinality(At(p) \ {t}) = Cardinality(At(p)) - 1
    BY AtFinite, FS_RemoveElement
  <1>2. Cardinality(At(p) \ {t}) <= Cardinality(At(p)')
    BY <1>1, AtFinite, FS_Subset
  <1>. QED
    BY <1>1, <1>2, AtFinite

LEMMA CountEnter ==
    ASSUME NEW p, NEW t, t \notin At(p), At(p) \cup {t} \subseteq At(p)'
    PROVE  Cardinality(At(p)') >= Cardinality(At(p)) + 1
  <1>1. IsFiniteSet(At(p) \cup {t}) /\ Cardinality(At(p) \cup {t}) = Cardinality(At(p)) + 1
    BY AtFinite, FS_AddElement
  <1>2. Cardinality(At(p) \cup {t}) <= Cardinality(At(p)')
    BY <1>1, AtFinite, FS_Subset
  <1>. QED
    BY <1>1, <1>2, AtFinite

LEMMA CountKeep ==
    ASSUME NEW p, At(p) \subseteq At(p)'
    PROVE  Cardinality(At(p)') >= Cardinality(At(p))
  BY AtFinite, FS_Subset

\* No dequeue sleeps while an item waits for it (consumer_queue.h:35-74): the
\* notifications under way and the consumers already woken cover the queue.
THEOREM NoDequeuerForgotten == Spec => []NoLostDequeueWakeUp
  <1>1. QueueInit => NoLostDequeueWakeUp
    BY DEF QueueInit, NoLostDequeueWakeUp, At
  <1>2. TypeOK /\ NoLostDequeueWakeUp /\ [Next]_qvars => NoLostDequeueWakeUp'
    <2> SUFFICES ASSUME TypeOK, NoLostDequeueWakeUp, [Next]_qvars, At("deq_wait")' # {}
                 PROVE  Len(queue') <= Cardinality(At("notify")') + Cardinality(At("deq_woken")')
      BY DEF NoLostDequeueWakeUp
    <2> DEFINE Covered == Len(queue') <= Cardinality(At("notify")') + Cardinality(At("deq_woken")')
    <2> HIDE DEF Covered
    <2>a. /\ queue \in Seq(Item) /\ Len(queue) \in Nat
          /\ Cardinality(At("notify")) \in Nat /\ Cardinality(At("deq_woken")) \in Nat
          /\ Cardinality(At("notify")') \in Nat /\ Cardinality(At("deq_woken")') \in Nat
      BY LenType, AtFinite DEF TypeOK
    <2>b. ASSUME At("deq_wait") # {}
          PROVE  Len(queue) <= Cardinality(At("notify")) + Cardinality(At("deq_woken"))
      BY <2>b DEF NoLostDequeueWakeUp
    \* An empty queue needs nobody.
    <2>c. ASSUME queue' = <<>> PROVE Covered
      BY <2>a, <2>c, ShortSequences DEF Covered
    \* The queue is no longer, and nobody has left the two positions.
    <2>d. ASSUME Len(queue') <= Len(queue), Len(queue') \in Nat, At("deq_wait") # {},
                 At("notify") \subseteq At("notify")', At("deq_woken") \subseteq At("deq_woken")'
          PROVE  Covered
      BY <2>a, <2>b, <2>d, CountKeep DEF Covered
    \* One item more, one notification more.
    <2>e. ASSUME Len(queue') <= Len(queue) + 1, Len(queue') \in Nat, At("deq_wait") # {},
                 NEW t, t \notin At("notify"), At("notify") \cup {t} \subseteq At("notify")',
                 At("deq_woken") \subseteq At("deq_woken")'
          PROVE  Covered
      <3>1. Cardinality(At("notify")') >= Cardinality(At("notify")) + 1
        BY <2>e, CountEnter
      <3>2. Cardinality(At("deq_woken")') >= Cardinality(At("deq_woken"))
        BY <2>e, CountKeep
      <3>. QED
        BY <2>a, <2>b, <2>e, <3>1, <3>2 DEF Covered
    <2>0. ASSUME UNCHANGED qvars
          PROVE  Covered
      <3>1. /\ queue' = queue /\ At("deq_wait") # {}
            /\ At("notify") \subseteq At("notify")'
            /\ At("deq_woken") \subseteq At("deq_woken")'
        BY <2>0 DEF qvars, At
      <3>. QED
        BY <2>a, <2>d, <3>1
    <2>1. ASSUME NEW t \in Thread, NEW x \in Item, Enqueue(t, x)
          PROVE  Covered
      <3>1. Len(queue') <= Len(queue) + 1 /\ Len(queue') \in Nat
        <4>1. CASE accepting
          BY <2>1, <2>a, <4>1, PushType DEF Enqueue
        <4>2. CASE ~accepting
          BY <2>1, <2>a, <4>2 DEF Enqueue
        <4>. QED
          BY <4>1, <4>2
      <3>2. /\ At("deq_wait") # {} /\ t \notin At("notify")
            /\ At("notify") \cup {t} \subseteq At("notify")'
            /\ At("deq_woken") \subseteq At("deq_woken")'
        BY <2>1 DEF Enqueue, At, TypeOK
      <3>. QED
        BY <2>e, <3>1, <3>2
    <2>2. ASSUME NEW t \in Thread, NEW x \in Item, BlockingEnqueue(t, x)
          PROVE  Covered
      <3>1. CASE ~accepting \/ HasRoom
        <4>1. Len(queue') <= Len(queue) + 1 /\ Len(queue') \in Nat
          BY <2>2, <2>a, <3>1, AppendType DEF BlockingEnqueue
        <4>2. /\ At("deq_wait") # {} /\ t \notin At("notify")
              /\ At("notify") \cup {t} \subseteq At("notify")'
              /\ At("deq_woken") \subseteq At("deq_woken")'
          BY <2>2, <3>1 DEF BlockingEnqueue, At, TypeOK
        <4>. QED
          BY <2>e, <4>1, <4>2
      <3>2. CASE accepting /\ ~HasRoom
        <4>1. /\ queue' = queue /\ At("deq_wait") # {}
              /\ At("notify") \subseteq At("notify")'
              /\ At("deq_woken") \subseteq At("deq_woken")'
          BY <2>2, <3>2 DEF BlockingEnqueue, At, TypeOK
        <4>. QED
          BY <2>a, <2>d, <4>1
      <3>. QED
        BY <3>1, <3>2 DEF TypeOK
    <2>3. ASSUME NEW t \in Thread, BlockingEnqueueResume(t)
          PROVE  Covered
      <3>1. CASE HasRoom
        <4>1. Len(queue') = Len(queue) + 1
          <5>1. qitem[t] \in Seq(Item) /\ Len(qitem[t]) = 1
            BY <2>3 DEF BlockingEnqueueResume, TypeOK
          <5>. QED
            BY <2>3, <2>a, <3>1, <5>1, ConcatType DEF BlockingEnqueueResume
        <4>2. /\ At("deq_wait") # {} /\ t \notin At("notify")
              /\ At("notify") \cup {t} \subseteq At("notify")'
              /\ At("deq_woken") \subseteq At("deq_woken")'
          BY <2>3, <3>1 DEF BlockingEnqueueResume, At, TypeOK
        <4>. QED
          BY <2>a, <2>e, <4>1, <4>2
      <3>2. CASE ~HasRoom
        <4>1. /\ queue' = queue /\ At("deq_wait") # {}
              /\ At("notify") \subseteq At("notify")'
              /\ At("deq_woken") \subseteq At("deq_woken")'
          BY <2>3, <3>2 DEF BlockingEnqueueResume, At, TypeOK
        <4>. QED
          BY <2>a, <2>d, <4>1
      <3>. QED
        BY <3>1, <3>2
    \* The notification turns into a woken consumer: one sleeps still.
    <2>4. ASSUME NEW t \in Thread, NotifyDequeuer(t)
          PROVE  Covered
      <3>1. PICK S \in NotifyOne(At("deq_wait")) : qpc' = Moved(t, "out", S, "deq_woken")
        BY <2>4 DEF NotifyDequeuer
      <3>2. At("deq_wait") # {}
        BY <2>4, <3>1 DEF Moved, At, TypeOK
      <3>3. PICK s \in At("deq_wait") : S = {s}
        BY <3>1, <3>2 DEF NotifyOne
      <3>4. /\ t \in At("notify") /\ At("notify") \ {t} \subseteq At("notify")'
            /\ s \notin At("deq_woken")
            /\ At("deq_woken") \cup {s} \subseteq At("deq_woken")'
        BY <2>4, <3>1, <3>3 DEF NotifyDequeuer, Moved, At, TypeOK
      <3>5. /\ Cardinality(At("notify")') >= Cardinality(At("notify")) - 1
            /\ Cardinality(At("deq_woken")') >= Cardinality(At("deq_woken")) + 1
        BY <3>4, CountLeave, CountEnter
      <3>6. queue' = queue
        BY <2>4 DEF NotifyDequeuer
      <3>. QED
        BY <2>a, <2>b, <3>2, <3>5, <3>6 DEF Covered
    \* A consumer that takes an item may have been one of the woken.
    <2>5. ASSUME NEW t \in Thread, NEW got, TakeFront(t, got),
                 qpc[t] \in {"out", "deq_wait", "deq_woken"}
          PROVE  Covered
      <3>1. CASE queue = <<>>
        BY <2>5, <2>c, <3>1 DEF TakeFront
      <3>2. CASE queue # <<>>
        <4>1. PICK S \in NotifyOne(At("enq_wait")) : qpc' = Moved(t, "out", S, "enq_woken")
          BY <2>5, <3>2 DEF TakeFront
        <4>2. \A s \in S : qpc[s] = "enq_wait"
          BY <4>1 DEF NotifyOne, At
        <4>3. At("deq_wait") # {} /\ At("notify") \subseteq At("notify")'
          BY <2>5, <4>1, <4>2 DEF Moved, At, TypeOK
        <4>4. Len(queue') = Len(queue) - 1
          BY <2>5, <3>2, TakeFrontLen
        <4>5. Cardinality(At("deq_woken")') >= Cardinality(At("deq_woken")) - 1
          <5>1. CASE qpc[t] = "deq_woken"
            <6>1. t \in At("deq_woken") /\ At("deq_woken") \ {t} \subseteq At("deq_woken")'
              BY <5>1, <4>1, <4>2 DEF Moved, At, TypeOK
            <6>. QED
              BY <6>1, CountLeave
          <5>2. CASE qpc[t] # "deq_woken"
            <6>1. At("deq_woken") \subseteq At("deq_woken")'
              BY <5>2, <4>1, <4>2 DEF Moved, At, TypeOK
            <6>. QED
              BY <2>a, <6>1, CountKeep
          <5>. QED
            BY <5>1, <5>2
        <4>. QED
          BY <2>a, <2>b, <4>3, <4>4, <4>5, CountKeep DEF Covered
      <3>. QED
        BY <3>1, <3>2
    \* It sleeps only on an empty queue.
    <2>6. ASSUME NEW t \in Thread, NEW got, TakeOrSleep(t, got),
                 qpc[t] \in {"out", "deq_wait", "deq_woken"}
          PROVE  Covered
      BY <2>c, <2>5, <2>6 DEF TakeOrSleep, Ready
    <2>7. ASSUME NEW t \in Thread, NEW got,
                 \/ Dequeue(t, got) \/ DequeueResume(t, got)
                 \/ DequeueTimeout(t, got) \/ TryDequeue(t, got)
          PROVE  Covered
      BY <2>5, <2>6, <2>7 DEF Dequeue, DequeueResume, DequeueTimeout, TryDequeue
    <2>8. ASSUME NEW t \in Thread, PopFront(t)
          PROVE  Covered
      <3>1. Len(queue') <= Len(queue) /\ Len(queue') \in Nat
        BY <2>8, <2>a, TailType, LenType DEF PopFront
      <3>. QED
        BY <2>d, <2>8, <3>1 DEF PopFront, At
    <2>9. ASSUME NEW t \in Thread, Clear(t)
          PROVE  Covered
      BY <2>c, <2>9 DEF Clear
    <2>10. ASSUME NEW t \in Thread, Start(t)
           PROVE  Covered
      BY <2>a, <2>d, <2>10 DEF Start, At
    <2>11. ASSUME NEW t \in Thread, SpuriousWakeUp(t)
           PROVE  Covered
      <3>1. /\ queue' = queue /\ At("deq_wait") # {}
            /\ At("notify") \subseteq At("notify")'
            /\ At("deq_woken") \subseteq At("deq_woken")'
        BY <2>11 DEF SpuriousWakeUp, At, TypeOK
      <3>. QED
        BY <2>a, <2>d, <3>1
    <2>12. Covered
      BY <2>0, <2>1, <2>2, <2>3, <2>4, <2>7, <2>8, <2>9, <2>10, <2>11 DEF Next
    <2>. QED
      BY <2>12 DEF Covered
  <1>. QED
    BY <1>1, <1>2, TypeCorrect, PTL DEF Spec

----------------------------------------------------------------------------
\* No one waits for room in a queue whose owner never calls blockingEnqueue.
NobodyBlocks ==
    "blockingEnqueue" \notin Ops =>
        \A t \in Thread : qpc[t] \notin {"enq_wait", "enq_woken"}

LEMMA BlockingIsOptIn == Spec => []NobodyBlocks
  <1>1. QueueInit => NobodyBlocks
    BY DEF QueueInit, NobodyBlocks
  <1>2. TypeOK /\ NobodyBlocks /\ [Next]_qvars => NobodyBlocks'
    <2> SUFFICES ASSUME TypeOK, NobodyBlocks, [Next]_qvars, "blockingEnqueue" \notin Ops,
                        NEW u \in Thread
                 PROVE  qpc'[u] \notin {"enq_wait", "enq_woken"}
      BY DEF NobodyBlocks
    <2> USE DEF TypeOK, QueuePC, NobodyBlocks
    <2>1. CASE UNCHANGED qvars
      BY <2>1 DEF qvars
    <2>2. ASSUME NEW t \in Thread, NEW x \in Item, Enqueue(t, x)
          PROVE  qpc'[u] \notin {"enq_wait", "enq_woken"}
      BY <2>2 DEF Enqueue
    <2>3. ASSUME NEW t \in Thread, NEW got, TakeFront(t, got)
          PROVE  qpc'[u] \notin {"enq_wait", "enq_woken"}
      BY <2>3 DEF TakeFront, NotifyOne, Moved, At
    <2>4. ASSUME NEW t \in Thread, NEW got,
                 \/ Dequeue(t, got) \/ DequeueResume(t, got)
                 \/ DequeueTimeout(t, got) \/ TryDequeue(t, got)
          PROVE  qpc'[u] \notin {"enq_wait", "enq_woken"}
      BY <2>3, <2>4
         DEF Dequeue, DequeueResume, DequeueTimeout, TryDequeue, TakeOrSleep
    <2>5. ASSUME NEW t \in Thread,
                 BlockingEnqueueResume(t) \/ NotifyDequeuer(t) \/ PopFront(t)
          PROVE  qpc'[u] \notin {"enq_wait", "enq_woken"}
      BY <2>5 DEF BlockingEnqueueResume, NotifyDequeuer, Moved, PopFront
    <2>6. ASSUME NEW t \in Thread, Clear(t) \/ Start(t) \/ SpuriousWakeUp(t)
          PROVE  qpc'[u] \notin {"enq_wait", "enq_woken"}
      BY <2>6 DEF Clear, Start, SpuriousWakeUp
    <2>. QED
      BY <2>1, <2>2, <2>4, <2>5, <2>6 DEF Next
  <1>. QED
    BY <1>1, <1>2, TypeCorrect, PTL DEF Spec

\* No blockingEnqueue sleeps while there is room that no woken producer is about to
\* take (consumer_queue.h:47-87), in every queue whose owner does not mix
\* blockingEnqueue with popFront.
THEOREM NoProducerForgotten ==
    ASSUME ~({"popFront", "blockingEnqueue"} \subseteq Ops)
    PROVE  Spec => []NoLostEnqueueWakeUp
  <1>1. QueueInit => NoLostEnqueueWakeUp
    BY DEF QueueInit, NoLostEnqueueWakeUp, At
  <1>2. TypeOK /\ NobodyBlocks /\ NoLostEnqueueWakeUp /\ [Next]_qvars => NoLostEnqueueWakeUp'
    <2> SUFFICES ASSUME TypeOK, NobodyBlocks, NoLostEnqueueWakeUp, [Next]_qvars,
                        At("enq_wait")' # {}
                 PROVE  Capacity <= Len(queue') + Cardinality(At("enq_woken")')
      BY DEF NoLostEnqueueWakeUp
    <2> DEFINE Covered == Capacity <= Len(queue') + Cardinality(At("enq_woken")')
    <2> HIDE DEF Covered
    <2>a. /\ queue \in Seq(Item) /\ Len(queue) \in Nat /\ Capacity \in Nat
          /\ Cardinality(At("enq_woken")) \in Nat /\ Cardinality(At("enq_woken")') \in Nat
      BY LenType, AtFinite, QueueAssumption DEF TypeOK
    <2>b. ASSUME At("enq_wait") # {}
          PROVE  Capacity <= Len(queue) + Cardinality(At("enq_woken"))
      BY <2>b DEF NoLostEnqueueWakeUp
    \* The queue is no shorter and the woken producers are still there.
    <2>c. ASSUME Len(queue') >= Len(queue), Len(queue') \in Nat, At("enq_wait") # {},
                 At("enq_woken") \subseteq At("enq_woken")'
          PROVE  Covered
      <3>1. Cardinality(At("enq_woken")') >= Cardinality(At("enq_woken"))
        BY <2>c, CountKeep
      <3>. QED
        BY <2>a, <2>b, <2>c, <3>1 DEF Covered
    \* The queue is unchanged and the woken producers are still there.
    <2>d. ASSUME queue' = queue, At("enq_wait") # {}, At("enq_woken") \subseteq At("enq_woken")'
          PROVE  Covered
      BY <2>a, <2>c, <2>d
    \* The queue is full.
    <2>e. ASSUME queue' = queue, ~HasRoom
          PROVE  Covered
      BY <2>a, <2>e DEF HasRoom, Covered
    <2>0. ASSUME UNCHANGED qvars
          PROVE  Covered
      <3>1. /\ queue' = queue /\ At("enq_wait") # {}
            /\ At("enq_woken") \subseteq At("enq_woken")'
        BY <2>0 DEF qvars, At
      <3>. QED
        BY <2>d, <3>1
    <2>1. ASSUME NEW t \in Thread, NEW x \in Item, Enqueue(t, x)
          PROVE  Covered
      <3>1. Len(queue') >= Len(queue) /\ Len(queue') \in Nat
        <4>1. CASE accepting
          BY <2>1, <2>a, <4>1, PushType DEF Enqueue
        <4>2. CASE ~accepting
          BY <2>1, <2>a, <4>2 DEF Enqueue
        <4>. QED
          BY <4>1, <4>2
      <3>2. At("enq_wait") # {} /\ At("enq_woken") \subseteq At("enq_woken")'
        BY <2>1 DEF Enqueue, At, TypeOK
      <3>. QED
        BY <2>c, <3>1, <3>2
    <2>2. ASSUME NEW t \in Thread, NEW x \in Item, BlockingEnqueue(t, x)
          PROVE  Covered
      <3>1. CASE ~accepting \/ HasRoom
        <4>1. Len(queue') >= Len(queue) /\ Len(queue') \in Nat
          BY <2>2, <2>a, <3>1, AppendType DEF BlockingEnqueue
        <4>2. At("enq_wait") # {} /\ At("enq_woken") \subseteq At("enq_woken")'
          BY <2>2, <3>1 DEF BlockingEnqueue, At, TypeOK
        <4>. QED
          BY <2>c, <4>1, <4>2
      <3>2. CASE accepting /\ ~HasRoom
        BY <2>2, <2>e, <3>2 DEF BlockingEnqueue
      <3>. QED
        BY <3>1, <3>2 DEF TypeOK
    \* The woken producer takes the place it was woken for, or the queue is full.
    <2>3. ASSUME NEW t \in Thread, BlockingEnqueueResume(t)
          PROVE  Covered
      <3>1. CASE HasRoom
        <4>1. Len(queue') = Len(queue) + 1
          <5>1. qitem[t] \in Seq(Item) /\ Len(qitem[t]) = 1
            BY <2>3 DEF BlockingEnqueueResume, TypeOK
          <5>. QED
            BY <2>3, <2>a, <3>1, <5>1, ConcatType DEF BlockingEnqueueResume
        <4>2. /\ At("enq_wait") # {} /\ t \in At("enq_woken")
              /\ At("enq_woken") \ {t} \subseteq At("enq_woken")'
          BY <2>3, <3>1 DEF BlockingEnqueueResume, At, TypeOK
        <4>3. Cardinality(At("enq_woken")') >= Cardinality(At("enq_woken")) - 1
          BY <4>2, CountLeave
        <4>. QED
          BY <2>a, <2>b, <4>1, <4>2, <4>3 DEF Covered
      <3>2. CASE ~HasRoom
        BY <2>3, <2>e, <3>2 DEF BlockingEnqueueResume
      <3>. QED
        BY <3>1, <3>2
    <2>4. ASSUME NEW t \in Thread, NotifyDequeuer(t)
          PROVE  Covered
      <3>1. PICK S \in NotifyOne(At("deq_wait")) : qpc' = Moved(t, "out", S, "deq_woken")
        BY <2>4 DEF NotifyDequeuer
      <3>2. \A s \in S : qpc[s] = "deq_wait"
        BY <3>1 DEF NotifyOne, At
      <3>3. At("enq_wait") # {} /\ At("enq_woken") \subseteq At("enq_woken")'
        BY <2>4, <3>1, <3>2 DEF NotifyDequeuer, Moved, At, TypeOK
      <3>. QED
        BY <2>4, <2>d, <3>3 DEF NotifyDequeuer
    \* A consumer frees a place and wakes a producer for it.
    <2>5. ASSUME NEW t \in Thread, NEW got, TakeFront(t, got),
                 qpc[t] \in {"out", "deq_wait", "deq_woken"}
          PROVE  Covered
      <3>1. CASE queue = <<>>
        <4>1. /\ queue' = queue /\ At("enq_wait") # {}
              /\ At("enq_woken") \subseteq At("enq_woken")'
          BY <2>5, <3>1 DEF TakeFront, At, TypeOK
        <4>. QED
          BY <2>d, <4>1
      <3>2. CASE queue # <<>>
        <4>1. PICK S \in NotifyOne(At("enq_wait")) : qpc' = Moved(t, "out", S, "enq_woken")
          BY <2>5, <3>2 DEF TakeFront
        <4>2. At("enq_wait") # {}
          BY <2>5, <4>1 DEF Moved, At, TypeOK
        <4>3. PICK s \in At("enq_wait") : S = {s}
          BY <4>1, <4>2 DEF NotifyOne
        <4>4. /\ s \notin At("enq_woken")
              /\ At("enq_woken") \cup {s} \subseteq At("enq_woken")'
          BY <2>5, <4>1, <4>3 DEF Moved, At, TypeOK
        <4>5. Cardinality(At("enq_woken")') >= Cardinality(At("enq_woken")) + 1
          BY <4>4, CountEnter
        <4>6. Len(queue') = Len(queue) - 1
          BY <2>5, <3>2, TakeFrontLen
        <4>. QED
          BY <2>a, <2>b, <4>2, <4>5, <4>6 DEF Covered
      <3>. QED
        BY <3>1, <3>2
    <2>6. ASSUME NEW t \in Thread, NEW got, TakeOrSleep(t, got),
                 qpc[t] \in {"out", "deq_wait", "deq_woken"}
          PROVE  Covered
      <3>1. CASE Ready
        BY <2>5, <2>6, <3>1 DEF TakeOrSleep
      <3>2. CASE ~Ready
        <4>1. /\ queue' = queue /\ At("enq_wait") # {}
              /\ At("enq_woken") \subseteq At("enq_woken")'
          BY <2>6, <3>2 DEF TakeOrSleep, At, TypeOK
        <4>. QED
          BY <2>d, <4>1
      <3>. QED
        BY <3>1, <3>2
    <2>7. ASSUME NEW t \in Thread, NEW got,
                 \/ Dequeue(t, got) \/ DequeueResume(t, got)
                 \/ DequeueTimeout(t, got) \/ TryDequeue(t, got)
          PROVE  Covered
      BY <2>5, <2>6, <2>7 DEF Dequeue, DequeueResume, DequeueTimeout, TryDequeue
    \* popFront frees a place and wakes no one: only where no one blocks.
    <2>8. ASSUME NEW t \in Thread, PopFront(t), "popFront" \in Ops
          PROVE  Covered
      BY <2>8 DEF PopFront, NobodyBlocks, At
    <2>9. ASSUME NEW t \in Thread, Clear(t)
          PROVE  Covered
      BY <2>9 DEF Clear, At
    <2>10. ASSUME NEW t \in Thread, Start(t)
           PROVE  Covered
      BY <2>d, <2>10 DEF Start, At
    <2>11. ASSUME NEW t \in Thread, SpuriousWakeUp(t)
           PROVE  Covered
      <3>1. /\ queue' = queue /\ At("enq_wait") # {}
            /\ At("enq_woken") \subseteq At("enq_woken")'
        BY <2>11 DEF SpuriousWakeUp, At, TypeOK
      <3>. QED
        BY <2>d, <3>1
    <2>12. Covered
      BY <2>0, <2>1, <2>2, <2>3, <2>4, <2>7, <2>8, <2>9, <2>10, <2>11 DEF Next
    <2>. QED
      BY <2>12 DEF Covered
  <1>. QED
    BY <1>1, <1>2, TypeCorrect, BlockingIsOptIn, PTL DEF Spec
=============================================================================
