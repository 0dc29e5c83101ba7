-------------------------- MODULE DispatcherProofs --------------------------
(***************************************************************************)
(* Proofs about Dispatcher, for any clients and any capacity: its steps    *)
(* are steps of the queue, so what ConsumerQueueProofs shows of the queue  *)
(* holds in it; stop() and flush() keep what they promise, and the worker  *)
(* takes the items of a thread in their order.                             *)
(***************************************************************************)
EXTENDS Dispatcher, TLAPS, FiniteSetTheorems

QP == INSTANCE ConsumerQueueProofs WITH
        was_flushed <- q_was_flushed,
        Ops <- {"enqueue", "blockingEnqueue", "dequeue", "clear", "start"}

LEMMA QueueAssumed == QP!QueueAssumption
  <1>1. IsFiniteSet(Thread)
    BY FS_AddElement, DispatcherAssumption DEF Thread
  <1>2. QP!IsFiniteSet(Thread)
    BY <1>1 DEF IsFiniteSet, QP!IsFiniteSet
  <1>. QED
    BY <1>2, DispatcherAssumption DEF QP!QueueAssumption, QP!AllOps

\* The two instances of the queue are the same queue.
LEMMA SameTake ==
    ASSUME NEW t, NEW got
    PROVE  /\ Q!TakeFront(t, got) <=> QP!TakeFront(t, got)
           /\ Q!TakeOrSleep(t, got) <=> QP!TakeOrSleep(t, got)
  <1>1. Q!TakeFront(t, got) <=> QP!TakeFront(t, got)
    BY DEF Q!TakeFront, Q!NotifyOne, Q!At, Q!Moved,
           QP!TakeFront, QP!NotifyOne, QP!At, QP!Moved
  <1>. QED
    BY <1>1 DEF Q!TakeOrSleep, Q!Ready, QP!TakeOrSleep, QP!Ready

LEMMA SameQueue ==
    ASSUME NEW t, NEW x, NEW got
    PROVE  /\ Q!QueueInit <=> QP!QueueInit
           /\ Q!TypeOK <=> QP!TypeOK
           /\ Q!Returned = QP!Returned
           /\ Q!Enqueue(t, x) <=> QP!Enqueue(t, x)
           /\ Q!BlockingEnqueue(t, x) <=> QP!BlockingEnqueue(t, x)
           /\ Q!BlockingEnqueueResume(t) <=> QP!BlockingEnqueueResume(t)
           /\ Q!NotifyDequeuer(t) <=> QP!NotifyDequeuer(t)
           /\ Q!Dequeue(t, got) <=> QP!Dequeue(t, got)
           /\ Q!DequeueResume(t, got) <=> QP!DequeueResume(t, got)
           /\ Q!DequeueTimeout(t, got) <=> QP!DequeueTimeout(t, got)
           /\ Q!Clear(t) <=> QP!Clear(t)
           /\ Q!Start(t) <=> QP!Start(t)
           /\ Q!SpuriousWakeUp(t) <=> QP!SpuriousWakeUp(t)
  <1>1. Q!QueueInit <=> QP!QueueInit
    BY DEF Q!QueueInit, QP!QueueInit
  <1>2. Q!TypeOK <=> QP!TypeOK
    BY DEF Q!TypeOK, QP!TypeOK, Q!QueuePC, QP!QueuePC
  <1>3. Q!Returned = QP!Returned
    BY DEF Q!Returned, QP!Returned
  <1>4. Q!Enqueue(t, x) <=> QP!Enqueue(t, x)
    BY DEF Q!Enqueue, QP!Enqueue, Q!PushDroppingOldest, QP!PushDroppingOldest
  <1>5. Q!BlockingEnqueue(t, x) <=> QP!BlockingEnqueue(t, x)
    BY DEF Q!BlockingEnqueue, QP!BlockingEnqueue, Q!HasRoom, QP!HasRoom
  <1>6. Q!BlockingEnqueueResume(t) <=> QP!BlockingEnqueueResume(t)
    BY DEF Q!BlockingEnqueueResume, QP!BlockingEnqueueResume, Q!HasRoom, QP!HasRoom
  <1>7. Q!NotifyDequeuer(t) <=> QP!NotifyDequeuer(t)
    BY DEF Q!NotifyDequeuer, Q!NotifyOne, Q!At, Q!Moved,
           QP!NotifyDequeuer, QP!NotifyOne, QP!At, QP!Moved
  <1>8. Q!Dequeue(t, got) <=> QP!Dequeue(t, got)
    BY SameTake DEF Q!Dequeue, QP!Dequeue
  <1>9. Q!DequeueResume(t, got) <=> QP!DequeueResume(t, got)
    BY SameTake DEF Q!DequeueResume, QP!DequeueResume
  <1>10. Q!DequeueTimeout(t, got) <=> QP!DequeueTimeout(t, got)
    BY SameTake DEF Q!DequeueTimeout, QP!DequeueTimeout
  <1>11. Q!Clear(t) <=> QP!Clear(t)
    BY DEF Q!Clear, QP!Clear
  <1>12. Q!Start(t) <=> QP!Start(t)
    BY DEF Q!Start, QP!Start
  <1>13. Q!SpuriousWakeUp(t) <=> QP!SpuriousWakeUp(t)
    BY DEF Q!SpuriousWakeUp, QP!SpuriousWakeUp
  <1>. QED
    BY <1>1, <1>2, <1>3, <1>4, <1>5, <1>6, <1>7, <1>8, <1>9, <1>10, <1>11, <1>12, <1>13

\* A thread that carries an item carries one.
LEMMA ArgIsItem ==
    ASSUME TypeOK, NEW t \in Thread, call[t] \in {"invoke", "invoke_blocking", "enqueue"}
    PROVE  arg[t][1] \in Item /\ arg[t] = <<arg[t][1]>>
  BY DEF TypeOK

\* Every step of the dispatcher is a step of the queue or leaves it alone.
LEMMA QueueStep ==
    ASSUME TypeOK, [Next]_vars
    PROVE  [QP!Next]_(QP!qvars)
  <1> USE DEF queueVars, QP!qvars
  <1>0. CASE UNCHANGED vars
    BY <1>0 DEF vars
  <1>1. ASSUME NEW t \in Thread, InvokeEnqueue(t)
        PROVE  QP!Next
    BY <1>1, ArgIsItem, SameQueue DEF InvokeEnqueue, QP!Next
  <1>2. ASSUME NEW t \in Thread, InvokeResume(t) \/ InvokeNotify(t)
        PROVE  QP!Next
    BY <1>2, SameQueue DEF InvokeResume, InvokeNotify, QP!Next
  <1>3. ASSUME NEW t \in Client, StartQueue(t)
        PROVE  QP!Next
    BY <1>3, SameQueue DEF StartQueue, QP!Next, Thread
  <1>4. ASSUME NEW t \in Client, StopClear(t) \/ DestroyClear(t)
        PROVE  QP!Next
    BY <1>4, SameQueue DEF StopClear, DestroyClear, QP!Next, Thread
  <1>5. ASSUME WorkerDequeue \/ WorkerTimeout
        PROVE  QP!Next
    BY <1>5, SameQueue DEF WorkerDequeue, WorkerTimeout, QP!Next, Thread
  <1>6. ASSUME NEW t \in Thread, QueueSpuriousWakeUp(t)
        PROVE  QP!Next
    BY <1>6, SameQueue DEF QueueSpuriousWakeUp, QP!Next
  <1>7. ASSUME WorkerLoop \/ RunTask \/ RunSleep \/ SleepCancelled \/ SleepOver
                 \/ RunFlush \/ TouchInvoked \/ TouchCv \/ WorkerFlushed
        PROVE  UNCHANGED QP!qvars
    BY <1>7 DEF WorkerLoop, RunTask, RunSleep, SleepCancelled, SleepOver, RunFlush,
                TouchInvoked, TouchCv, WorkerFlushed
  <1>8. ASSUME NEW t \in Thread, NEW kind, NEW how,
               \/ Invoke(t, kind, how) \/ Flush(t) \/ FlushCheck(t) \/ FlushTimeout(t)
               \/ FlushSpuriousWakeUp(t)
        PROVE  UNCHANGED QP!qvars
    BY <1>8 DEF Invoke, Flush, FlushCheck, FlushTimeout, FlushReturn, FlushSpuriousWakeUp
  <1>9. ASSUME NEW t \in Client,
               \/ StartFlag(t) \/ Destroy(t) \/ StopFlag(t) \/ StopUnflush(t)
               \/ StopReturn(t) \/ DestroyKill(t) \/ DestroyJoin(t)
        PROVE  UNCHANGED QP!qvars
    BY <1>9 DEF StartFlag, Destroy, StopFlag, StopUnflush, StopReturn, DestroyKill,
                DestroyJoin
  <1>. QED
    BY <1>0, <1>1, <1>2, <1>3, <1>4, <1>5, <1>6, <1>7, <1>8, <1>9
       DEF Next, WorkerStep, CallStep, Timeouts, NewCall, Spurious, Thread

----------------------------------------------------------------------------
\* The part of TypeOK that is not about the queue.
OwnTypes ==
    /\ was_stopped \in BOOLEAN /\ was_flushed \in BOOLEAN
    /\ is_alive \in BOOLEAN /\ destroying \in BOOLEAN
    /\ wpc \in WorkerPC
    /\ running \in Seq(Item)
    /\ Len(running) = IF wpc \in {"run", "sleep", "touch", "touch_cv"} THEN 1 ELSE 0
    /\ call \in [Thread -> CallPC]
    /\ arg \in [Thread -> Seq(Item)]
    /\ \A t \in Thread : Len(arg[t]) =
          IF call[t] \in {"invoke", "invoke_blocking", "enqueue"} THEN 1 ELSE 0
    /\ invoked \in [Client -> BOOLEAN]
    /\ expired \subseteq Item
    /\ count \in [Thread -> Nat]
    /\ last \in [Thread -> Nat]
    /\ excused \subseteq Item
    /\ dirty \in [Client -> BOOLEAN]
    /\ abandoned \subseteq Client

LEMMA OneItem ==
    /\ <<>> \in Seq(Item) /\ Len(<<>>) = 0
    /\ \A x \in Item : <<x>> \in Seq(Item) /\ Len(<<x>>) = 1 /\ <<x>>[1] = x
  OBVIOUS

\* The running item.
LEMMA RunningIsItem ==
    ASSUME TypeOK, wpc \in {"run", "sleep", "touch", "touch_cv"}
    PROVE  running[1] \in Item /\ running[1].by \in Thread
  <1>1. running \in Seq(Item) /\ Len(running) = 1
    BY DEF TypeOK
  <1>2. running[1] \in Item
    BY <1>1
  <1>. QED
    BY <1>2 DEF Item

LEMMA NewItemType ==
    ASSUME TypeOK, NEW t \in Thread, NEW kind \in Kind
    PROVE  NewItem(t, kind) \in Item
  BY DEF TypeOK, Item, NewItem

LEMMA InHandsType ==
    ASSUME TypeOK
    PROVE  InHands \subseteq Item
  BY ArgIsItem DEF InHands

LEMMA OwnTypesStep ==
    ASSUME TypeOK, [Next]_vars
    PROVE  OwnTypes'
  <1>a. OwnTypes
    BY DEF TypeOK, OwnTypes
  <1> USE DEF WorkerPC, CallPC, Goto, Thread, flags, flushVars, history
  <1>0. CASE UNCHANGED vars
    BY <1>0, <1>a DEF vars, OwnTypes
  <1>1. ASSUME NEW t \in Thread, NEW kind \in Kind, NEW how \in {"invoke", "invoke_blocking"},
               Invoke(t, kind, how)
        PROVE  OwnTypes'
    <2>1. NewItem(t, kind) \in Item
      BY NewItemType
    <2>. QED
      BY <1>1, <1>a, <2>1, OneItem DEF Invoke, OwnTypes
  <1>2. ASSUME NEW t \in Thread, InvokeEnqueue(t)
        PROVE  OwnTypes'
    BY <1>2, <1>a DEF InvokeEnqueue, OwnTypes
  <1>3. ASSUME NEW t \in Thread, InvokeResume(t)
        PROVE  OwnTypes'
    BY <1>3, <1>a DEF InvokeResume, OwnTypes
  <1>4. ASSUME NEW t \in Thread, InvokeNotify(t)
        PROVE  OwnTypes'
    BY <1>4, <1>a, OneItem DEF InvokeNotify, OwnTypes
  <1>5. ASSUME NEW t \in Client, Flush(t)
        PROVE  OwnTypes'
    <2>1. NewItem(t, "flush") \in Item /\ <<NewItem(t, "flush")>> \in Seq(Item)
          /\ Len(<<NewItem(t, "flush")>>) = 1
      BY NewItemType, OneItem DEF Kind
    <2>2. call[t] = "out"
      BY <1>5 DEF Flush, MayCall
    <2>3. invoked' \in [Client -> BOOLEAN] /\ count' \in [Thread -> Nat]
      BY <1>5, <1>a DEF Flush, OwnTypes
    <2>4. /\ call' \in [Thread -> CallPC] /\ arg' \in [Thread -> Seq(Item)]
          /\ \A u \in Thread : Len(arg'[u]) =
                IF call'[u] \in {"invoke", "invoke_blocking", "enqueue"} THEN 1 ELSE 0
      <3>1. CASE was_stopped
        BY <1>5, <1>a, <2>2, <3>1 DEF Flush, OwnTypes
      <3>2. CASE ~was_stopped
        <4>1. /\ call' = [call EXCEPT ![t] = "invoke"]
              /\ arg' = [arg EXCEPT ![t] = <<NewItem(t, "flush")>>]
          BY <1>5, <3>2 DEF Flush
        <4> DEFINE item == <<NewItem(t, "flush")>>
        <4> HIDE DEF item
        <4>2. arg' = [arg EXCEPT ![t] = item] /\ item \in Seq(Item) /\ Len(item) = 1
          BY <2>1, <4>1 DEF item
        <4>3. call \in [Thread -> CallPC] /\ arg \in [Thread -> Seq(Item)]
          BY <1>a DEF OwnTypes
        <4>4. call' \in [Thread -> CallPC] /\ arg' \in [Thread -> Seq(Item)]
          BY <4>1, <4>2, <4>3
        <4>5. /\ call'[t] = "invoke" /\ arg'[t] = item
              /\ \A u \in Thread \ {t} : call'[u] = call[u] /\ arg'[u] = arg[u]
          BY <4>1, <4>2, <4>3
        <4>. QED
          BY <1>a, <4>2, <4>4, <4>5 DEF OwnTypes
      <3>. QED
        BY <3>1, <3>2
    <2>. QED
      BY <1>5, <1>a, <2>3, <2>4 DEF Flush, OwnTypes
  <1>6. ASSUME NEW t \in Client, NEW success, FlushReturn(t, success),
               call[t] \in {"flush_check", "flush_sleep"}
        PROVE  OwnTypes'
    <2>1. [by |-> t, n |-> count[t], kind |-> "flush"] \in Item
      BY <1>a DEF Item, Kind, OwnTypes
    <2>. QED
      BY <1>6, <1>a, <2>1 DEF FlushReturn, OwnTypes
  <1>7. ASSUME NEW t \in Client, FlushCheck(t)
        PROVE  OwnTypes'
    <2>1. CASE FlushDone(t)
      BY <1>6, <1>7, <2>1 DEF FlushCheck
    <2>2. CASE ~FlushDone(t)
      BY <1>7, <1>a, <2>2 DEF FlushCheck, OwnTypes
    <2>. QED
      BY <2>1, <2>2
  <1>8. ASSUME NEW t \in Client, FlushTimeout(t)
        PROVE  OwnTypes'
    BY <1>6, <1>8 DEF FlushTimeout
  <1>9. ASSUME NEW t \in Client, FlushSpuriousWakeUp(t)
        PROVE  OwnTypes'
    BY <1>9, <1>a DEF FlushSpuriousWakeUp, OwnTypes
  <1>10. ASSUME NEW t \in Client, StartFlag(t)
         PROVE  OwnTypes'
    BY <1>10, <1>a DEF StartFlag, MayCall, OwnTypes
  <1>11. ASSUME NEW t \in Client, StartQueue(t)
         PROVE  OwnTypes'
    BY <1>11, <1>a DEF StartQueue, OwnTypes
  <1>12. ASSUME NEW t \in Client, Destroy(t)
         PROVE  OwnTypes'
    BY <1>12, <1>a DEF Destroy, MayCall, OwnTypes
  <1>13. ASSUME NEW t \in Client, StopFlag(t)
         PROVE  OwnTypes'
    BY <1>13, <1>a DEF StopFlag, MayCall, OwnTypes
  <1>14. ASSUME NEW t \in Client, StopClear(t) \/ DestroyClear(t)
         PROVE  OwnTypes'
    <2>1. InHands \subseteq Item
      BY InHandsType
    <2>2. CASE StopClear(t)
      BY <1>a, <2>1, <2>2 DEF StopClear, OwnTypes
    <2>3. CASE DestroyClear(t)
      BY <1>a, <2>1, <2>3 DEF DestroyClear, OwnTypes
    <2>. QED
      BY <1>14, <2>2, <2>3
  <1>15. ASSUME NEW t \in Client, StopUnflush(t) \/ DestroyKill(t)
         PROVE  OwnTypes'
    BY <1>15, <1>a DEF StopUnflush, DestroyKill, OwnTypes
  <1>16. ASSUME NEW t \in Client, StopReturn(t) \/ DestroyJoin(t)
         PROVE  OwnTypes'
    BY <1>16, <1>a DEF StopReturn, DestroyJoin, OwnTypes
  <1>17. ASSUME WorkerLoop \/ WorkerFlushed
         PROVE  OwnTypes'
    BY <1>17, <1>a DEF WorkerLoop, WorkerFlushed, OwnTypes
  <1>18. ASSUME NEW got \in Q!Returned, AfterDequeue(got), qpc'[Worker] = "deq_wait" => got = <<>>
         PROVE  OwnTypes'
    <2>1. got \in Seq(Item) /\ (got = <<>> \/ (Len(got) = 1 /\ got[1] \in Item))
      <3>1. queue \in Seq(Item)
        BY DEF TypeOK, Q!TypeOK
      <3>2. queue # <<>> => Head(queue) \in Item
        BY <3>1
      <3>. QED
        BY <1>18, <3>2, OneItem DEF Q!Returned
    <2>2. got # <<>> => got[1].by \in Thread /\ got[1].n \in Nat
      BY <2>1 DEF Item
    <2>. QED
      BY <1>18, <1>a, <2>1, <2>2, OneItem DEF AfterDequeue, OwnTypes
  <1>19. ASSUME WorkerDequeue \/ WorkerTimeout
         PROVE  OwnTypes'
    <2>1. PICK got \in Q!Returned :
             /\ Q!Dequeue(Worker, got) \/ Q!DequeueResume(Worker, got) \/ Q!DequeueTimeout(Worker, got)
             /\ AfterDequeue(got)
      BY <1>19 DEF WorkerDequeue, WorkerTimeout
    <2>2. qpc \in [Thread -> Q!QueuePC]
      BY DEF TypeOK, Q!TypeOK
    <2>3. qpc'[Worker] = "deq_wait" => got = <<>>
      BY <2>1, <2>2 DEF Q!Dequeue, Q!DequeueResume, Q!DequeueTimeout, Q!TakeOrSleep,
                        Q!TakeFront, Q!Moved
    <2>. QED
      BY <1>18, <2>1, <2>3
  <1>20. ASSUME ItemEnds, UNCHANGED <<flags, arg, flushVars, count, last, excused>>,
                call' \in [Thread -> CallPC],
                \A t \in Thread : Len(arg[t]) =
                   IF call'[t] \in {"invoke", "invoke_blocking", "enqueue"} THEN 1 ELSE 0
         PROVE  OwnTypes'
    BY <1>20, <1>a, OneItem DEF ItemEnds, OwnTypes
  <1>21. ASSUME RunTask \/ SleepCancelled \/ SleepOver
         PROVE  OwnTypes'
    <2>1. UNCHANGED call
      BY <1>21 DEF RunTask, SleepCancelled, SleepOver
    <2>. QED
      BY <1>20, <1>21, <1>a, <2>1 DEF RunTask, SleepCancelled, SleepOver, OwnTypes
  <1>22. ASSUME RunSleep \/ RunFlush
         PROVE  OwnTypes'
    <2>1. CASE ItemEnds
      BY <1>20, <1>22, <1>a, <2>1 DEF RunSleep, RunFlush, OwnTypes
    <2>2. CASE ~ItemEnds
      BY <1>22, <1>a, <2>2 DEF RunSleep, RunFlush, OwnTypes
    <2>. QED
      BY <2>1, <2>2
  <1>23. ASSUME TouchInvoked
         PROVE  OwnTypes'
    BY <1>23, <1>a DEF TouchInvoked, OwnTypes
  <1>24. ASSUME TouchCv
         PROVE  OwnTypes'
    <2>1. /\ call' \in [Thread -> CallPC]
          /\ \A t \in Thread : Len(arg[t]) =
                IF call'[t] \in {"invoke", "invoke_blocking", "enqueue"} THEN 1 ELSE 0
      <3>1. running[1].by \in Thread
        BY <1>24, RunningIsItem DEF TouchCv
      <3>. QED
        BY <1>24, <1>a, <3>1 DEF TouchCv, OwnTypes
    <2>. QED
      BY <1>20, <1>24, <2>1 DEF TouchCv
  <1>25. ASSUME NEW t \in Thread, QueueSpuriousWakeUp(t)
         PROVE  OwnTypes'
    BY <1>25, <1>a DEF QueueSpuriousWakeUp, OwnTypes
  <1>. QED
    BY <1>0, <1>1, <1>2, <1>3, <1>4, <1>5, <1>7, <1>8, <1>9, <1>10, <1>11, <1>12, <1>13,
       <1>14, <1>15, <1>16, <1>17, <1>19, <1>21, <1>22, <1>23, <1>24, <1>25
       DEF Next, WorkerStep, CallStep, Timeouts, NewCall, Spurious, Kind

LEMMA TypeStep == TypeOK /\ [Next]_vars => TypeOK'
  <1> SUFFICES ASSUME TypeOK, [Next]_vars
               PROVE  TypeOK'
    OBVIOUS
  <1>1. QP!TypeOK
    BY SameQueue DEF TypeOK
  <1>2. QP!TypeOK'
    BY <1>1, QueueStep, QueueAssumed, QP!TypeStep
  <1>3. Q!TypeOK'
    BY <1>2 DEF Q!TypeOK, QP!TypeOK, Q!QueuePC, QP!QueuePC
  <1>. QED
    BY <1>3, OwnTypesStep DEF TypeOK, OwnTypes

\* The type invariant of the dispatcher and of the queue inside it.
THEOREM TypeCorrect == Spec => []TypeOK
  <1>1. Init => TypeOK
    <2> SUFFICES ASSUME Init PROVE TypeOK
      OBVIOUS
    <2>1. Q!TypeOK
      <3>1. /\ queue \in Seq(Item) /\ qitem \in [Thread -> Seq(Item)]
            /\ \A t \in Thread : Len(qitem[t]) = 0 /\ qpc[t] = "out"
        BY OneItem DEF Init, Q!QueueInit
      <3>. QED
        BY <3>1 DEF Init, Q!QueueInit, Q!TypeOK, Q!QueuePC
    <2>2. /\ running \in Seq(Item) /\ arg \in [Thread -> Seq(Item)]
          /\ Len(running) = 0 /\ \A t \in Thread : Len(arg[t]) = 0 /\ call[t] = "out"
      BY OneItem DEF Init
    <2>3. invoked \in [Client -> BOOLEAN] /\ dirty \in [Client -> BOOLEAN]
      BY DEF Init
    <2>4. call \in [Thread -> CallPC] /\ wpc \in WorkerPC /\ wpc = "loop"
      BY DEF Init, WorkerPC, CallPC
    <2>5. count \in [Thread -> Nat] /\ last \in [Thread -> Nat]
      BY DEF Init
    <2>6. /\ was_stopped \in BOOLEAN /\ was_flushed \in BOOLEAN /\ is_alive \in BOOLEAN
          /\ destroying \in BOOLEAN /\ expired \subseteq Item /\ excused \subseteq Item
          /\ abandoned \subseteq Client
      BY DEF Init
    <2>. QED
      BY <2>1, <2>2, <2>3, <2>4, <2>5, <2>6 DEF TypeOK
  <1>. QED
    BY <1>1, TypeStep, PTL DEF Spec

\* The dispatcher drives its queue only in the ways the queue allows.
THEOREM ImplementsQueue == Spec => QP!Spec
  <1>1. Init => QP!QueueInit
    BY SameQueue DEF Init
  <1>2. TypeOK /\ [Next]_vars => [QP!Next]_(QP!qvars)
    BY QueueStep
  <1>. QED
    BY <1>1, <1>2, TypeCorrect, PTL DEF Spec, QP!Spec

\* So the worker never sleeps through an item, no blocking invoke sleeps through
\* free room, and stop() leaves nobody asleep in the queue.
THEOREM NobodyForgotten ==
    Spec => [](QP!NoLostDequeueWakeUp /\ QP!NoLostEnqueueWakeUp /\ QP!FlushAbortsWaits)
  <1>1. ~({"popFront", "blockingEnqueue"} \subseteq
            {"enqueue", "blockingEnqueue", "dequeue", "clear", "start"})
    OBVIOUS
  <1>2. QP!Spec => []QP!NoLostDequeueWakeUp
    BY QueueAssumed, QP!NoDequeuerForgotten
  <1>3. QP!Spec => []QP!NoLostEnqueueWakeUp
    BY <1>1, QueueAssumed, QP!NoProducerForgotten
  <1>4. QP!Spec => []QP!FlushAbortsWaits
    BY QueueAssumed, QP!FlushAborts
  <1>. QED
    BY <1>2, <1>3, <1>4, ImplementsQueue, PTL

----------------------------------------------------------------------------
\* The strengthening: a thread's dirty mark stands for an item still running.
StopInv ==
    /\ \A t \in Client : dirty[t] => running # <<>>
    /\ StopWaitsForRunningItem

LEMMA StopInvariant == Spec => []StopInv
  <1>1. Init => StopInv
    BY DEF Init, StopInv, StopWaitsForRunningItem
  <1>2. TypeOK /\ StopInv /\ [Next]_vars => StopInv'
    <2> SUFFICES ASSUME TypeOK, StopInv, [Next]_vars
                 PROVE  StopInv'
      OBVIOUS
    <2> USE DEF StopInv, StopWaitsForRunningItem, Goto, flags, flushVars, history, Thread
    <2>a. call \in [Thread -> CallPC] /\ dirty \in [Client -> BOOLEAN]
      BY DEF TypeOK
    \* An item's end clears every mark.
    <2>b. ASSUME ItemEnds PROVE StopInv'
      BY <2>b DEF ItemEnds
    \* Steps that change nothing of it but the position of a thread not in stop_wait.
    <2>c. ASSUME NEW t \in Thread, NEW p, p # "stop_wait", Goto(t, p),
                 UNCHANGED <<dirty, running, was_flushed>>
          PROVE  StopInv'
      BY <2>a, <2>c
    <2>0. CASE UNCHANGED vars
      BY <2>0 DEF vars
    <2>1. ASSUME NEW t \in Thread, NEW kind, NEW how \in {"invoke", "invoke_blocking"},
                 Invoke(t, kind, how)
          PROVE  StopInv'
      BY <2>1, <2>c DEF Invoke
    <2>2. ASSUME NEW t \in Thread, InvokeEnqueue(t) \/ InvokeNotify(t)
          PROVE  StopInv'
      BY <2>2, <2>c DEF InvokeEnqueue, InvokeNotify
    <2>3. ASSUME NEW t \in Thread, InvokeResume(t) \/ QueueSpuriousWakeUp(t)
          PROVE  StopInv'
      BY <2>3 DEF InvokeResume, QueueSpuriousWakeUp
    <2>4. ASSUME NEW t \in Client,
                 Flush(t) \/ FlushCheck(t) \/ FlushTimeout(t) \/ FlushSpuriousWakeUp(t)
          PROVE  StopInv'
      BY <2>4, <2>c DEF Flush, FlushCheck, FlushTimeout, FlushReturn, FlushSpuriousWakeUp
    <2>5. ASSUME NEW t \in Client, StartFlag(t) \/ StartQueue(t) \/ Destroy(t) \/ StopFlag(t)
          PROVE  StopInv'
      BY <2>5, <2>c DEF StartFlag, StartQueue, Destroy, StopFlag
    <2>6. ASSUME NEW t \in Client, StopReturn(t) \/ DestroyClear(t) \/ DestroyKill(t) \/ DestroyJoin(t)
          PROVE  StopInv'
      BY <2>6, <2>c DEF StopReturn, DestroyClear, DestroyKill, DestroyJoin
    <2>7. ASSUME NEW t \in Client, StopClear(t)
          PROVE  StopInv'
      BY <2>7, <2>a DEF StopClear
    <2>8. ASSUME NEW t \in Client, StopUnflush(t)
          PROVE  StopInv'
      BY <2>8, <2>a DEF StopUnflush
    <2>9. CASE WorkerLoop
      BY <2>9 DEF WorkerLoop
    \* The worker takes an item when it has none, so that no mark is set.
    <2>10. ASSUME WorkerDequeue \/ WorkerTimeout
           PROVE  StopInv'
      <3>1. running = <<>>
        BY <2>10, OneItem DEF WorkerDequeue, WorkerTimeout, TypeOK
      <3>. QED
        BY <2>10, <3>1 DEF WorkerDequeue, WorkerTimeout, AfterDequeue
    <2>11. ASSUME RunTask \/ RunSleep \/ SleepCancelled \/ SleepOver \/ RunFlush
           PROVE  StopInv'
      BY <2>11, <2>b DEF RunTask, RunSleep, SleepCancelled, SleepOver, RunFlush
    <2>12. ASSUME TouchInvoked
           PROVE  StopInv'
      BY <2>12 DEF TouchInvoked
    <2>13. ASSUME TouchCv
           PROVE  StopInv'
      BY <2>13, <2>b DEF TouchCv
    <2>14. ASSUME WorkerFlushed
           PROVE  StopInv'
      <3>1. running = <<>>
        BY <2>14, OneItem DEF WorkerFlushed, TypeOK
      <3>. QED
        BY <2>14, <3>1 DEF WorkerFlushed
    <2>. QED
      BY <2>0, <2>1, <2>2, <2>3, <2>4, <2>5, <2>6, <2>7, <2>8, <2>9, <2>10, <2>11, <2>12,
         <2>13, <2>14 DEF Next, WorkerStep, CallStep, Timeouts, NewCall, Spurious
  <1>. QED
    BY <1>1, <1>2, TypeCorrect, PTL DEF Spec

\* stop() does not return while the item it found running still runs
\* (dispatcher.cc:29-42, 53-69), whoever else starts, stops or invokes meanwhile.
THEOREM StopWaits == Spec => []StopWaitsForRunningItem
  <1>1. StopInv => StopWaitsForRunningItem
    BY DEF StopInv
  <1>. QED
    BY <1>1, StopInvariant, PTL

----------------------------------------------------------------------------
\* Thread t has an item to push and is past the check of was_stopped_.
Holds(t) == \/ call[t] \in {"invoke", "invoke_blocking"}
            \/ call[t] = "enqueue" /\ qpc[t] \in {"enq_wait", "enq_woken"}

Drained == was_stopped /\ \A t \in Client : call[t] # "stop_clear"

\* The strengthening: what a producer still holds is excused too, and a producer
\* asleep in the queue pushes the item it was called with.
DrainInv ==
    /\ \A t \in Thread : call[t] = "enqueue" /\ qpc[t] \in {"enq_wait", "enq_woken"}
                             => qitem[t] = arg[t]
    /\ Drained => /\ \A t \in Thread : Holds(t) => arg[t][1] \in excused
                  /\ \A i \in DOMAIN queue : queue[i] \in excused

LEMMA InHandsHeld == \A x : x \in InHands <=> \E t \in Thread : Holds(t) /\ x = arg[t][1]
  BY DEF InHands, Holds

\* What is at some place of the queue after a push or a pop.
LEMMA QueueElements ==
    ASSUME NEW q \in Seq(Item), NEW r \in Seq(Item)
    PROVE  /\ \A i \in DOMAIN (q \o r) :
                 \/ i \in DOMAIN q /\ (q \o r)[i] = q[i]
                 \/ i - Len(q) \in DOMAIN r /\ (q \o r)[i] = r[i - Len(q)]
           /\ q # <<>> => \A i \in DOMAIN Tail(q) : i + 1 \in DOMAIN q /\ Tail(q)[i] = q[i + 1]
  OBVIOUS

LEMMA AppendElements ==
    ASSUME NEW q \in Seq(Item), NEW x \in Item
    PROVE  \A i \in DOMAIN Append(q, x) :
              \/ i \in DOMAIN q /\ Append(q, x)[i] = q[i]
              \/ Append(q, x)[i] = x
  OBVIOUS

LEMMA PushIsAppend ==
    ASSUME NEW q \in Seq(Item), NEW x \in Item
    PROVE  q \o <<x>> = Append(q, x)
  OBVIOUS

LEMMA PushElements ==
    ASSUME NEW q \in Seq(Item), NEW x \in Item, NEW E, x \in E,
           \A i \in DOMAIN q : q[i] \in E
    PROVE  \A i \in DOMAIN Q!PushDroppingOldest(q, x) : Q!PushDroppingOldest(q, x)[i] \in E
  <1>1. \A i \in DOMAIN Append(q, x) : Append(q, x)[i] \in E
    BY AppendElements
  <1>2. Append(q, x) \in Seq(Item) /\ Append(q, x) # <<>>
    OBVIOUS
  <1>3. \A i \in DOMAIN Tail(Append(q, x)) : Tail(Append(q, x))[i] \in E
    BY <1>1, <1>2, QueueElements
  <1>. QED
    BY <1>1, <1>3 DEF Q!PushDroppingOldest

LEMMA DrainInvariant == Spec => []DrainInv
  <1>1. Init => DrainInv
    BY DEF Init, Q!QueueInit, DrainInv, Drained, Holds
  <1>2. TypeOK /\ DrainInv /\ [Next]_vars => DrainInv'
    <2> SUFFICES ASSUME TypeOK, DrainInv, [Next]_vars
                 PROVE  DrainInv'
      OBVIOUS
    <2> USE DEF Goto, flags, flushVars, history, Thread, queueVars
    <2>a. /\ call \in [Thread -> CallPC] /\ queue \in Seq(Item)
          /\ qpc \in [Thread -> Q!QueuePC] /\ qitem \in [Thread -> Seq(Item)]
          /\ arg \in [Thread -> Seq(Item)]
      BY DEF TypeOK, Q!TypeOK
    \* The step adds nothing to the queue, to what is held or to what is excused.
    <2>b. ASSUME \A i \in DOMAIN queue' : \E j \in DOMAIN queue : queue'[i] = queue[j],
                 \A t \in Thread : Holds(t)' => Holds(t) /\ arg'[t] = arg[t],
                 \A t \in Thread : call'[t] = "enqueue" /\ qpc'[t] \in {"enq_wait", "enq_woken"} =>
                      /\ call[t] = "enqueue" /\ qpc[t] \in {"enq_wait", "enq_woken"}
                      /\ qitem'[t] = qitem[t] /\ arg'[t] = arg[t],
                 excused' = excused,
                 Drained' => Drained
          PROVE  DrainInv'
      BY <2>b DEF DrainInv
    \* Nor does a step that leaves the queue alone and only moves one thread.
    <2>c. ASSUME NEW t \in Thread, NEW p, p \notin {"invoke", "invoke_blocking", "enqueue"},
                 Goto(t, p), UNCHANGED <<queueVars, arg, excused>>,
                 was_stopped' => was_stopped \/ (p = "stop_clear" /\ t \in Client),
                 t \notin Client \/ call[t] # "stop_clear" \/ p = "stop_clear"
          PROVE  DrainInv'
      <3>1. \A u \in Thread : call'[u] = IF u = t THEN p ELSE call[u]
        BY <2>a, <2>c
      <3>2. \A u \in Thread : Holds(u)' => Holds(u) /\ arg'[u] = arg[u]
        BY <2>c, <3>1 DEF Holds
      <3>3. Drained' => Drained
        BY <2>c, <3>1 DEF Drained
      <3>4. \A i \in DOMAIN queue' : \E j \in DOMAIN queue : queue'[i] = queue[j]
        BY <2>c
      <3>. QED
        BY <2>b, <2>c, <3>1, <3>2, <3>3, <3>4
    <2>d. ASSUME UNCHANGED <<queueVars, call, arg, excused, was_stopped>>
          PROVE  DrainInv'
      BY <2>d DEF DrainInv, Drained, Holds
    <2>0. CASE UNCHANGED vars
      BY <2>0, <2>d DEF vars
    <2>1. ASSUME NEW t \in Thread, NEW kind, NEW how \in {"invoke", "invoke_blocking"},
                 Invoke(t, kind, how)
          PROVE  DrainInv'
      BY <2>1, <2>a DEF Invoke, DrainInv, Drained
    <2>2. ASSUME NEW t \in Thread, InvokeEnqueue(t)
          PROVE  DrainInv'
      <3>1. arg[t][1] \in Item /\ arg[t] = <<arg[t][1]>> /\ Holds(t)
        BY <2>2, ArgIsItem DEF InvokeEnqueue, Holds
      <3>2. ASSUME NEW u \in Thread, call'[u] = "enqueue", qpc'[u] \in {"enq_wait", "enq_woken"}
            PROVE  qitem'[u] = arg'[u] /\ Holds(u) /\ arg'[u] = arg[u]
        BY <2>2, <2>a, <3>1, <3>2
           DEF InvokeEnqueue, Q!Enqueue, Q!BlockingEnqueue, DrainInv, Holds
      <3>3. ASSUME Drained'
            PROVE  /\ \A u \in Thread : Holds(u)' => arg'[u][1] \in excused'
                   /\ \A i \in DOMAIN queue' : queue'[i] \in excused'
        <4>1. Drained /\ excused' = excused
          BY <2>2, <2>a, <3>3 DEF InvokeEnqueue, Drained
        <4>2. arg[t][1] \in excused /\ \A i \in DOMAIN queue : queue[i] \in excused
          BY <3>1, <4>1 DEF DrainInv
        <4>3. \A u \in Thread : Holds(u)' => Holds(u) /\ arg'[u] = arg[u]
          BY <2>2, <2>a, <3>2 DEF InvokeEnqueue, Holds
        <4>4. \/ queue' = queue \/ queue' = Append(queue, arg[t][1])
              \/ queue' = Q!PushDroppingOldest(queue, arg[t][1])
          BY <2>2 DEF InvokeEnqueue, Q!Enqueue, Q!BlockingEnqueue
        <4>5. \A i \in DOMAIN queue' : queue'[i] \in excused
          <5>1. CASE queue' = queue
            BY <4>2, <5>1
          <5>2. CASE queue' = Append(queue, arg[t][1])
            <6>1. \A i \in DOMAIN Append(queue, arg[t][1]) : Append(queue, arg[t][1])[i] \in excused
              BY <2>a, <3>1, <4>2, AppendElements
            <6>. QED
              BY <5>2, <6>1
          <5>3. CASE queue' = Q!PushDroppingOldest(queue, arg[t][1])
            <6>1. \A i \in DOMAIN Q!PushDroppingOldest(queue, arg[t][1]) :
                     Q!PushDroppingOldest(queue, arg[t][1])[i] \in excused
              BY <2>a, <3>1, <4>2, PushElements
            <6>. QED
              BY <5>3, <6>1
          <5>. QED
            BY <4>4, <5>1, <5>2, <5>3
        <4>. QED
          BY <4>1, <4>3, <4>5 DEF DrainInv
      <3>. QED
        BY <3>2, <3>3 DEF DrainInv
    <2>3. ASSUME NEW t \in Thread, InvokeResume(t)
          PROVE  DrainInv'
      <3>1. Holds(t) /\ qitem[t] = arg[t] /\ arg[t] = <<arg[t][1]>> /\ arg[t] \in Seq(Item)
        BY <2>3, <2>a, ArgIsItem DEF InvokeResume, Q!BlockingEnqueueResume, Holds, DrainInv
      <3>2. \A u \in Thread : Holds(u)' => Holds(u) /\ arg'[u] = arg[u]
        BY <2>3, <2>a DEF InvokeResume, Q!BlockingEnqueueResume, Holds
      <3>3. \A u \in Thread : call'[u] = "enqueue" /\ qpc'[u] \in {"enq_wait", "enq_woken"}
                  => qitem'[u] = arg'[u]
        BY <2>3, <2>a DEF InvokeResume, Q!BlockingEnqueueResume, DrainInv
      <3>4. ASSUME Drained'
            PROVE  /\ \A u \in Thread : Holds(u)' => arg'[u][1] \in excused'
                   /\ \A i \in DOMAIN queue' : queue'[i] \in excused'
        <4>1. Drained /\ excused' = excused
          BY <2>3, <3>4 DEF InvokeResume, Drained
        <4>2. arg[t][1] \in excused /\ \A i \in DOMAIN queue : queue[i] \in excused
          BY <3>1, <4>1 DEF DrainInv
        <4>3. queue' = queue \/ queue' = queue \o arg[t]
          BY <2>3, <3>1 DEF InvokeResume, Q!BlockingEnqueueResume
        <4>4. \A i \in DOMAIN arg[t] : arg[t][i] \in excused
          BY <3>1, <4>2
        <4>5. \A i \in DOMAIN queue' : queue'[i] \in excused
          <5>1. \A i \in DOMAIN (queue \o arg[t]) : (queue \o arg[t])[i] \in excused
            BY <2>a, <3>1, <4>2, <4>4, QueueElements
          <5>. QED
            BY <4>2, <4>3, <5>1
        <4>. QED
          BY <3>2, <4>1, <4>5 DEF DrainInv
      <3>. QED
        BY <3>3, <3>4 DEF DrainInv
    <2>4. ASSUME NEW t \in Thread, InvokeNotify(t)
          PROVE  DrainInv'
      <3>1. PICK S \in Q!NotifyOne(Q!At("deq_wait")) : qpc' = Q!Moved(t, "out", S, "deq_woken")
        BY <2>4 DEF InvokeNotify, Q!NotifyDequeuer
      <3>2. \A u \in Thread : qpc'[u] \in {"enq_wait", "enq_woken"} => u # t /\ qpc[u] = qpc'[u]
        BY <3>1 DEF Q!Moved
      <3>3. /\ queue' = queue /\ excused' = excused /\ qitem' = qitem
            /\ \A u \in Thread : u # t => call'[u] = call[u] /\ arg'[u] = arg[u]
            /\ call'[t] \in {"out", "flush_check"} /\ was_stopped' = was_stopped
            /\ call[t] = "enqueue"
        BY <2>4, <2>a DEF InvokeNotify, Q!NotifyDequeuer
      <3>. QED
        BY <2>b, <3>2, <3>3 DEF Holds, Drained
    <2>5. ASSUME NEW t \in Client, Flush(t)
          PROVE  DrainInv'
      <3>1. CASE was_stopped
        BY <2>5, <2>c, <3>1 DEF Flush, MayCall
      <3>2. CASE ~was_stopped
        BY <2>5, <2>a, <3>2 DEF Flush, DrainInv, Drained
      <3>. QED
        BY <3>1, <3>2
    <2>6. ASSUME NEW t \in Client, FlushCheck(t) \/ FlushTimeout(t) \/ FlushSpuriousWakeUp(t)
          PROVE  DrainInv'
      <3>1. /\ Goto(t, "out") \/ Goto(t, "flush_sleep") \/ Goto(t, "flush_check")
            /\ UNCHANGED <<queueVars, arg, excused, was_stopped>>
            /\ call[t] \in {"flush_check", "flush_sleep"}
        BY <2>6 DEF FlushCheck, FlushTimeout, FlushReturn, FlushSpuriousWakeUp
      <3>. QED
        BY <2>c, <3>1
    <2>7. ASSUME NEW t \in Client, StartFlag(t)
          PROVE  DrainInv'
      BY <2>7, <2>c DEF StartFlag, MayCall
    <2>8. ASSUME NEW t \in Client, StartQueue(t)
          PROVE  DrainInv'
      <3>1. UNCHANGED <<queue, qpc, qitem, arg, excused, was_stopped>>
        BY <2>8 DEF StartQueue, Q!Start
      <3>2. call[t] = "start_queue" /\ call' = [call EXCEPT ![t] = "out"]
        BY <2>8 DEF StartQueue
      <3>. QED
        BY <2>a, <2>b, <3>1, <3>2 DEF Holds, Drained
    <2>9. ASSUME NEW t \in Client, Destroy(t) \/ StopFlag(t)
          PROVE  DrainInv'
      <3>1. CASE Destroy(t)
        <4>1. /\ Goto(t, "dtor_stop") /\ call[t] = "out"
              /\ UNCHANGED <<queueVars, arg, excused, was_stopped>>
          BY <3>1 DEF Destroy, MayCall
        <4>. QED
          BY <2>c, <4>1
      <3>2. CASE StopFlag(t)
        <4>1. Goto(t, "stop_clear") /\ UNCHANGED <<queueVars, arg, excused>>
          BY <3>2 DEF StopFlag
        <4>. QED
          BY <2>c, <4>1
      <3>. QED
        BY <2>9, <3>1, <3>2
    <2>10. ASSUME NEW t \in Client, StopUnflush(t) \/ StopReturn(t) \/ DestroyKill(t) \/ DestroyJoin(t)
           PROVE  DrainInv'
      <3>1. /\ \E p \in {"stop_wait", "dtor_clear", "out", "dtor_join", "destroyed"} : Goto(t, p)
            /\ call[t] # "stop_clear"
            /\ UNCHANGED <<queueVars, arg, excused, was_stopped>>
        BY <2>10 DEF StopUnflush, StopReturn, DestroyKill, DestroyJoin
      <3>. QED
        BY <2>c, <3>1
    \* The clear: nothing queued, and what is held becomes what is excused.
    <2>11. ASSUME NEW t \in Client, StopClear(t) \/ DestroyClear(t)
           PROVE  DrainInv'
      <3>1. queue' = <<>> /\ qitem' = qitem /\ arg' = arg /\ excused' = InHands
        BY <2>11 DEF StopClear, DestroyClear, Q!Clear
      <3>2. \A u \in Thread : qpc'[u] \in {"enq_wait", "enq_woken"} => qpc[u] \in {"enq_wait", "enq_woken"}
        BY <2>11, <2>a DEF StopClear, DestroyClear, Q!Clear, Q!QueuePC
      <3>3. \A u \in Thread : call'[u] \in {"invoke", "invoke_blocking", "enqueue"} => call'[u] = call[u]
        BY <2>11, <2>a DEF StopClear, DestroyClear
      <3>4. \A u \in Thread : Holds(u)' => arg'[u][1] \in excused'
        BY <3>1, <3>2, <3>3, InHandsHeld DEF Holds
      <3>. QED
        BY <3>1, <3>2, <3>3, <3>4 DEF DrainInv
    <2>12. ASSUME WorkerDequeue \/ WorkerTimeout
           PROVE  DrainInv'
      <3>1. PICK got \in Q!Returned :
               /\ Q!Dequeue(Worker, got) \/ Q!DequeueResume(Worker, got) \/ Q!DequeueTimeout(Worker, got)
               /\ AfterDequeue(got)
        BY <2>12 DEF WorkerDequeue, WorkerTimeout
      <3>2. qitem' = qitem /\ UNCHANGED <<call, arg, excused, was_stopped>>
        BY <3>1 DEF Q!Dequeue, Q!DequeueResume, Q!DequeueTimeout, AfterDequeue
      <3>3. Q!TakeFront(Worker, got) \/ (queue' = queue /\ qpc' = [qpc EXCEPT ![Worker] = "deq_wait"])
        BY <3>1 DEF Q!Dequeue, Q!DequeueResume, Q!DequeueTimeout, Q!TakeOrSleep
      <3>4. \A i \in DOMAIN queue' : \E j \in DOMAIN queue : queue'[i] = queue[j]
        <4>1. queue' = queue \/ (queue # <<>> /\ queue' = Tail(queue))
          BY <3>3 DEF Q!TakeFront
        <4>2. CASE queue # <<>> /\ queue' = Tail(queue)
          <5>1. \A i \in DOMAIN Tail(queue) : i + 1 \in DOMAIN queue /\ Tail(queue)[i] = queue[i + 1]
            BY <2>a, <4>2, QueueElements
          <5>. QED
            BY <4>2, <5>1
        <4>. QED
          BY <4>1, <4>2
      <3>5. \A u \in Thread : qpc'[u] \in {"enq_wait", "enq_woken"} => qpc[u] \in {"enq_wait", "enq_woken"}
        <4>1. CASE qpc' = [qpc EXCEPT ![Worker] = "deq_wait"] \/ qpc' = [qpc EXCEPT ![Worker] = "out"]
          BY <2>a, <4>1
        <4>2. CASE \E S \in Q!NotifyOne(Q!At("enq_wait")) : qpc' = Q!Moved(Worker, "out", S, "enq_woken")
          <5>1. PICK S \in Q!NotifyOne(Q!At("enq_wait")) : qpc' = Q!Moved(Worker, "out", S, "enq_woken")
            BY <4>2
          <5>2. \A u \in S : qpc[u] = "enq_wait"
            BY <5>1 DEF Q!NotifyOne, Q!At
          <5>. QED
            BY <5>1, <5>2 DEF Q!Moved
        <4>. QED
          BY <3>3, <4>1, <4>2 DEF Q!TakeFront
      <3>. QED
        BY <2>b, <3>2, <3>4, <3>5 DEF Holds, Drained
    <2>13. ASSUME NEW t \in Thread, QueueSpuriousWakeUp(t)
           PROVE  DrainInv'
      <3>1. UNCHANGED <<queue, qitem, call, arg, excused, was_stopped>>
        BY <2>13 DEF QueueSpuriousWakeUp, Q!SpuriousWakeUp
      <3>2. \A u \in Thread : qpc'[u] \in {"enq_wait", "enq_woken"} => qpc[u] \in {"enq_wait", "enq_woken"}
        BY <2>13, <2>a DEF QueueSpuriousWakeUp, Q!SpuriousWakeUp
      <3>. QED
        BY <2>b, <3>1, <3>2 DEF Holds, Drained
    <2>14. ASSUME WorkerLoop \/ RunTask \/ RunSleep \/ SleepCancelled \/ SleepOver
                    \/ RunFlush \/ TouchInvoked \/ WorkerFlushed
           PROVE  DrainInv'
      BY <2>14, <2>d DEF WorkerLoop, RunTask, RunSleep, SleepCancelled, SleepOver, RunFlush,
                         TouchInvoked, WorkerFlushed
    <2>15. ASSUME TouchCv
           PROVE  DrainInv'
      <3>1. running[1].by \in Thread
        BY <2>15, RunningIsItem DEF TouchCv
      <3>2. UNCHANGED <<queueVars, arg, excused, was_stopped>>
        BY <2>15 DEF TouchCv
      <3>3. \/ UNCHANGED call
            \/ call[running[1].by] = "flush_sleep" /\ Goto(running[1].by, "flush_check")
        BY <2>15 DEF TouchCv
      <3>. QED
        BY <2>c, <2>d, <3>1, <3>2, <3>3
    <2>. QED
      BY <2>0, <2>1, <2>2, <2>3, <2>4, <2>5, <2>6, <2>7, <2>8, <2>9, <2>10, <2>11, <2>12,
         <2>13, <2>14, <2>15 DEF Next, WorkerStep, CallStep, Timeouts, NewCall, Spurious
  <1>. QED
    BY <1>1, <1>2, TypeCorrect, PTL DEF Spec

\* After stop() has cleared the queue, and until start(), every queued item was in
\* the hands of a producer that had passed invoke's check (dispatcher.h:52-58)
\* before the clear: whatever the worker does to accepting_, and however many
\* threads invoke, start and stop.
THEOREM StopDrainsQueue == Spec => []StopDrains
  <1>1. DrainInv => StopDrains
    BY DEF DrainInv, Drained, StopDrains
  <1>. QED
    BY <1>1, DrainInvariant, PTL

----------------------------------------------------------------------------
(* The order of the items *)

Carries(t) == call[t] \in {"invoke", "invoke_blocking", "enqueue"}
Busy == wpc \in {"run", "sleep", "touch", "touch_cv"}
InOrder(q) == \A i, j \in DOMAIN q : i < j /\ q[i].by = q[j].by => q[i].n < q[j].n

\* An invoke in progress carries the newest item of its thread; the queue holds the items of
\* a thread in the order it made them, all of them newer than what the worker has taken and,
\* while the thread has yet to push, older than what it carries.
OrderInv ==
    /\ \A t \in Thread : Carries(t) => arg[t][1].by = t /\ arg[t][1].n = count[t]
    /\ \A t \in Thread : last[t] <= count[t]
    /\ \A t \in Thread : Holds(t) =>
          last[t] < count[t] /\ \A i \in DOMAIN queue : queue[i].by = t => queue[i].n < count[t]
    /\ InOrder(queue)
    /\ \A i \in DOMAIN queue :
          last[queue[i].by] < queue[i].n /\ queue[i].n <= count[queue[i].by]
    /\ Busy => running[1].n = last[running[1].by]

LEMMA AppendInOrder ==
    ASSUME NEW q \in Seq(Item), NEW x \in Item, InOrder(q),
           \A i \in DOMAIN q : q[i].by = x.by => q[i].n < x.n
    PROVE  InOrder(Append(q, x))
  <1> SUFFICES ASSUME NEW i \in DOMAIN Append(q, x), NEW j \in DOMAIN Append(q, x), i < j,
                      Append(q, x)[i].by = Append(q, x)[j].by
               PROVE  Append(q, x)[i].n < Append(q, x)[j].n
    BY DEF InOrder
  <1>1. i \in 1..Len(q) + 1 /\ j \in 1..Len(q) + 1
    OBVIOUS
  <1>2. i \in DOMAIN q /\ Append(q, x)[i] = q[i]
    BY <1>1
  <1>3. CASE j = Len(q) + 1
    <2>1. Append(q, x)[j] = x
      BY <1>3
    <2>. QED
      BY <1>2, <2>1
  <1>4. CASE j # Len(q) + 1
    <2>1. j \in DOMAIN q /\ Append(q, x)[j] = q[j]
      BY <1>1, <1>4
    <2>. QED
      BY <1>2, <2>1 DEF InOrder
  <1>. QED
    BY <1>3, <1>4

LEMMA TailInOrder ==
    ASSUME NEW q \in Seq(Item), q # <<>>, InOrder(q)
    PROVE  /\ InOrder(Tail(q))
           /\ \A i \in DOMAIN Tail(q) : Tail(q)[i].by = q[1].by => q[1].n < Tail(q)[i].n
  <1>1. \A i \in DOMAIN Tail(q) : i \in Int /\ i >= 1 /\ i + 1 \in DOMAIN q /\ Tail(q)[i] = q[i + 1]
    OBVIOUS
  <1>2. 1 \in DOMAIN q
    OBVIOUS
  <1>3. InOrder(Tail(q))
    BY <1>1 DEF InOrder
  <1>4. \A i \in DOMAIN Tail(q) : Tail(q)[i].by = q[1].by => q[1].n < Tail(q)[i].n
    BY <1>1, <1>2 DEF InOrder
  <1>. QED
    BY <1>3, <1>4

\* The queue r after a producer of x has been at the queue q.
Pushed(q, x, r) == r = q \/ r = Append(q, x) \/ r = Q!PushDroppingOldest(q, x)

LEMMA PushedInOrder ==
    ASSUME NEW q \in Seq(Item), NEW x \in Item, NEW r, Pushed(q, x, r), InOrder(q),
           \A i \in DOMAIN q : q[i].by = x.by => q[i].n < x.n
    PROVE  InOrder(r) /\ \A i \in DOMAIN r : r[i] = x \/ \E j \in DOMAIN q : r[i] = q[j]
  <1> DEFINE more == Append(q, x)
  <1>1. InOrder(more) /\ more \in Seq(Item) /\ more # <<>>
    BY AppendInOrder
  <1>2. \A i \in DOMAIN more : more[i] = x \/ \E j \in DOMAIN q : more[i] = q[j]
    BY AppendElements
  <1> HIDE DEF more
  <1>3. InOrder(Tail(more))
    BY <1>1, TailInOrder
  <1>4. \A i \in DOMAIN Tail(more) : i + 1 \in DOMAIN more /\ Tail(more)[i] = more[i + 1]
    BY <1>1, QueueElements
  <1>5. \A i \in DOMAIN Tail(more) : Tail(more)[i] = x \/ \E j \in DOMAIN q : Tail(more)[i] = q[j]
    BY <1>2, <1>4
  <1>6. r = q \/ r = more \/ r = Tail(more)
    BY DEF Pushed, Q!PushDroppingOldest, more
  <1>. QED
    BY <1>1, <1>2, <1>3, <1>5, <1>6

\* What a producer's visit to the queue does.
LEMMA PushStep ==
    ASSUME TypeOK, DrainInv, NEW t \in Thread, InvokeEnqueue(t) \/ InvokeResume(t)
    PROVE  /\ Holds(t) /\ arg[t][1] \in Item /\ call'[t] = "enqueue" /\ arg' = arg
           /\ Pushed(queue, arg[t][1], queue')
           /\ Holds(t)' => queue' = queue
           /\ \A u \in Thread : u # t => call'[u] = call[u] /\ (Holds(u)' => Holds(u))
           /\ UNCHANGED <<flags, wpc, running, flushVars, history>>
  <1>a. /\ call \in [Thread -> CallPC] /\ queue \in Seq(Item) /\ qpc \in [Thread -> Q!QueuePC]
    BY DEF TypeOK, Q!TypeOK
  <1>1. Carries(t) /\ arg[t][1] \in Item /\ arg[t] = <<arg[t][1]>>
    BY ArgIsItem DEF InvokeEnqueue, InvokeResume, Carries
  <1>2. CASE InvokeEnqueue(t)
    <2>1. Holds(t)
      BY <1>2 DEF InvokeEnqueue, Holds
    <2>2. Pushed(queue, arg[t][1], queue') /\ (qpc'[t] \in {"enq_wait", "enq_woken"} => queue' = queue)
      BY <1>2, <1>a DEF InvokeEnqueue, Q!Enqueue, Q!BlockingEnqueue, Pushed
    <2>3. call' = [call EXCEPT ![t] = "enqueue"] /\ \A u \in Thread : u # t => qpc'[u] = qpc[u]
      BY <1>2, <1>a DEF InvokeEnqueue, Q!Enqueue, Q!BlockingEnqueue, Goto
    <2>. QED
      BY <1>2, <1>a, <1>1, <2>1, <2>2, <2>3 DEF InvokeEnqueue, Holds
  <1>3. CASE InvokeResume(t)
    <2>1. Holds(t) /\ qitem[t] = arg[t] /\ call[t] = "enqueue"
      BY <1>3 DEF InvokeResume, Q!BlockingEnqueueResume, Holds, DrainInv
    <2>2. queue \o arg[t] = Append(queue, arg[t][1])
      <3>1. queue \o <<arg[t][1]>> = Append(queue, arg[t][1])
        BY <1>a, <1>1, PushIsAppend
      <3>. QED
        BY <1>1, <3>1
    <2>3. Pushed(queue, arg[t][1], queue') /\ (qpc'[t] \in {"enq_wait", "enq_woken"} => queue' = queue)
      BY <1>3, <1>a, <2>1, <2>2 DEF InvokeResume, Q!BlockingEnqueueResume, Pushed
    <2>4. \A u \in Thread : u # t => qpc'[u] = qpc[u]
      BY <1>3, <1>a DEF InvokeResume, Q!BlockingEnqueueResume
    <2>. QED
      BY <1>3, <1>1, <2>1, <2>3, <2>4 DEF InvokeResume, Holds
  <1>. QED
    BY <1>2, <1>3

\* What the worker's visit to the queue does.
LEMMA TakeStep ==
    ASSUME TypeOK, WorkerDequeue \/ WorkerTimeout
    PROVE  /\ wpc = "dequeue" /\ UNCHANGED <<flags, call, arg, flushVars, count>>
           /\ \/ /\ queue' = queue /\ last' = last /\ running' = <<>>
                 /\ wpc' \in {"dequeue", "flushed"}
              \/ /\ queue # <<>> /\ queue' = Tail(queue) /\ queue[1] \in Item
                 /\ running' = <<queue[1]>> /\ running'[1] = queue[1] /\ wpc' = "run"
                 /\ last' = [last EXCEPT ![queue[1].by] = queue[1].n]
           /\ \A u \in Thread : Holds(u)' => Holds(u)
  <1>a. /\ call \in [Thread -> CallPC] /\ queue \in Seq(Item) /\ qpc \in [Thread -> Q!QueuePC]
    BY DEF TypeOK, Q!TypeOK
  <1>1. PICK got \in Q!Returned :
           /\ Q!Dequeue(Worker, got) \/ Q!DequeueResume(Worker, got) \/ Q!DequeueTimeout(Worker, got)
           /\ AfterDequeue(got)
    BY DEF WorkerDequeue, WorkerTimeout
  <1>2. Q!TakeFront(Worker, got) \/ (/\ queue' = queue /\ got = <<>>
                                     /\ qpc' = [qpc EXCEPT ![Worker] = "deq_wait"])
    BY <1>1 DEF Q!Dequeue, Q!DequeueResume, Q!DequeueTimeout, Q!TakeOrSleep
  <1>3. \A u \in Thread : qpc'[u] \in {"enq_wait", "enq_woken"} => qpc[u] \in {"enq_wait", "enq_woken"}
    BY <1>2, <1>a DEF Q!TakeFront, Q!NotifyOne, Q!At, Q!Moved
  <1>4. \A u \in Thread : Holds(u)' => Holds(u)
    BY <1>1, <1>3 DEF AfterDequeue, Holds
  <1>5. wpc = "dequeue" /\ UNCHANGED <<flags, call, arg, flushVars, count>>
    BY <1>1 DEF WorkerDequeue, WorkerTimeout, AfterDequeue
  <1>6. CASE got = <<>>
    <2>1. queue' = queue
      BY <1>2, <1>6 DEF Q!TakeFront
    <2>2. last' = last /\ running' = <<>>
      BY <1>1, <1>6 DEF AfterDequeue
    <2>3. wpc' \in {"dequeue", "flushed"}
      <3>1. qpc'[Worker] = "deq_wait" => wpc' = "dequeue"
        BY <1>1, <1>6 DEF AfterDequeue
      <3>2. qpc'[Worker] # "deq_wait" => wpc' = "flushed"
        BY <1>1, <1>6 DEF AfterDequeue
      <3>. QED
        BY <3>1, <3>2
    <2>. QED
      BY <1>4, <1>5, <2>1, <2>2, <2>3
  <1>7. CASE got # <<>>
    <2>1. queue # <<>> /\ queue' = Tail(queue) /\ got = <<Head(queue)>> /\ qpc'[Worker] = "out"
      BY <1>2, <1>7, <1>a DEF Q!TakeFront, Q!Moved, Thread
    <2>2. Head(queue) = queue[1] /\ queue[1] \in Item
      BY <1>a, <2>1
    <2>3. got = <<queue[1]>> /\ got[1] = queue[1]
      BY <2>1, <2>2
    <2>4. running' = got /\ last' = [last EXCEPT ![got[1].by] = got[1].n]
      BY <1>1, <1>7 DEF AfterDequeue
    <2>5. wpc' = "run"
      <3>1. qpc'[Worker] # "deq_wait"
        BY <2>1
      <3>. QED
        BY <1>1, <1>7, <3>1 DEF AfterDequeue
    <2>. QED
      BY <1>4, <1>5, <2>1, <2>2, <2>3, <2>4, <2>5
  <1>. QED
    BY <1>6, <1>7

LEMMA OrderInvariant == Spec => []OrderInv
  <1>1. Init => OrderInv
    BY DEF Init, Q!QueueInit, OrderInv, Carries, Holds, Busy, InOrder
  <1>2. TypeOK /\ DrainInv /\ OrderInv /\ [Next]_vars => OrderInv'
    <2> SUFFICES ASSUME TypeOK, DrainInv, OrderInv, [Next]_vars
                 PROVE  OrderInv'
      OBVIOUS
    <2> USE DEF Goto, flags, flushVars, history, Thread, queueVars
    <2>a. /\ call \in [Thread -> CallPC] /\ arg \in [Thread -> Seq(Item)]
          /\ queue \in Seq(Item) /\ qpc \in [Thread -> Q!QueuePC]
          /\ count \in [Thread -> Nat] /\ last \in [Thread -> Nat]
      BY DEF TypeOK, Q!TypeOK
    <2>b. \A i \in DOMAIN queue : queue[i] \in Item /\ queue[i].by \in Thread /\ queue[i].n \in Nat
      <3>1. \A i \in DOMAIN queue : queue[i] \in Item
        BY <2>a
      <3>. QED
        BY <3>1 DEF Item
    \* No item is made, queued or taken.
    <2>c. ASSUME queue' = queue \/ queue' = <<>>, UNCHANGED <<count, last>>,
                 Busy' => Busy /\ running' = running,
                 \A u \in Thread : Carries(u)' => Carries(u) /\ arg'[u] = arg[u],
                 \A u \in Thread : Holds(u)' => Holds(u)
          PROVE  OrderInv'
      BY <2>c DEF OrderInv, InOrder
    \* One thread moves, and carries nothing then.
    <2>d. ASSUME NEW t \in Thread, NEW p, p \notin {"invoke", "invoke_blocking", "enqueue"},
                 Goto(t, p), \A u \in Thread : u # t => arg'[u] = arg[u],
                 \A u \in Thread : u # t /\ qpc'[u] \in {"enq_wait", "enq_woken"}
                                      => qpc[u] \in {"enq_wait", "enq_woken"},
                 queue' = queue \/ queue' = <<>>,
                 UNCHANGED <<count, last>>, Busy' => Busy /\ running' = running
          PROVE  OrderInv'
      <3>1. \A u \in Thread : call'[u] = IF u = t THEN p ELSE call[u]
        BY <2>a, <2>d
      <3>2. \A u \in Thread : Carries(u)' => Carries(u) /\ arg'[u] = arg[u]
        BY <2>d, <3>1 DEF Carries
      <3>3. \A u \in Thread : Holds(u)' => Holds(u)
        BY <2>d, <3>1 DEF Holds
      <3>. QED
        BY <2>c, <2>d, <3>2, <3>3
    <2>e. ASSUME UNCHANGED <<queue, count, last, call, qpc, arg>>,
                 Busy' => Busy /\ running' = running
          PROVE  OrderInv'
      BY <2>c, <2>e DEF Carries, Holds
    \* A thread numbers its next item, and carries it or not.
    <2>f. ASSUME NEW t \in Thread, call[t] = "out",
                 count' = [count EXCEPT ![t] = @ + 1],
                 UNCHANGED <<queue, last, qpc, wpc, running>>,
                 \A u \in Thread : u # t => call'[u] = call[u] /\ arg'[u] = arg[u],
                 Carries(t)' => arg'[t][1].by = t /\ arg'[t][1].n = count[t] + 1
          PROVE  OrderInv'
      <3>1. count'[t] = count[t] + 1 /\ \A u \in Thread : u # t => count'[u] = count[u]
        BY <2>a, <2>f
      <3>2. count[t] \in Nat /\ \A u \in Thread : last[u] \in Nat /\ count[u] \in Nat
        BY <2>a
      <3>3. \A u \in Thread : Carries(u)' => arg'[u][1].by = u /\ arg'[u][1].n = count'[u]
        BY <2>f, <3>1 DEF OrderInv, Carries
      <3>4. \A u \in Thread : last'[u] <= count'[u]
        BY <2>f, <3>1, <3>2 DEF OrderInv
      <3>5. \A i \in DOMAIN queue' :
               last'[queue'[i].by] < queue'[i].n /\ queue'[i].n <= count'[queue'[i].by]
        BY <2>b, <2>f, <3>1, <3>2 DEF OrderInv
      <3>6. \A i \in DOMAIN queue : queue[i].by = t => queue[i].n < count'[t]
        BY <2>b, <3>1, <3>2 DEF OrderInv
      <3>7. last[t] < count'[t]
        BY <3>1, <3>2 DEF OrderInv
      <3>8. \A u \in Thread : u # t /\ Holds(u)' => Holds(u)
        BY <2>f DEF Holds
      <3>9. \A u \in Thread : Holds(u)' => last'[u] < count'[u] /\
               \A i \in DOMAIN queue' : queue'[i].by = u => queue'[i].n < count'[u]
        BY <2>f, <3>1, <3>6, <3>7, <3>8 DEF OrderInv
      <3>10. InOrder(queue)' /\ (Busy' => running'[1].n = last'[running'[1].by])
        BY <2>f DEF OrderInv, InOrder, Busy
      <3>. QED
        BY <3>3, <3>4, <3>5, <3>9, <3>10 DEF OrderInv
    <2>0. CASE UNCHANGED vars
      BY <2>0, <2>e DEF vars, Busy
    <2>1. ASSUME NEW t \in Thread, NEW kind, NEW how \in {"invoke", "invoke_blocking"},
                 Invoke(t, kind, how)
          PROVE  OrderInv'
      <3>1. arg'[t][1].by = t /\ arg'[t][1].n = count[t] + 1
        BY <2>1, <2>a DEF Invoke, NewItem
      <3>. QED
        BY <2>1, <2>a, <2>f, <3>1 DEF Invoke, MayCall
    <2>2. ASSUME NEW t \in Client, Flush(t)
          PROVE  OrderInv'
      <3>1. Carries(t)' => arg'[t][1].by = t /\ arg'[t][1].n = count[t] + 1
        BY <2>2, <2>a DEF Flush, NewItem, Carries
      <3>. QED
        BY <2>2, <2>a, <2>f, <3>1 DEF Flush, MayCall
    <2>3. ASSUME NEW t \in Thread, InvokeEnqueue(t) \/ InvokeResume(t)
          PROVE  OrderInv'
      <3> DEFINE x == arg[t][1]
      <3>1. /\ Holds(t) /\ x \in Item /\ call'[t] = "enqueue" /\ arg' = arg
            /\ Pushed(queue, x, queue')
            /\ Holds(t)' => queue' = queue
            /\ \A u \in Thread : u # t => call'[u] = call[u] /\ (Holds(u)' => Holds(u))
            /\ UNCHANGED <<wpc, running, count, last>>
        BY <2>3, PushStep
      <3>2. Carries(t) /\ x.by = t /\ x.n = count[t] /\ last[t] < count[t]
        BY <3>1 DEF Holds, Carries, OrderInv
      <3>3. \A i \in DOMAIN queue : queue[i].by = t => queue[i].n < x.n
        BY <3>1, <3>2 DEF OrderInv
      <3> HIDE DEF x
      <3>4. InOrder(queue') /\ \A i \in DOMAIN queue' : queue'[i] = x \/ \E j \in DOMAIN queue : queue'[i] = queue[j]
        BY <2>a, <3>1, <3>2, <3>3, PushedInOrder DEF OrderInv
      <3>5. \A u \in Thread : Carries(u)' => Carries(u)
        BY <3>1, <3>2 DEF Carries
      <3>6. \A u \in Thread : Holds(u)' => Holds(u)
        BY <3>1
      <3>7. \A i \in DOMAIN queue' :
               last[queue'[i].by] < queue'[i].n /\ queue'[i].n <= count[queue'[i].by]
        <4>1. last[x.by] < x.n /\ x.n <= count[x.by]
          BY <2>a, <3>2
        <4>. QED
          BY <3>4, <4>1 DEF OrderInv
      <3>8. ASSUME NEW u \in Thread, Holds(u)', NEW i \in DOMAIN queue', queue'[i].by = u
            PROVE  queue'[i].n < count[u]
        <4>1. CASE u = t
          BY <3>1, <3>8, <4>1 DEF OrderInv
        <4>2. CASE u # t
          BY <3>2, <3>4, <3>6, <3>8, <4>2 DEF OrderInv
        <4>. QED
          BY <4>1, <4>2
      <3>. QED
        BY <3>1, <3>4, <3>5, <3>6, <3>7, <3>8 DEF OrderInv, Busy, InOrder
    <2>4. ASSUME NEW t \in Thread, InvokeNotify(t)
          PROVE  OrderInv'
      <3>1. PICK S \in Q!NotifyOne(Q!At("deq_wait")) : qpc' = Q!Moved(t, "out", S, "deq_woken")
        BY <2>4 DEF InvokeNotify, Q!NotifyDequeuer
      <3>2. \A u \in Thread : qpc'[u] \in {"enq_wait", "enq_woken"} => qpc[u] \in {"enq_wait", "enq_woken"}
        BY <3>1 DEF Q!Moved
      <3>3. /\ Goto(t, "out") \/ Goto(t, "flush_check")
            /\ UNCHANGED <<queue, count, last, wpc, running>>
            /\ \A u \in Thread : u # t => arg'[u] = arg[u]
        BY <2>4, <2>a DEF InvokeNotify, Q!NotifyDequeuer
      <3>. QED
        BY <2>d, <3>2, <3>3 DEF Busy
    <2>5. ASSUME NEW t \in Client,
                 \/ FlushCheck(t) \/ FlushTimeout(t) \/ FlushSpuriousWakeUp(t)
                 \/ StartFlag(t) \/ Destroy(t) \/ StopFlag(t)
                 \/ StopUnflush(t) \/ StopReturn(t) \/ DestroyKill(t) \/ DestroyJoin(t)
          PROVE  OrderInv'
      <3>1. /\ \E p \in CallPC \ {"invoke", "invoke_blocking", "enqueue"} : Goto(t, p)
            /\ UNCHANGED <<queue, qpc, arg, count, last, wpc, running>>
        BY <2>5 DEF FlushCheck, FlushTimeout, FlushReturn, FlushSpuriousWakeUp, StartFlag,
                    Destroy, StopFlag, StopUnflush, StopReturn, DestroyKill, DestroyJoin, CallPC
      <3>. QED
        BY <2>d, <3>1 DEF Busy
    <2>6. ASSUME NEW t \in Client, StartQueue(t)
          PROVE  OrderInv'
      <3>1. Goto(t, "out") /\ UNCHANGED <<queue, qpc, arg, count, last, wpc, running>>
        BY <2>6 DEF StartQueue, Q!Start
      <3>. QED
        BY <2>d, <3>1 DEF Busy
    <2>7. ASSUME NEW t \in Client, StopClear(t) \/ DestroyClear(t)
          PROVE  OrderInv'
      <3>1. /\ Goto(t, "stop_unflush") \/ Goto(t, "dtor_kill")
            /\ queue' = <<>> /\ UNCHANGED <<arg, count, last, wpc, running>>
        BY <2>7 DEF StopClear, DestroyClear, Q!Clear
      <3>2. \A u \in Thread : qpc'[u] \in {"enq_wait", "enq_woken"} => qpc[u] \in {"enq_wait", "enq_woken"}
        BY <2>7, <2>a DEF StopClear, DestroyClear, Q!Clear, Q!QueuePC
      <3>. QED
        BY <2>d, <3>1, <3>2 DEF Busy
    <2>8. ASSUME WorkerDequeue \/ WorkerTimeout
          PROVE  OrderInv'
      <3>1. /\ UNCHANGED <<call, arg, count>> /\ \A u \in Thread : Holds(u)' => Holds(u)
            /\ \/ /\ queue' = queue /\ last' = last /\ wpc' \in {"dequeue", "flushed"}
               \/ /\ queue # <<>> /\ queue' = Tail(queue) /\ running'[1] = queue[1]
                  /\ last' = [last EXCEPT ![queue[1].by] = queue[1].n]
        BY <2>8, TakeStep
      <3>2. CASE queue' = queue /\ last' = last /\ wpc' \in {"dequeue", "flushed"}
        BY <2>c, <3>1, <3>2 DEF Busy, Carries
      <3>3. CASE /\ queue # <<>> /\ queue' = Tail(queue) /\ running'[1] = queue[1]
                 /\ last' = [last EXCEPT ![queue[1].by] = queue[1].n]
        <4>1. /\ queue[1].by \in Thread /\ queue[1].n \in Nat
              /\ last[queue[1].by] < queue[1].n /\ queue[1].n <= count[queue[1].by]
          <5>1. 1 \in DOMAIN queue
            BY <2>a, <3>3
          <5>. QED
            BY <2>b, <5>1 DEF OrderInv
        <4>2. /\ last'[queue[1].by] = queue[1].n
              /\ \A u \in Thread : u # queue[1].by => last'[u] = last[u]
          BY <2>a, <3>3, <4>1
        <4>3. \A i \in DOMAIN queue' : i + 1 \in DOMAIN queue /\ queue'[i] = queue[i + 1]
          BY <2>a, <3>3, QueueElements
        <4>4. /\ InOrder(queue')
              /\ \A i \in DOMAIN queue' : queue'[i].by = queue[1].by => queue[1].n < queue'[i].n
          BY <2>a, <3>3, TailInOrder DEF OrderInv
        <4>5. \A u \in Thread : last'[u] <= count'[u]
          BY <3>1, <4>1, <4>2 DEF OrderInv
        <4>6. ASSUME NEW i \in DOMAIN queue'
              PROVE  last'[queue'[i].by] < queue'[i].n /\ queue'[i].n <= count'[queue'[i].by]
          <5>1. queue'[i].by \in Thread /\ last[queue'[i].by] < queue'[i].n
                   /\ queue'[i].n <= count[queue'[i].by]
            BY <2>b, <4>3, <4>6 DEF OrderInv
          <5>. QED
            BY <3>1, <4>2, <4>4, <4>6, <5>1
        <4>7. ASSUME NEW u \in Thread, Holds(u)'
              PROVE  /\ last'[u] < count'[u]
                     /\ \A i \in DOMAIN queue' : queue'[i].by = u => queue'[i].n < count'[u]
          <5>1. Holds(u) /\ count' = count
            BY <3>1, <4>7
          <5>2. last[u] < count[u] /\ \A i \in DOMAIN queue : queue[i].by = u => queue[i].n < count[u]
            BY <5>1 DEF OrderInv
          <5>3. \A i \in DOMAIN queue' : queue'[i].by = u => queue'[i].n < count[u]
            BY <4>3, <5>2
          <5>4. 1 \in DOMAIN queue
            BY <2>a, <3>3
          <5>5. last'[u] < count[u]
            BY <4>2, <5>2, <5>4
          <5>. QED
            BY <5>1, <5>3, <5>5
        <4>8. running'[1].n = last'[running'[1].by]
          BY <3>3, <4>2
        <4>9. \A u \in Thread : Carries(u)' => arg'[u][1].by = u /\ arg'[u][1].n = count'[u]
          BY <3>1 DEF OrderInv, Carries
        <4>. QED
          BY <4>4, <4>5, <4>6, <4>7, <4>8, <4>9 DEF OrderInv, InOrder
      <3>. QED
        BY <3>1, <3>2, <3>3
    <2>9. ASSUME NEW t \in Thread, QueueSpuriousWakeUp(t)
          PROVE  OrderInv'
      <3>1. UNCHANGED <<queue, call, arg, count, last, wpc, running>>
        BY <2>9 DEF QueueSpuriousWakeUp, Q!SpuriousWakeUp
      <3>2. \A u \in Thread : qpc'[u] \in {"enq_wait", "enq_woken"} => qpc[u] \in {"enq_wait", "enq_woken"}
        BY <2>9, <2>a DEF QueueSpuriousWakeUp, Q!SpuriousWakeUp
      <3>. QED
        BY <2>c, <3>1, <3>2 DEF Holds, Carries, Busy
    <2>10. ASSUME WorkerLoop \/ RunTask \/ RunSleep \/ SleepCancelled \/ SleepOver
                    \/ RunFlush \/ TouchInvoked \/ WorkerFlushed
           PROVE  OrderInv'
      <3>1. UNCHANGED <<queue, count, last, call, qpc, arg>>
        BY <2>10 DEF WorkerLoop, RunTask, RunSleep, SleepCancelled, SleepOver, RunFlush,
                     TouchInvoked, WorkerFlushed
      <3>2. Busy' => Busy /\ running' = running
        BY <2>10 DEF WorkerLoop, RunTask, RunSleep, SleepCancelled, SleepOver, RunFlush,
                     TouchInvoked, WorkerFlushed, ItemEnds, Busy
      <3>. QED
        BY <2>e, <3>1, <3>2
    <2>11. ASSUME TouchCv
           PROVE  OrderInv'
      <3>1. running[1].by \in Thread
        BY <2>11, RunningIsItem DEF TouchCv
      <3>2. UNCHANGED <<queue, qpc, arg, count, last>> /\ ~Busy'
        BY <2>11 DEF TouchCv, ItemEnds, Busy
      <3>3. UNCHANGED call \/ Goto(running[1].by, "flush_check")
        BY <2>11 DEF TouchCv
      <3>. QED
        BY <2>d, <2>e, <3>1, <3>2, <3>3
    <2>. QED
      BY <2>0, <2>1, <2>2, <2>3, <2>4, <2>5, <2>6, <2>7, <2>8, <2>9, <2>10, <2>11
         DEF Next, WorkerStep, CallStep, Timeouts, NewCall, Spurious
  <1>. QED
    BY <1>1, <1>2, TypeCorrect, DrainInvariant, PTL DEF Spec

\* The worker takes the items of a thread in the order it invoked them and none twice,
\* whatever was dropped, blocked or cleared in between
\* (dispatcher.cc:26-36, consumer_queue.h:35-74).
THEOREM WorkerRunsInOrder == Spec => RunsInOrder
  <1>1. TypeOK /\ OrderInv /\ [Next]_vars =>
            [wpc = "dequeue" /\ running' # <<>> => running'[1].n > last[running'[1].by]]_vars
    <2> SUFFICES ASSUME TypeOK, OrderInv, Next, wpc = "dequeue", running' # <<>>
                 PROVE  running'[1].n > last[running'[1].by]
      OBVIOUS
    <2>1. CASE WorkerDequeue \/ WorkerTimeout
      <3>1. queue # <<>> /\ running'[1] = queue[1] /\ queue \in Seq(Item) /\ queue[1] \in Item
        BY <2>1, TakeStep DEF TypeOK, Q!TypeOK
      <3>2. 1 \in DOMAIN queue
        BY <3>1
      <3>3. last[queue[1].by] < queue[1].n
        BY <3>2 DEF OrderInv
      <3>4. last[queue[1].by] \in Nat /\ queue[1].n \in Nat
        BY <3>1 DEF TypeOK, Item
      <3>. QED
        BY <3>1, <3>3, <3>4
    <2>2. CASE ~(WorkerDequeue \/ WorkerTimeout)
      <3>1. running = <<>>
        BY DEF TypeOK
      <3>2. running' = running \/ running' = <<>>
        <4>1. WorkerStep => running' = running \/ running' = <<>>
          BY <2>2 DEF WorkerStep, WorkerLoop, RunTask, RunSleep, SleepCancelled, RunFlush,
                      TouchInvoked, TouchCv, WorkerFlushed, ItemEnds
        <4>2. ASSUME NEW t \in Thread, CallStep(t)
              PROVE  running' = running
          BY <4>2 DEF CallStep, InvokeEnqueue, InvokeResume, InvokeNotify, FlushCheck,
                      FlushReturn, StartQueue, StopFlag, StopClear, StopUnflush, StopReturn,
                      DestroyClear, DestroyKill, DestroyJoin
        <4>3. Timeouts => running' = running \/ running' = <<>>
          BY <2>2 DEF Timeouts, SleepOver, FlushTimeout, FlushReturn, ItemEnds
        <4>4. NewCall \/ Spurious => running' = running
          BY DEF NewCall, Invoke, Flush, StartFlag, Destroy, StopFlag, Spurious,
                 QueueSpuriousWakeUp, FlushSpuriousWakeUp
        <4>. QED
          BY <4>1, <4>2, <4>3, <4>4 DEF Next
      <3>. QED
        BY <3>1, <3>2
    <2>. QED
      BY <2>1, <2>2
  <1>. QED
    BY <1>1, TypeCorrect, OrderInvariant, PTL DEF Spec, RunsInOrder

----------------------------------------------------------------------------
(* flush *)

IsFlush(x, t) == x.by = t /\ x.kind = "flush"
Awaited(t, x) == x.n = count[t] /\ InFlush(t) /\ ~invoked[t]

\* As long as no flush() of a thread has been abandoned, a lambda of it that is on its way
\* belongs to the flush() the thread is in, and that flush() has not seen it run yet; once it
\* has, nothing older is queued or running.
FlushOf(t) ==
    t \notin abandoned =>
        /\ \A i \in DOMAIN queue : IsFlush(queue[i], t) => Awaited(t, queue[i])
        /\ wpc \in {"run", "touch"} /\ IsFlush(running[1], t) => Awaited(t, running[1])
        /\ Holds(t) /\ arg[t][1].kind = "flush" => ~invoked[t]
        /\ InFlush(t) /\ invoked[t] => FlushedBefore(t)

FlushInv ==
    /\ \A t \in Client : FlushOf(t)
    /\ wpc \in {"touch", "touch_cv"} => running[1].kind = "flush"

LEMMA FlushInvariant == Spec => []FlushInv
  <1>1. Init => FlushInv
    BY DEF Init, Q!QueueInit, FlushInv, FlushOf, Holds, InFlush, FlushedBefore
  <1>2. TypeOK /\ DrainInv /\ OrderInv /\ FlushInv /\ [Next]_vars => FlushInv'
    <2> SUFFICES ASSUME TypeOK, DrainInv, OrderInv, FlushInv, [Next]_vars
                 PROVE  FlushInv'
      OBVIOUS
    <2> USE DEF Goto, flags, flushVars, history, Thread, queueVars
    <2>a. /\ call \in [Thread -> CallPC] /\ arg \in [Thread -> Seq(Item)]
          /\ queue \in Seq(Item) /\ qpc \in [Thread -> Q!QueuePC]
          /\ count \in [Thread -> Nat] /\ last \in [Thread -> Nat]
          /\ invoked \in [Client -> BOOLEAN]
      BY DEF TypeOK, Q!TypeOK
    <2>b. \A i \in DOMAIN queue : queue[i] \in Item /\ queue[i].n \in Nat
      <3>1. \A i \in DOMAIN queue : queue[i] \in Item
        BY <2>a
      <3>. QED
        BY <3>1 DEF Item
    \* The flush() of thread u goes on as before.
    <2>c. ASSUME NEW u \in Client, u \in abandoned => u \in abandoned', count'[u] = count[u],
                 InFlush(u)' <=> InFlush(u), invoked'[u] = invoked[u],
                 \A i \in DOMAIN queue' : \E j \in DOMAIN queue : queue'[i] = queue[j],
                 wpc' \in {"run", "touch"} => wpc \in {"run", "touch"} /\ running' = running,
                 wpc' \in {"run", "sleep"} => wpc \in {"run", "sleep"} /\ running' = running,
                 Holds(u)' => Holds(u) /\ arg'[u] = arg[u]
          PROVE  FlushOf(u)'
      <3> SUFFICES ASSUME u \notin abandoned'
                   PROVE  FlushOf(u)'
        BY DEF FlushOf
      <3>1. FlushOf(u) /\ u \notin abandoned
        BY <2>c DEF FlushInv
      <3>2. \A i \in DOMAIN queue' : IsFlush(queue'[i], u) => Awaited(u, queue[i])'
        BY <2>c, <3>1 DEF FlushOf, Awaited, IsFlush
      <3>3. wpc' \in {"run", "touch"} /\ IsFlush(running'[1], u) => Awaited(u, running[1])'
        BY <2>c, <3>1 DEF FlushOf, Awaited, IsFlush
      <3>4. InFlush(u)' /\ invoked'[u] => FlushedBefore(u)'
        BY <2>c, <3>1 DEF FlushOf, FlushedBefore
      <3>. QED
        BY <2>c, <3>1, <3>2, <3>3, <3>4 DEF FlushOf, IsFlush
    \* A thread in no flush() has no lambda on its way.
    <2>d. ASSUME NEW u \in Client, u \notin abandoned, ~InFlush(u)
          PROVE  /\ \A i \in DOMAIN queue : ~IsFlush(queue[i], u)
                 /\ wpc \in {"run", "touch"} => ~IsFlush(running[1], u)
      BY <2>d DEF FlushInv, FlushOf, Awaited
    \* Steps that leave the queue, the worker and what the threads carry alone, and move
    \* one thread.
    <2>e. ASSUME NEW t \in Thread, NEW p, Goto(t, p), UNCHANGED <<qpc, arg, flushVars, count>>,
                 wpc' = wpc, running' = running, queue' = queue,
                 \/ call[t] \in {"flush_check", "flush_sleep"} /\ p \in {"flush_check", "flush_sleep"}
                 \/ /\ call[t] \notin {"invoke", "invoke_blocking", "enqueue", "flush_check", "flush_sleep"}
                    /\ p \notin {"invoke", "invoke_blocking", "enqueue", "flush_check", "flush_sleep"}
          PROVE  FlushInv'
      <3>1. \A u \in Thread : call'[u] = IF u = t THEN p ELSE call[u]
        BY <2>a, <2>e
      <3>2. \A u \in Client : InFlush(u)' <=> InFlush(u)
        BY <2>e, <3>1 DEF InFlush
      <3>3. \A u \in Client : Holds(u)' => Holds(u)
        BY <2>e, <3>1 DEF Holds
      <3>4. \A u \in Client : FlushOf(u)'
        BY <2>c, <2>e, <3>2, <3>3
      <3>. QED
        BY <2>e, <3>4 DEF FlushInv
    \* Steps of the worker that touch no flush().
    <2>f. ASSUME UNCHANGED <<queue, call, qpc, arg, flushVars, count>>,
                 \/ wpc' \in {"loop", "dequeue", "flushed", "exited"}
                 \/ wpc = "run" /\ wpc' = "sleep" /\ running' = running
                 \/ wpc = "run" /\ running[1].kind = "flush" /\ wpc' = "touch" /\ running' = running
                 \/ wpc' = wpc /\ running' = running
          PROVE  FlushInv'
      <3>1. \A u \in Client : FlushOf(u)'
        BY <2>c, <2>f DEF InFlush, Holds
      <3>. QED
        BY <2>f, <3>1 DEF FlushInv
    <2>0. CASE UNCHANGED vars
      BY <2>0, <2>f DEF vars
    <2>1. ASSUME NEW t \in Thread, NEW kind \in {"task", "sleep"},
                 NEW how \in {"invoke", "invoke_blocking"}, Invoke(t, kind, how)
          PROVE  FlushInv'
      <3>1. /\ call[t] = "out" /\ call' = [call EXCEPT ![t] = how]
            /\ arg' = [arg EXCEPT ![t] = <<NewItem(t, kind)>>]
            /\ count' = [count EXCEPT ![t] = @ + 1]
            /\ UNCHANGED <<queue, qpc, flushVars, wpc, running>>
        BY <2>1 DEF Invoke, MayCall
      <3>2. arg'[t][1].kind # "flush" /\ call'[t] = how
        BY <2>a, <3>1 DEF NewItem
      <3>3. ASSUME NEW u \in Client, u # t
            PROVE  FlushOf(u)'
        BY <2>a, <2>c, <3>1, <3>3 DEF InFlush, Holds
      <3>4. ASSUME t \in Client
            PROVE  FlushOf(t)'
        <4>1. ~InFlush(t) /\ ~InFlush(t)'
          BY <3>1, <3>2 DEF InFlush
        <4>. QED
          BY <2>d, <3>1, <3>2, <3>4, <4>1 DEF FlushOf
      <3>. QED
        BY <3>1, <3>3, <3>4 DEF FlushInv
    <2>2. ASSUME NEW t \in Client, Flush(t)
          PROVE  FlushInv'
      <3>1. /\ call[t] = "out" /\ invoked'[t] = FALSE
            /\ \A u \in Thread : u # t => call'[u] = call[u] /\ arg'[u] = arg[u] /\ count'[u] = count[u]
            /\ \A u \in Client : u # t => invoked'[u] = invoked[u]
            /\ UNCHANGED <<queue, qpc, abandoned, wpc, running>>
        BY <2>2, <2>a DEF Flush, MayCall
      <3>2. ASSUME NEW u \in Client, u # t
            PROVE  FlushOf(u)'
        BY <2>c, <3>1, <3>2 DEF InFlush, Holds
      <3>3. FlushOf(t)'
        <4>1. ~InFlush(t)
          BY <3>1 DEF InFlush
        <4>. QED
          BY <2>d, <3>1, <4>1 DEF FlushOf
      <3>. QED
        BY <3>1, <3>2, <3>3 DEF FlushInv
    <2>3. ASSUME NEW t \in Thread, InvokeEnqueue(t) \/ InvokeResume(t)
          PROVE  FlushInv'
      <3> DEFINE x == arg[t][1]
      <3>1. /\ Holds(t) /\ x \in Item /\ call'[t] = "enqueue" /\ arg' = arg
            /\ Pushed(queue, x, queue')
            /\ \A u \in Thread : u # t => call'[u] = call[u] /\ (Holds(u)' => Holds(u))
            /\ UNCHANGED <<wpc, running, count, abandoned, invoked>>
        BY <2>3, PushStep
      <3>2. x.by = t /\ x.n = count[t]
        BY <3>1 DEF Holds, Carries, OrderInv
      <3>3. \A i \in DOMAIN queue : queue[i].by = t => queue[i].n < x.n
        BY <3>1, <3>2 DEF OrderInv
      <3> HIDE DEF x
      <3>4. \A i \in DOMAIN queue' : queue'[i] = x \/ \E j \in DOMAIN queue : queue'[i] = queue[j]
        <4>1. InOrder(queue) /\ \A i \in DOMAIN queue : queue[i].by = x.by => queue[i].n < x.n
          BY <3>2, <3>3 DEF OrderInv
        <4>2. queue \in Seq(Item) /\ x \in Item /\ Pushed(queue, x, queue')
          BY <2>a, <3>1
        <4>3. /\ InOrder(queue')
              /\ \A i \in DOMAIN queue' : queue'[i] = x \/ \E j \in DOMAIN queue : queue'[i] = queue[j]
          BY <4>1, <4>2, PushedInOrder
        <4>. QED
          BY <4>3
      <3> USE DEF x
      <3>5. ASSUME NEW u \in Client, u # t
            PROVE  FlushOf(u)'
        <4> SUFFICES ASSUME u \notin abandoned
                     PROVE  FlushOf(u)'
          BY <3>1 DEF FlushOf
        <4>1. InFlush(u)' <=> InFlush(u)
          BY <3>1, <3>5 DEF InFlush
        <4>2. FlushOf(u) /\ (Holds(u)' => Holds(u))
          BY <3>1, <3>5 DEF FlushInv
        <4>3. \A i \in DOMAIN queue' : queue'[i].by = u => \E j \in DOMAIN queue : queue'[i] = queue[j]
          BY <3>2, <3>4, <3>5
        <4>4. \A i \in DOMAIN queue' : IsFlush(queue'[i], u) => Awaited(u, queue[i])'
          BY <3>1, <4>1, <4>2, <4>3 DEF FlushOf, IsFlush, Awaited
        <4>5. wpc' \in {"run", "touch"} /\ IsFlush(running'[1], u) => Awaited(u, running[1])'
          BY <3>1, <4>1, <4>2 DEF FlushOf, IsFlush, Awaited
        <4>6. InFlush(u)' /\ invoked'[u] => FlushedBefore(u)'
          BY <3>1, <4>1, <4>2, <4>3 DEF FlushOf, FlushedBefore
        <4>. QED
          BY <3>1, <4>2, <4>4, <4>5, <4>6 DEF FlushOf, IsFlush
      <3>6. ASSUME t \in Client
            PROVE  FlushOf(t)'
        <4> SUFFICES ASSUME t \notin abandoned
                     PROVE  FlushOf(t)'
          BY <3>1 DEF FlushOf
        <4>1. FlushOf(t)
          BY <3>6 DEF FlushInv
        <4>2. CASE x.kind = "flush"
          <5>1. ~invoked[t] /\ InFlush(t)'
            BY <3>1, <4>1, <4>2 DEF FlushOf, InFlush
          <5>2. \A i \in DOMAIN queue' : IsFlush(queue'[i], t) => Awaited(t, queue[i])'
            BY <3>1, <3>2, <3>4, <4>1, <5>1 DEF FlushOf, IsFlush, Awaited
          <5>3. wpc' \in {"run", "touch"} /\ IsFlush(running'[1], t) => Awaited(t, running[1])'
            BY <3>1, <4>1, <5>1 DEF FlushOf, IsFlush, Awaited
          <5>. QED
            BY <3>1, <5>1, <5>2, <5>3 DEF FlushOf, IsFlush
        <4>3. CASE x.kind # "flush"
          <5>1. ~InFlush(t) /\ ~InFlush(t)'
            BY <3>1, <4>3 DEF InFlush, Holds
          <5>2. \A i \in DOMAIN queue' : ~IsFlush(queue'[i], t)
            BY <2>d, <3>4, <3>6, <4>3, <5>1 DEF IsFlush
          <5>3. wpc \in {"run", "touch"} => ~IsFlush(running[1], t)
            BY <2>d, <3>6, <5>1
          <5>. QED
            BY <3>1, <4>3, <5>1, <5>2, <5>3 DEF FlushOf
        <4>. QED
          BY <4>2, <4>3
      <3>. QED
        BY <3>1, <3>5, <3>6 DEF FlushInv
    <2>4. ASSUME NEW t \in Thread, InvokeNotify(t)
          PROVE  FlushInv'
      <3>1. PICK S \in Q!NotifyOne(Q!At("deq_wait")) : qpc' = Q!Moved(t, "out", S, "deq_woken")
        BY <2>4 DEF InvokeNotify, Q!NotifyDequeuer
      <3>2. \A u \in Thread : qpc'[u] \in {"enq_wait", "enq_woken"} => qpc[u] \in {"enq_wait", "enq_woken"}
        BY <3>1 DEF Q!Moved
      <3>3. /\ call[t] = "enqueue" /\ UNCHANGED <<queue, count, wpc, running, flushVars>>
            /\ call'[t] = IF arg[t][1].kind = "flush" THEN "flush_check" ELSE "out"
            /\ \A u \in Thread : u # t => arg'[u] = arg[u] /\ call'[u] = call[u]
        BY <2>4, <2>a DEF InvokeNotify, Q!NotifyDequeuer
      <3>4. \A u \in Client : InFlush(u)' <=> InFlush(u)
        BY <3>3 DEF InFlush
      <3>5. \A u \in Client : Holds(u)' => Holds(u) /\ arg'[u] = arg[u]
        BY <3>2, <3>3 DEF Holds
      <3>6. \A u \in Client : FlushOf(u)'
        BY <2>c, <3>3, <3>4, <3>5
      <3>. QED
        BY <3>3, <3>6 DEF FlushInv
    \* flush() returns: it has seen its lambda, or it abandons it.
    <2>5. ASSUME NEW t \in Client, NEW success, FlushReturn(t, success),
                 call[t] \in {"flush_check", "flush_sleep"}
          PROVE  FlushInv'
      <3>1. /\ call'[t] = "out" /\ \A u \in Thread : u # t => call'[u] = call[u]
            /\ UNCHANGED <<queue, qpc, arg, invoked, count, wpc, running>>
            /\ abandoned \subseteq abandoned' /\ (~invoked[t] => t \in abandoned')
        BY <2>5, <2>a DEF FlushReturn
      <3>2. ASSUME NEW u \in Client, u # t
            PROVE  FlushOf(u)'
        BY <2>c, <3>1, <3>2 DEF InFlush, Holds
      <3>3. FlushOf(t)'
        <4> SUFFICES ASSUME t \notin abandoned'
                     PROVE  FlushOf(t)'
          BY DEF FlushOf
        <4>1. invoked[t] /\ t \notin abandoned /\ FlushOf(t)
          BY <3>1 DEF FlushInv
        <4>2. ~InFlush(t)' /\ ~Holds(t)'
          BY <3>1 DEF InFlush, Holds
        <4>3. /\ \A i \in DOMAIN queue : ~IsFlush(queue[i], t)
              /\ wpc \in {"run", "touch"} => ~IsFlush(running[1], t)
          BY <4>1 DEF FlushOf, Awaited
        <4>. QED
          BY <3>1, <4>2, <4>3 DEF FlushOf
      <3>. QED
        BY <3>1, <3>2, <3>3 DEF FlushInv
    <2>6. ASSUME NEW t \in Client, FlushCheck(t) \/ FlushTimeout(t) \/ FlushSpuriousWakeUp(t)
          PROVE  FlushInv'
      <3>1. CASE FlushCheck(t)
        <4>1. CASE FlushDone(t)
          BY <2>5, <3>1, <4>1 DEF FlushCheck
        <4>2. CASE ~FlushDone(t)
          BY <2>e, <3>1, <4>2 DEF FlushCheck
        <4>. QED
          BY <4>1, <4>2
      <3>2. CASE FlushTimeout(t)
        BY <2>5, <3>2 DEF FlushTimeout
      <3>3. CASE FlushSpuriousWakeUp(t)
        BY <2>e, <3>3 DEF FlushSpuriousWakeUp
      <3>. QED
        BY <2>6, <3>1, <3>2, <3>3
    <2>7. ASSUME NEW t \in Client,
                 \/ StartFlag(t) \/ Destroy(t) \/ StopFlag(t)
                 \/ StopUnflush(t) \/ StopReturn(t) \/ DestroyKill(t) \/ DestroyJoin(t)
          PROVE  FlushInv'
      <3>1. /\ \E p \in CallPC \ {"invoke", "invoke_blocking", "enqueue", "flush_check", "flush_sleep"} : Goto(t, p)
            /\ call[t] \notin {"invoke", "invoke_blocking", "enqueue", "flush_check", "flush_sleep"}
            /\ UNCHANGED <<queue, qpc, arg, count, flushVars, wpc, running>>
        BY <2>7 DEF StartFlag, Destroy, StopFlag, MayCall, StopUnflush, StopReturn, DestroyKill,
                    DestroyJoin, CallPC
      <3>. QED
        BY <2>e, <3>1
    <2>8. ASSUME NEW t \in Client, StartQueue(t)
          PROVE  FlushInv'
      <3>1. /\ Goto(t, "out") /\ call[t] = "start_queue"
            /\ UNCHANGED <<queue, qpc, arg, count, flushVars, wpc, running>>
        BY <2>8 DEF StartQueue, Q!Start
      <3>. QED
        BY <2>e, <3>1
    <2>9. ASSUME NEW t \in Client, StopClear(t) \/ DestroyClear(t)
          PROVE  FlushInv'
      <3>1. /\ call[t] \in {"stop_clear", "dtor_clear"} /\ call'[t] \in {"stop_unflush", "dtor_kill"}
            /\ \A u \in Thread : u # t => call'[u] = call[u]
            /\ queue' = <<>> /\ UNCHANGED <<arg, count, flushVars, wpc, running>>
        BY <2>9, <2>a DEF StopClear, DestroyClear, Q!Clear
      <3>2. \A u \in Thread : qpc'[u] \in {"enq_wait", "enq_woken"} => qpc[u] \in {"enq_wait", "enq_woken"}
        BY <2>9, <2>a DEF StopClear, DestroyClear, Q!Clear, Q!QueuePC
      <3>3. \A u \in Client : (InFlush(u)' <=> InFlush(u)) /\ (Holds(u)' => Holds(u))
        BY <3>1, <3>2 DEF InFlush, Holds
      <3>4. \A u \in Client : FlushOf(u)'
        BY <2>c, <3>1, <3>3
      <3>. QED
        BY <3>1, <3>4 DEF FlushInv
    <2>10. ASSUME WorkerDequeue \/ WorkerTimeout
           PROVE  FlushInv'
      <3>1. /\ UNCHANGED <<call, arg, count, flushVars>>
            /\ \A u \in Thread : Holds(u)' => Holds(u)
            /\ \/ queue' = queue /\ wpc' \in {"dequeue", "flushed"}
               \/ queue # <<>> /\ queue' = Tail(queue) /\ running'[1] = queue[1] /\ wpc' = "run"
        BY <2>10, TakeStep
      <3>2. \A u \in Client : InFlush(u)' <=> InFlush(u)
        BY <3>1 DEF InFlush
      <3>3. CASE queue' = queue /\ wpc' \in {"dequeue", "flushed"}
        <4>1. \A u \in Client : FlushOf(u)'
          BY <2>c, <3>1, <3>2, <3>3
        <4>. QED
          BY <3>3, <4>1 DEF FlushInv
      <3>4. CASE queue # <<>> /\ queue' = Tail(queue) /\ running'[1] = queue[1] /\ wpc' = "run"
        <4>1. 1 \in DOMAIN queue
          BY <2>a, <3>4
        <4>2. \A i \in DOMAIN queue' : \E j \in DOMAIN queue : queue'[i] = queue[j]
          BY <2>a, <3>4, QueueElements
        <4>3. ASSUME NEW u \in Client, u \notin abandoned
              PROVE  FlushOf(u)'
          <5>1. FlushOf(u)
            BY <4>3 DEF FlushInv
          <5>2. \A i \in DOMAIN queue' : IsFlush(queue'[i], u) => Awaited(u, queue[i])'
            BY <3>1, <3>2, <4>2, <4>3, <5>1 DEF FlushOf, IsFlush, Awaited
          <5>3. IsFlush(running'[1], u) => Awaited(u, running[1])'
            BY <3>1, <3>2, <3>4, <4>1, <4>3, <5>1 DEF FlushOf, IsFlush, Awaited
          <5>4. InFlush(u)' /\ invoked'[u] => FlushedBefore(u)'
            BY <3>1, <3>2, <3>4, <4>1, <4>2, <4>3, <5>1 DEF FlushOf, FlushedBefore
          <5>. QED
            BY <3>1, <5>1, <5>2, <5>3, <5>4, <4>3 DEF FlushOf, IsFlush
        <4>4. \A u \in Client : FlushOf(u)'
          BY <3>1, <4>3 DEF FlushOf
        <4>. QED
          BY <3>4, <4>4 DEF FlushInv
      <3>. QED
        BY <3>1, <3>3, <3>4
    <2>11. ASSUME NEW t \in Thread, QueueSpuriousWakeUp(t)
           PROVE  FlushInv'
      <3>1. UNCHANGED <<queue, call, arg, count, flushVars, wpc, running>>
        BY <2>11 DEF QueueSpuriousWakeUp, Q!SpuriousWakeUp
      <3>2. \A u \in Thread : qpc'[u] \in {"enq_wait", "enq_woken"} => qpc[u] \in {"enq_wait", "enq_woken"}
        BY <2>11, <2>a DEF QueueSpuriousWakeUp, Q!SpuriousWakeUp
      <3>3. \A u \in Client : FlushOf(u)'
        BY <2>c, <3>1, <3>2 DEF Holds, InFlush
      <3>. QED
        BY <3>1, <3>3 DEF FlushInv
    <2>12. ASSUME WorkerLoop \/ RunTask \/ RunSleep \/ SleepCancelled \/ SleepOver
                    \/ RunFlush \/ WorkerFlushed
           PROVE  FlushInv'
      <3>1. UNCHANGED <<queue, call, qpc, arg, flushVars, count>>
        BY <2>12 DEF WorkerLoop, RunTask, RunSleep, SleepCancelled, SleepOver, RunFlush,
                     WorkerFlushed
      <3>2. \/ wpc' \in {"loop", "dequeue", "flushed", "exited"}
            \/ wpc = "run" /\ wpc' = "sleep" /\ running' = running
            \/ wpc = "run" /\ running[1].kind = "flush" /\ wpc' = "touch" /\ running' = running
        BY <2>12 DEF WorkerLoop, RunTask, RunSleep, SleepCancelled, SleepOver, RunFlush,
                     WorkerFlushed, ItemEnds
      <3>. QED
        BY <2>f, <3>1, <3>2
    \* The lambda runs: it is the newest item of its thread, so nothing older is left.
    <2>13. ASSUME TouchInvoked
           PROVE  FlushInv'
      <3> DEFINE t == running[1].by
      <3>1. /\ wpc = "touch" /\ wpc' = "touch_cv" /\ running' = running
            /\ UNCHANGED <<queue, call, qpc, arg, count, last, abandoned>>
            /\ \/ (InOwnFlush(running[1]) \/ InFlush(t)) /\ invoked' = [invoked EXCEPT ![t] = TRUE]
               \/ ~InOwnFlush(running[1]) /\ invoked' = invoked
        BY <2>13 DEF TouchInvoked
      <3>2. running[1].kind = "flush" /\ running[1].n = last[t] /\ t \in Thread
        BY <3>1, RunningIsItem DEF FlushInv, OrderInv, Busy
      <3>3. ASSUME NEW u \in Client, u # t
            PROVE  FlushOf(u)'
        BY <2>a, <2>c, <3>1, <3>3 DEF InFlush, Holds
      <3>4. ASSUME NEW u \in Client, u = t, u \notin abandoned
            PROVE  FlushOf(u)'
        <4>1. Awaited(u, running[1])
          BY <3>1, <3>2, <3>4 DEF FlushInv, FlushOf, IsFlush
        <4>2. count[u] = last[u] /\ InFlush(u) /\ count[u] \in Nat
          BY <2>a, <3>2, <3>4, <4>1 DEF Awaited
        <4>3. \A i \in DOMAIN queue : queue[i].by = u => last[u] < queue[i].n /\ queue[i].n <= count[u]
          BY DEF OrderInv
        <4>4. \A i \in DOMAIN queue : queue[i].by # u
          BY <2>b, <4>2, <4>3
        <4>5. ~Holds(u)
          BY <4>2 DEF OrderInv
        <4>6. \A i \in DOMAIN queue' : queue'[i].by # u
          BY <3>1, <4>4
        <4>7. ~Holds(u)'
          BY <3>1, <4>5 DEF Holds
        <4>. QED
          BY <3>1, <4>6, <4>7 DEF FlushOf, IsFlush, FlushedBefore
      <3>5. \A u \in Client : FlushOf(u)'
        BY <3>1, <3>3, <3>4 DEF FlushOf
      <3>. QED
        BY <3>1, <3>2, <3>5 DEF FlushInv
    <2>14. ASSUME TouchCv
           PROVE  FlushInv'
      <3>1. running[1].by \in Thread
        BY <2>14, RunningIsItem DEF TouchCv
      <3>2. UNCHANGED <<queue, qpc, arg, count, flushVars>> /\ wpc' = "flushed"
        BY <2>14 DEF TouchCv, ItemEnds
      <3>3. \A u \in Client : call'[u] = call[u] \/ (call[u] = "flush_sleep" /\ call'[u] = "flush_check")
        BY <2>14, <2>a, <3>1 DEF TouchCv
      <3>4. \A u \in Client : (InFlush(u)' <=> InFlush(u)) /\ (Holds(u)' => Holds(u))
        BY <3>2, <3>3 DEF InFlush, Holds
      <3>5. \A u \in Client : FlushOf(u)'
        BY <2>c, <3>2, <3>4
      <3>. QED
        BY <3>2, <3>5 DEF FlushInv
    <2>. QED
      BY <2>0, <2>1, <2>2, <2>3, <2>4, <2>6, <2>7, <2>8, <2>9, <2>10, <2>11, <2>12, <2>13,
         <2>14 DEF Next, WorkerStep, CallStep, Timeouts, NewCall, Spurious
  <1>. QED
    BY <1>1, <1>2, TypeCorrect, DrainInvariant, OrderInvariant, PTL DEF Spec

\* When flush() has seen its lambda run, and no flush() of that thread had returned before
\* its lambda, nothing the thread invoked before is queued or running (dispatcher.cc:78-97).
THEOREM FlushDrainsThread == Spec => []FlushDrains
  <1>1. FlushInv => FlushDrains
    BY DEF FlushInv, FlushOf, FlushDrains
  <1>. QED
    BY <1>1, FlushInvariant, PTL
=============================================================================
