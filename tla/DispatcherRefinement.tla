------------------------ MODULE DispatcherRefinement ------------------------
(***************************************************************************)
(* Proof that Dispatcher implements WorkQueue, for any clients and any     *)
(* capacity: every step maps to a step of WorkQueue or to a stutter.       *)
(***************************************************************************)
EXTENDS DispatcherProofs

\* A thread in an invoke carries an item of its own, so that no two threads have the
\* same item in their hands.
OwnItems ==
    \A t \in Thread : call[t] \in {"invoke", "invoke_blocking", "enqueue"} => arg[t][1].by = t

LEMMA OwnItemsInvariant == Spec => []OwnItems
  <1>1. OrderInv => OwnItems
    BY DEF OrderInv, Carries, OwnItems
  <1>. QED
    BY <1>1, OrderInvariant, PTL

----------------------------------------------------------------------------
(* The abstract state and how a step changes it *)

Stopping == {t \in Client : call[t] \in {"stop_unflush", "stop_wait"}}
Barrier == {t \in Client : dirty[t]}

LEMMA HandsAfter == \A x : x \in InHands' <=> \E t \in Thread : Holds(t)' /\ x = arg'[t][1]
  BY DEF InHands, Holds

\* Nobody takes an item in hand or lets one go.
LEMMA HandsSame ==
    ASSUME \A u \in Thread : (Holds(u)' <=> Holds(u)) /\ (Holds(u) => arg'[u] = arg[u])
    PROVE  InHands' = InHands
  BY HandsAfter, InHandsHeld

\* Thread t takes an item in hand.
LEMMA HandsMore ==
    ASSUME NEW t \in Thread, NEW x, Holds(t)', ~Holds(t), arg'[t] = <<x>>,
           \A u \in Thread \ {t} : (Holds(u)' <=> Holds(u)) /\ (Holds(u) => arg'[u] = arg[u])
    PROVE  InHands' = InHands \cup {x}
  BY HandsAfter, InHandsHeld

\* Thread t lets its item go.
LEMMA HandsLess ==
    ASSUME OwnItems, NEW t \in Thread, ~Holds(t)', Holds(t),
           \A u \in Thread \ {t} : (Holds(u)' <=> Holds(u)) /\ (Holds(u) => arg'[u] = arg[u])
    PROVE  arg[t][1] \in InHands /\ InHands' = InHands \ {arg[t][1]}
  <1>1. \A u \in Thread : Holds(u) => arg[u][1].by = u
    BY DEF OwnItems, Holds
  <1>. QED
    BY <1>1, HandsAfter, InHandsHeld

\* What a step does to the threads' hands shows in call, qpc and arg.
LEMMA HandsIdle ==
    ASSUME NEW t \in Thread, NEW p, p \notin {"invoke", "invoke_blocking", "enqueue"},
           call[t] \notin {"invoke", "invoke_blocking", "enqueue"},
           call \in [Thread -> CallPC], Goto(t, p), UNCHANGED <<qpc, arg>>
    PROVE  InHands' = InHands
  BY HandsSame DEF Holds, Goto

LEMMA HandsUntouched ==
    ASSUME UNCHANGED <<call, qpc, arg>>
    PROVE  InHands' = InHands
  BY HandsSame DEF Holds

\* Waking sleepers changes nobody's hands.
LEMMA HandsWoken ==
    ASSUME UNCHANGED <<call, arg>>,
           \A u \in Thread : qpc'[u] \in {"enq_wait", "enq_woken"} <=> qpc[u] \in {"enq_wait", "enq_woken"}
    PROVE  InHands' = InHands
  BY HandsSame DEF Holds

LEMMA AbstractStep ==
    ASSUME TypeOK, OwnItems, StopInv, DrainInv, [Next]_vars
    PROVE  [W!Next]_(W!wvars)
  <1> USE DEF Goto, Thread, Stopping, Barrier
  <1>a. /\ call \in [Thread -> CallPC] /\ queue \in Seq(Item)
        /\ qpc \in [Thread -> Q!QueuePC] /\ qitem \in [Thread -> Seq(Item)]
        /\ arg \in [Thread -> Seq(Item)] /\ dirty \in [Client -> BOOLEAN]
    BY DEF TypeOK, Q!TypeOK
  \* A step that leaves the abstract state alone.
  <1>b. ASSUME InHands' = InHands, Stopping' = Stopping,
               UNCHANGED <<was_stopped, accepting, queue, running, dirty>>
        PROVE  UNCHANGED W!wvars
    BY <1>b DEF W!wvars
  \* An item ends.
  <1>c. ASSUME ItemEnds, running # <<>>, InHands' = InHands, Stopping' = Stopping,
               UNCHANGED <<was_stopped, accepting, queue>>
        PROVE  W!Next
    BY <1>c DEF ItemEnds, W!Next, W!Finish
  <1>0. CASE UNCHANGED vars
    BY <1>0, <1>b, HandsUntouched DEF vars, flags, history, queueVars
  <1>1. ASSUME NEW t \in Thread, NEW kind, NEW how \in {"invoke", "invoke_blocking"},
               Invoke(t, kind, how)
        PROVE  W!Next
    <2>1. InHands' = InHands \cup {NewItem(t, kind)}
      <3>1. Holds(t)' /\ ~Holds(t) /\ arg'[t] = <<NewItem(t, kind)>>
        BY <1>1, <1>a DEF Invoke, Holds, MayCall
      <3>2. \A u \in Thread \ {t} : (Holds(u)' <=> Holds(u)) /\ (Holds(u) => arg'[u] = arg[u])
        BY <1>1, <1>a DEF Invoke, Holds, queueVars
      <3>. QED
        BY <3>1, <3>2, HandsMore
    <2>2. /\ Stopping' = Stopping /\ ~was_stopped
          /\ UNCHANGED <<was_stopped, accepting, queue, running, dirty>>
      BY <1>1, <1>a DEF Invoke, MayCall, flags, queueVars
    <2>. QED
      BY <2>1, <2>2 DEF W!Next, W!Offer
  <1>2. ASSUME NEW t \in Thread, InvokeEnqueue(t)
        PROVE  [W!Next]_(W!wvars)
    <2>1. arg[t][1] \in Item /\ arg[t] = <<arg[t][1]>> /\ Holds(t)
      BY <1>2, ArgIsItem DEF InvokeEnqueue, Holds
    <2>2. /\ Stopping' = Stopping
          /\ UNCHANGED <<was_stopped, accepting, running, dirty, arg>>
          /\ call' = [call EXCEPT ![t] = "enqueue"]
      BY <1>2, <1>a DEF InvokeEnqueue, Q!Enqueue, Q!BlockingEnqueue, flags, history
    <2>3. \A u \in Thread \ {t} : (Holds(u)' <=> Holds(u)) /\ (Holds(u) => arg'[u] = arg[u])
      BY <1>2, <1>a, <2>2 DEF InvokeEnqueue, Q!Enqueue, Q!BlockingEnqueue, Holds
    <2>4. CASE qpc'[t] = "notify"
      <3>1. \/ ~accepting /\ queue' = queue
            \/ queue' = Append(queue, arg[t][1])
            \/ /\ accepting /\ Len(queue) >= Capacity
               /\ queue' = Tail(Append(queue, arg[t][1]))
        BY <1>2, <1>a, <2>4, DispatcherAssumption DEF InvokeEnqueue, Q!Enqueue, Q!BlockingEnqueue, Q!PushDroppingOldest
      <3>2. ~Holds(t)'
        BY <1>a, <2>2, <2>4 DEF Holds
      <3>3. arg[t][1] \in InHands /\ InHands' = InHands \ {arg[t][1]}
        BY <2>1, <2>3, <3>2, HandsLess
      <3>. QED
        BY <2>2, <3>1, <3>3 DEF W!Next, W!Queue, W!QueueBlocked
    <2>5. CASE qpc'[t] # "notify"
      <3>1. qpc'[t] = "enq_wait" /\ queue' = queue
        BY <1>2, <1>a, <2>5 DEF InvokeEnqueue, Q!Enqueue, Q!BlockingEnqueue
      <3>2. InHands' = InHands
        BY <1>a, <2>1, <2>2, <2>3, <3>1, HandsSame DEF Holds
      <3>. QED
        BY <1>b, <2>2, <3>1, <3>2
    <2>. QED
      BY <2>4, <2>5
  <1>3. ASSUME NEW t \in Thread, InvokeResume(t)
        PROVE  [W!Next]_(W!wvars)
    <2>1. /\ arg[t][1] \in Item /\ arg[t] = <<arg[t][1]>> /\ qitem[t] = arg[t] /\ Holds(t)
          /\ call[t] = "enqueue"
      BY <1>3, ArgIsItem DEF InvokeResume, Q!BlockingEnqueueResume, Holds, DrainInv
    <2>2. UNCHANGED <<was_stopped, accepting, running, dirty, arg, call>>
      BY <1>3 DEF InvokeResume, Q!BlockingEnqueueResume, flags, history
    <2>3. \A u \in Thread \ {t} : (Holds(u)' <=> Holds(u)) /\ (Holds(u) => arg'[u] = arg[u])
      BY <1>3, <1>a, <2>2 DEF InvokeResume, Q!BlockingEnqueueResume, Holds
    <2>4. CASE qpc'[t] = "notify"
      <3>1. queue' = queue \o arg[t]
        BY <1>3, <1>a, <2>1, <2>4 DEF InvokeResume, Q!BlockingEnqueueResume
      <3>2. queue' = Append(queue, arg[t][1])
        BY <1>a, <2>1, <3>1, PushIsAppend
      <3>3. ~Holds(t)'
        BY <2>1, <2>2, <2>4 DEF Holds
      <3>4. arg[t][1] \in InHands /\ InHands' = InHands \ {arg[t][1]}
        BY <2>1, <2>3, <3>3, HandsLess
      <3>. QED
        BY <2>2, <3>2, <3>4 DEF W!Next, W!Queue, W!QueueBlocked
    <2>5. CASE qpc'[t] # "notify"
      <3>1. qpc'[t] = "enq_wait" /\ queue' = queue
        BY <1>3, <1>a, <2>5 DEF InvokeResume, Q!BlockingEnqueueResume
      <3>2. InHands' = InHands
        BY <1>a, <2>1, <2>2, <2>3, <3>1, HandsSame DEF Holds
      <3>. QED
        BY <1>b, <2>2, <3>1, <3>2
    <2>. QED
      BY <2>4, <2>5
  <1>4. ASSUME NEW t \in Thread, InvokeNotify(t)
        PROVE  UNCHANGED W!wvars
    <2>1. PICK S \in Q!NotifyOne(Q!At("deq_wait")) : qpc' = Q!Moved(t, "out", S, "deq_woken")
      BY <1>4 DEF InvokeNotify, Q!NotifyDequeuer
    <2>2. \A u \in Thread : /\ u # t => (qpc'[u] \in {"enq_wait", "enq_woken"} <=> qpc[u] \in {"enq_wait", "enq_woken"})
                            /\ qpc'[t] = "out" /\ qpc[t] = "notify"
      BY <1>4, <1>a, <2>1 DEF InvokeNotify, Q!NotifyDequeuer, Q!Moved, Q!NotifyOne, Q!At
    <2>3. /\ queue' = queue /\ call[t] = "enqueue" /\ call'[t] \in {"out", "flush_check"}
          /\ \A u \in Thread : u # t => call'[u] = call[u] /\ arg'[u] = arg[u]
          /\ UNCHANGED <<was_stopped, accepting, running, dirty>>
      BY <1>4, <1>a DEF InvokeNotify, Q!NotifyDequeuer, flags, history
    <2>4. InHands' = InHands
      BY <2>2, <2>3, HandsSame DEF Holds
    <2>5. Stopping' = Stopping
      BY <2>3
    <2>. QED
      BY <1>b, <2>3, <2>4, <2>5
  <1>5. ASSUME NEW t \in Client, Flush(t)
        PROVE  [W!Next]_(W!wvars)
    <2>1. /\ Stopping' = Stopping
          /\ UNCHANGED <<was_stopped, accepting, queue, qpc, running, dirty>>
      BY <1>5, <1>a DEF Flush, MayCall, flags, queueVars
    <2>2. CASE ~was_stopped
      <3>1. Holds(t)' /\ ~Holds(t) /\ arg'[t] = <<NewItem(t, "flush")>>
        BY <1>5, <1>a, <2>2 DEF Flush, Holds, MayCall
      <3>2. \A u \in Thread \ {t} : (Holds(u)' <=> Holds(u)) /\ (Holds(u) => arg'[u] = arg[u])
        BY <1>5, <1>a, <2>1, <2>2 DEF Flush, Holds
      <3>3. InHands' = InHands \cup {NewItem(t, "flush")}
        BY <3>1, <3>2, HandsMore
      <3>. QED
        BY <2>1, <2>2, <3>3 DEF W!Next, W!Offer
    <2>3. CASE was_stopped
      <3>1. Goto(t, "flush_check") /\ arg' = arg /\ call[t] = "out"
        BY <1>5, <2>3 DEF Flush, MayCall
      <3>2. InHands' = InHands
        BY <1>a, <2>1, <3>1, HandsIdle
      <3>. QED
        BY <1>b, <2>1, <3>2
    <2>. QED
      BY <2>2, <2>3, <1>5 DEF Flush
  \* The steps of a call that show only in its own program counter.
  <1>6. ASSUME NEW t \in Client,
               \/ FlushCheck(t) \/ FlushTimeout(t) \/ FlushSpuriousWakeUp(t)
               \/ StartQueue(t) \/ Destroy(t) \/ StopUnflush(t)
               \/ DestroyKill(t) \/ DestroyJoin(t)
        PROVE  [W!Next]_(W!wvars)
    <2>1. /\ \E p \in CallPC \ {"invoke", "invoke_blocking", "enqueue"} :
                /\ Goto(t, p)
                /\ p \in {"stop_unflush", "stop_wait"}
                      <=> call[t] \in {"stop_unflush", "stop_wait"}
          /\ call[t] \notin {"invoke", "invoke_blocking", "enqueue"}
          /\ accepting' \in {accepting, TRUE}
          /\ UNCHANGED <<was_stopped, queue, qpc, running, dirty, arg>>
      BY <1>6 DEF FlushCheck, FlushTimeout, FlushReturn, FlushSpuriousWakeUp, StartQueue,
                  Q!Start, Destroy, MayCall, StopUnflush, DestroyKill, DestroyJoin, CallPC,
                  flags, history, queueVars
    <2>2. PICK p \in CallPC \ {"invoke", "invoke_blocking", "enqueue"} :
                /\ Goto(t, p)
                /\ p \in {"stop_unflush", "stop_wait"}
                      <=> call[t] \in {"stop_unflush", "stop_wait"}
      BY <2>1
    <2>3. InHands' = InHands
      BY <1>a, <2>1, <2>2, HandsIdle
    <2>4. Stopping' = Stopping
      BY <1>a, <2>2
    <2>. QED
      BY <1>b, <2>1, <2>3, <2>4 DEF W!Next, W!Reopen
  <1>7. ASSUME NEW t \in Client, StartFlag(t) \/ StopFlag(t)
        PROVE  W!Next
    <2>1. /\ Goto(t, "start_queue") \/ Goto(t, "stop_clear")
          /\ call[t] \in {"out", "dtor_stop"}
          /\ was_stopped' \in BOOLEAN
          /\ UNCHANGED <<accepting, queue, qpc, running, dirty, arg>>
      BY <1>7 DEF StartFlag, StopFlag, MayCall, flags, history, queueVars
    <2>2. InHands' = InHands
      BY <1>a, <2>1, HandsIdle
    <2>3. Stopping' = Stopping
      BY <1>a, <2>1
    <2>. QED
      BY <2>1, <2>2, <2>3 DEF W!Next, W!Open, W!Close
  \* What a clear of the queue does to the hands.
  <1>d. ASSUME NEW t \in Client, NEW p \in CallPC \ {"invoke", "invoke_blocking", "enqueue"},
               call[t] \notin {"invoke", "invoke_blocking", "enqueue"},
               Goto(t, p), Q!Clear(t), arg' = arg
        PROVE  InHands' = InHands
    <2>1. \A u \in Thread : qpc'[u] \in {"enq_wait", "enq_woken"} <=> qpc[u] \in {"enq_wait", "enq_woken"}
      BY <1>a, <1>d DEF Q!Clear
    <2>. QED
      BY <1>a, <1>d, <2>1, HandsSame DEF Holds
  <1>8. ASSUME NEW t \in Client, StopClear(t)
        PROVE  W!Next
    <2>1. InHands' = InHands
      BY <1>8, <1>d DEF StopClear, CallPC
    <2>2. Stopping' = Stopping \cup {t}
      BY <1>8, <1>a DEF StopClear
    <2>3. Barrier' = IF running = <<>> THEN Barrier \ {t} ELSE Barrier \cup {t}
      BY <1>8, <1>a DEF StopClear
    <2>4. queue' = <<>> /\ ~accepting' /\ UNCHANGED <<was_stopped, running>>
      BY <1>8 DEF StopClear, Q!Clear, flags
    <2>. QED
      BY <2>1, <2>2, <2>3, <2>4 DEF W!Next, W!Clear
  <1>9. ASSUME NEW t \in Client, StopReturn(t)
        PROVE  W!Next
    <2>1. t \in Stopping /\ t \notin Barrier
      BY <1>9 DEF StopReturn, StopInv, StopWaitsForRunningItem
    <2>2. /\ Goto(t, "dtor_clear") \/ Goto(t, "out")
          /\ call[t] = "stop_wait"
          /\ UNCHANGED <<was_stopped, accepting, queue, qpc, running, dirty, arg>>
      BY <1>9 DEF StopReturn, flags, history, queueVars
    <2>3. InHands' = InHands
      BY <1>a, <2>2, HandsIdle
    <2>4. Stopping' = Stopping \ {t}
      BY <1>a, <2>2
    <2>. QED
      BY <2>1, <2>2, <2>3, <2>4 DEF W!Next, W!StopReturn
  <1>10. ASSUME NEW t \in Client, DestroyClear(t)
         PROVE  W!Next
    <2>1. InHands' = InHands
      BY <1>10, <1>d DEF DestroyClear, CallPC
    <2>2. /\ Stopping' = Stopping /\ queue' = <<>> /\ ~accepting'
          /\ UNCHANGED <<was_stopped, running, dirty>>
      BY <1>10, <1>a DEF DestroyClear, Q!Clear, flags
    <2>. QED
      BY <2>1, <2>2 DEF W!Next, W!Drop
  <1>11. ASSUME NEW got \in Q!Returned, wpc = "dequeue", AfterDequeue(got),
                \/ Q!Dequeue(Worker, got) \/ Q!DequeueResume(Worker, got)
                \/ Q!DequeueTimeout(Worker, got)
         PROVE  [W!Next]_(W!wvars)
    <2>1. running = <<>>
      BY <1>11 DEF TypeOK
    <2>2. /\ running' = got /\ UNCHANGED <<was_stopped, call, arg, dirty>>
          /\ accepting' \in {accepting, TRUE}
      BY <1>11 DEF AfterDequeue, flags, Q!Dequeue, Q!DequeueResume, Q!DequeueTimeout
    <2>3. \/ /\ queue # <<>> /\ got = <<Head(queue)>> /\ queue' = Tail(queue)
             /\ \E S \in Q!NotifyOne(Q!At("enq_wait")) :
                   qpc' = Q!Moved(Worker, "out", S, "enq_woken")
          \/ /\ got = <<>> /\ queue' = queue
             /\ \E p \in {"out", "deq_wait"} : qpc' = [qpc EXCEPT ![Worker] = p]
      BY <1>11 DEF Q!Dequeue, Q!DequeueResume, Q!DequeueTimeout, Q!TakeOrSleep, Q!TakeFront
    <2>4. qpc[Worker] \in {"out", "deq_wait", "deq_woken"}
      BY <1>11 DEF Q!Dequeue, Q!DequeueResume, Q!DequeueTimeout
    <2>5. \A u \in Thread : qpc'[u] \in {"enq_wait", "enq_woken"} <=> qpc[u] \in {"enq_wait", "enq_woken"}
      BY <1>a, <2>3, <2>4 DEF Q!NotifyOne, Q!At, Q!Moved
    <2>6. InHands' = InHands
      BY <2>2, <2>5, HandsWoken
    <2>7. Stopping' = Stopping
      BY <2>2
    <2>8. (~accepting)' \in {~accepting, FALSE}
      <3>1. CASE accepting' = accepting
        BY <3>1, Zenon
      <3>2. CASE accepting' = TRUE
        <4>1. (~accepting)' = FALSE
          BY <3>2
        <4>. QED
          BY <4>1, Zenon
      <3>. QED
        BY <2>2, <3>1, <3>2
    <2>9. CASE queue # <<>> /\ got = <<Head(queue)>> /\ queue' = Tail(queue)
      BY <2>1, <2>2, <2>6, <2>7, <2>8, <2>9 DEF W!Next, W!Take
    <2>10. CASE got = <<>> /\ queue' = queue
      BY <1>b, <2>1, <2>2, <2>6, <2>7, <2>10 DEF W!Next, W!Reopen
    <2>. QED
      BY <2>3, <2>9, <2>10
  <1>12. ASSUME RunTask \/ RunSleep \/ SleepCancelled \/ SleepOver \/ RunFlush
         PROVE  [W!Next]_(W!wvars)
    <2>1. running # <<>>
      BY <1>12 DEF TypeOK, RunTask, RunSleep, SleepCancelled, SleepOver, RunFlush
    <2>2. /\ ItemEnds \/ UNCHANGED <<running, dirty>>
          /\ UNCHANGED <<was_stopped, accepting, queue, qpc, call, arg>>
      BY <1>12 DEF RunTask, RunSleep, SleepCancelled, SleepOver, RunFlush, flags, queueVars
    <2>3. InHands' = InHands
      BY <2>2, HandsUntouched
    <2>. QED
      BY <1>b, <1>c, <2>1, <2>2, <2>3
  <1>13. ASSUME TouchCv
         PROVE  W!Next
    <2>a. wpc = "touch_cv"
      BY <1>13 DEF TouchCv
    <2>b. running # <<>>
      <3>1. Len(running) = 1
        BY <2>a DEF TypeOK
      <3>. QED
        BY <3>1, OneItem
    <2>c. running[1].by \in Thread
      <3>1. wpc \in {"run", "sleep", "touch", "touch_cv"}
        BY <2>a
      <3>. QED
        BY <3>1, RunningIsItem
    <2>1. running # <<>> /\ running[1].by \in Thread
      BY <2>b, <2>c
    <2>2. /\ ItemEnds /\ UNCHANGED <<was_stopped, accepting, queue, qpc, arg>>
          /\ \/ UNCHANGED call
             \/ call[running[1].by] = "flush_sleep" /\ Goto(running[1].by, "flush_check")
      BY <1>13 DEF TouchCv, flags, queueVars
    <2>3. InHands' = InHands
      <3>1. CASE UNCHANGED call
        BY <2>2, <3>1, HandsUntouched
      <3>2. CASE call[running[1].by] = "flush_sleep" /\ Goto(running[1].by, "flush_check")
        <4>1. call[running[1].by] \notin {"invoke", "invoke_blocking", "enqueue"}
          BY <3>2
        <4>2. UNCHANGED <<qpc, arg>>
          BY <2>2
        <4>3. call \in [Thread -> CallPC]
          BY <1>a
        <4>4. \A u \in Thread : (Holds(u)' <=> Holds(u)) /\ (Holds(u) => arg'[u] = arg[u])
          BY <2>1, <3>2, <4>1, <4>2, <4>3 DEF Holds
        <4>. QED
          BY <4>4, HandsSame
      <3>. QED
        BY <2>2, <3>1, <3>2
    <2>4. Stopping' = Stopping
      BY <1>a, <2>1, <2>2
    <2>. QED
      BY <1>c, <2>1, <2>2, <2>3, <2>4
  <1>14. ASSUME WorkerLoop \/ TouchInvoked \/ WorkerFlushed
         PROVE  UNCHANGED W!wvars
    <2>1. UNCHANGED <<was_stopped, accepting, queue, qpc, call, arg, running, dirty>>
      BY <1>14 DEF WorkerLoop, TouchInvoked, WorkerFlushed, flags, history, queueVars
    <2>. QED
      BY <1>b, <2>1, HandsUntouched
  <1>15. ASSUME NEW t \in Thread, QueueSpuriousWakeUp(t)
         PROVE  UNCHANGED W!wvars
    <2>1. UNCHANGED <<was_stopped, accepting, queue, call, arg, running, dirty>>
      BY <1>15 DEF QueueSpuriousWakeUp, Q!SpuriousWakeUp, flags, history
    <2>2. \A u \in Thread : qpc'[u] \in {"enq_wait", "enq_woken"} <=> qpc[u] \in {"enq_wait", "enq_woken"}
      BY <1>a, <1>15 DEF QueueSpuriousWakeUp, Q!SpuriousWakeUp
    <2>. QED
      BY <1>b, <2>1, <2>2, HandsWoken
  <1>16. WorkerStep \/ Timeouts => [W!Next]_(W!wvars)
    BY <1>6, <1>11, <1>12, <1>13, <1>14 DEF WorkerStep, Timeouts, WorkerDequeue, WorkerTimeout
  <1>17. (\E t \in Thread : CallStep(t)) => [W!Next]_(W!wvars)
    BY <1>2, <1>3, <1>4, <1>6, <1>7, <1>8, <1>9, <1>10 DEF CallStep
  <1>18. NewCall \/ Spurious => [W!Next]_(W!wvars)
    BY <1>1, <1>5, <1>6, <1>7, <1>15 DEF NewCall, Spurious
  <1>. QED
    BY <1>0, <1>16, <1>17, <1>18 DEF Next

\* The dispatcher implements WorkQueue: whatever its clients do, no thread sees more
\* than a queue that runs what was offered one at a time and in order, and whose
\* stop() outlasts what ran (dispatcher.h:50-58, dispatcher.cc:24-76).
THEOREM DispatcherIsWorkQueue == Spec => ImplementsWorkQueue
  <1>1. Init => W!Init
    BY InHandsHeld DEF Init, W!Init, Q!QueueInit, Holds, Thread
  <1>2. TypeOK /\ OwnItems /\ StopInv /\ DrainInv /\ [Next]_vars => [W!Next]_(W!wvars)
    BY AbstractStep
  <1>. QED
    BY <1>1, <1>2, TypeCorrect, OwnItemsInvariant, StopInvariant, DrainInvariant, PTL
       DEF Spec, ImplementsWorkQueue, W!Spec

=============================================================================
