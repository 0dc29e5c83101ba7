----------------------------- MODULE Dispatcher -----------------------------
(***************************************************************************)
(* Dispatcher of src/concurrency/dispatcher.{h,cc}: one worker thread that *)
(* runs the items other threads hand to it through a ConsumerQueue.        *)
(*                                                                         *)
(* The queue is the module ConsumerQueue: every step that touches it is an *)
(* action of that module.  A member function that releases a lock, calls   *)
(* the queue or reads an atomic in the middle is split there.              *)
(*                                                                         *)
(* was_stopped_mutex_ is held across steps only by start() (call           *)
(* "start_queue"); was_flushed_mutex_ never is.  A wait on a condition     *)
(* variable whose predicate is set and notified under the waiter's own     *)
(* mutex is a guard; flush() waits on a predicate (was_stopped_) whose     *)
(* change does not notify it, so its sleep is explicit.                    *)
(***************************************************************************)
EXTENDS Naturals, Sequences, FiniteSets

CONSTANTS
    Client,         \* the threads that call the dispatcher
    Controller,     \* the clients that start, stop and destroy it
    Worker,         \* thread_
    Capacity        \* the capacity of queue_

ASSUME DispatcherAssumption ==
    /\ IsFiniteSet(Client)
    /\ Controller \subseteq Client
    /\ Worker \notin Client
    /\ Capacity \in Nat \ {0}

Thread == Client \cup {Worker}

(***************************************************************************)
(* What is invoked: the n-th item of a thread.  A "task" may invoke further*)
(* items, a "sleep" calls CancellableTimer::trySleep, a "flush" is the     *)
(* lambda of flush().  Any of them may throw; the worker catches it.       *)
(***************************************************************************)
Kind == {"task", "sleep", "flush"}
Item == [by : Thread, n : Nat, kind : Kind]

VARIABLES
    queue, accepting, need_to_flush, q_was_flushed, qpc, qitem,   \* queue_
    was_stopped,    \* was_stopped_
    was_flushed,    \* was_flushed_ of the dispatcher
    is_alive,       \* is_alive_
    destroying,     \* a client has entered the destructor
    wpc,            \* where the worker loop is
    running,        \* the item the worker has taken: <<x>> or <<>>
    call,           \* where each thread is inside a member function
    arg,            \* the item an invoke in progress carries: <<x>> or <<>>
    invoked,        \* the local of each thread's flush() in progress
    expired,        \* the flush items whose shared wait_sucess is false
    \* history, read by no action
    count,          \* items each thread has handed over
    last,           \* n of the newest item of each thread the worker has taken
    excused,        \* items in the hands of a producer at the last clear
    dirty,          \* threads whose clear() found an item running that still runs
    abandoned       \* clients with a flush() that returned before its lambda ran

Q == INSTANCE ConsumerQueue WITH
        was_flushed <- q_was_flushed,
        Ops <- {"enqueue", "blockingEnqueue", "dequeue", "clear", "start"}

queueVars == <<queue, accepting, need_to_flush, q_was_flushed, qpc, qitem>>
flags == <<was_stopped, was_flushed, is_alive, destroying>>
flushVars == <<invoked, expired, abandoned>>
history == <<count, last, excused, dirty>>
vars == <<queueVars, flags, wpc, running, call, arg, flushVars, history>>

WorkerPC == {"loop", "dequeue", "run", "sleep", "touch", "touch_cv", "flushed",
             "exited"}
CallPC == {"out", "invoke", "invoke_blocking", "enqueue",
           "flush_check", "flush_sleep",
           "start_queue", "stop_clear", "stop_unflush", "stop_wait",
           "dtor_stop", "dtor_clear", "dtor_kill", "dtor_join", "destroyed"}

Init ==
    /\ Q!QueueInit
    /\ was_stopped = TRUE
    /\ was_flushed = FALSE
    /\ is_alive = TRUE
    /\ destroying = FALSE
    /\ wpc = "loop"
    /\ running = <<>>
    /\ call = [t \in Thread |-> "out"]
    /\ arg = [t \in Thread |-> <<>>]
    /\ invoked = [t \in Client |-> FALSE]
    /\ expired = {}
    /\ count = [t \in Thread |-> 0]
    /\ last = [t \in Thread |-> 0]
    /\ excused = {}
    /\ dirty = [t \in Client |-> FALSE]
    /\ abandoned = {}

Goto(t, p) == call' = [call EXCEPT ![t] = p]

\* was_stopped_mutex_ is free.
StoppedMutexFree == \A t \in Client : call[t] # "start_queue"

\* Thread t is free to call: a client outside any call and not after the beginning
\* of the destructor, or the running task.
MayCall(t) ==
    /\ call[t] = "out"
    /\ t \in Client => ~destroying
    /\ t = Worker => wpc = "run" /\ running[1].kind = "task"

----------------------------------------------------------------------------
(* invoke *)

NewItem(t, kind) == [by |-> t, n |-> count[t] + 1, kind |-> kind]

\* The check of was_stopped_: nothing is remembered of it once it is passed.
Invoke(t, kind, how) ==
    /\ MayCall(t)
    /\ ~was_stopped
    /\ arg' = [arg EXCEPT ![t] = <<NewItem(t, kind)>>]
    /\ count' = [count EXCEPT ![t] = @ + 1]
    /\ Goto(t, how)
    /\ UNCHANGED <<queueVars, flags, wpc, running, flushVars, last, excused, dirty>>

InvokeEnqueue(t) ==
    /\ \/ call[t] = "invoke" /\ Q!Enqueue(t, arg[t][1])
       \/ call[t] = "invoke_blocking" /\ Q!BlockingEnqueue(t, arg[t][1])
    /\ Goto(t, "enqueue")
    /\ UNCHANGED <<flags, wpc, running, arg, flushVars, history>>

InvokeResume(t) ==
    /\ call[t] = "enqueue"
    /\ Q!BlockingEnqueueResume(t)
    /\ UNCHANGED <<flags, wpc, running, call, arg, flushVars, history>>

\* The end of invoke: back to the caller, or to the rest of flush().
InvokeNotify(t) ==
    /\ call[t] = "enqueue"
    /\ Q!NotifyDequeuer(t)
    /\ Goto(t, IF arg[t][1].kind = "flush" THEN "flush_check" ELSE "out")
    /\ arg' = [arg EXCEPT ![t] = <<>>]
    /\ UNCHANGED <<flags, wpc, running, flushVars, history>>

----------------------------------------------------------------------------
(* flush *)

\* Mutant: invoked outlives the call that set it.
FlushStale(t) ==
    /\ MayCall(t)
    /\ count' = [count EXCEPT ![t] = @ + 1]
    /\ IF was_stopped
       THEN Goto(t, "flush_check") /\ UNCHANGED arg
       ELSE Goto(t, "invoke") /\ arg' = [arg EXCEPT ![t] = <<NewItem(t, "flush")>>]
    /\ UNCHANGED <<queueVars, flags, wpc, running, flushVars, last, excused, dirty>>

\* flush() up to the check inside its invoke.
Flush(t) ==
    /\ MayCall(t)
    /\ invoked' = [invoked EXCEPT ![t] = FALSE]
    /\ count' = [count EXCEPT ![t] = @ + 1]
    /\ \/ /\ ~was_stopped
          /\ arg' = [arg EXCEPT ![t] = <<NewItem(t, "flush")>>]
          /\ Goto(t, "invoke")
       \/ /\ was_stopped
          /\ Goto(t, "flush_check")
          /\ UNCHANGED arg
    /\ UNCHANGED <<queueVars, flags, wpc, running, expired, abandoned,
                   last, excused, dirty>>

FlushDone(t) == invoked[t] \/ was_stopped

\* flush() returns: wait_sucess becomes false when it gives up.
FlushReturn(t, success) ==
    /\ Goto(t, "out")
    /\ expired' = IF success THEN expired
                  ELSE expired \cup {[by |-> t, n |-> count[t], kind |-> "flush"]}
    /\ abandoned' = IF invoked[t] THEN abandoned ELSE abandoned \cup {t}
    /\ UNCHANGED <<queueVars, flags, wpc, running, arg, invoked, history>>

\* The predicate, at the start of wait_for and after every wake-up.
FlushCheck(t) ==
    /\ call[t] = "flush_check"
    /\ \/ FlushDone(t) /\ FlushReturn(t, TRUE)
       \/ /\ ~FlushDone(t)
          /\ Goto(t, "flush_sleep")
          /\ UNCHANGED <<queueVars, flags, wpc, running, arg, flushVars, history>>

\* Ten seconds are over: the predicate is the result.
FlushTimeout(t) ==
    /\ call[t] = "flush_sleep"
    /\ FlushReturn(t, FlushDone(t))

FlushSpuriousWakeUp(t) ==
    /\ call[t] = "flush_sleep"
    /\ Goto(t, "flush_check")
    /\ UNCHANGED <<queueVars, flags, wpc, running, arg, flushVars, history>>

----------------------------------------------------------------------------
(* start, stop, ~Dispatcher *)

StartFlag(t) ==
    /\ t \in Controller /\ MayCall(t)
    /\ StoppedMutexFree
    /\ was_stopped' = FALSE
    /\ Goto(t, "start_queue")
    /\ UNCHANGED <<queueVars, was_flushed, is_alive, destroying, wpc, running, arg, flushVars,
                   history>>

StartQueue(t) ==
    /\ call[t] = "start_queue"
    /\ Q!Start(t)
    /\ Goto(t, "out")
    /\ UNCHANGED <<flags, wpc, running, arg, flushVars, history>>

\* The destructor begins, when no client is in another call; stop() is next.
Destroy(t) ==
    /\ t \in Controller /\ MayCall(t)
    /\ \A c \in Client : call[c] = "out"
    /\ destroying' = TRUE
    /\ Goto(t, "dtor_stop")
    /\ UNCHANGED <<queueVars, was_stopped, was_flushed, is_alive, wpc, running, arg, flushVars, history>>

StopFlag(t) ==
    /\ (t \in Controller /\ MayCall(t)) \/ call[t] = "dtor_stop"
    /\ Goto(t, "stop_clear")
    /\ StoppedMutexFree
    /\ was_stopped' = TRUE
    /\ UNCHANGED <<queueVars, was_flushed, is_alive, destroying, wpc, running, arg, flushVars,
                   history>>

\* The items some thread has yet to push: it has passed the check of was_stopped_.
InHands == {arg[t][1] : t \in {u \in Thread :
                \/ call[u] \in {"invoke", "invoke_blocking"}
                \/ call[u] = "enqueue" /\ qpc[u] \in {"enq_wait", "enq_woken"}}}

StopClear(t) ==
    /\ call[t] = "stop_clear" /\ Goto(t, "stop_unflush")
    /\ Q!Clear(t)
    /\ excused' = InHands
    /\ dirty' = [dirty EXCEPT ![t] = running # <<>>]
    /\ UNCHANGED <<flags, wpc, running, arg, flushVars, count, last>>

\* Mutant: was_flushed_ is left as the last round of the worker set it.
StopNoReset(t) ==
    /\ call[t] = "stop_unflush" /\ Goto(t, "stop_wait")
    /\ UNCHANGED <<queueVars, flags, wpc, running, arg, flushVars, history>>

StopUnflush(t) ==
    /\ call[t] = "stop_unflush" /\ Goto(t, "stop_wait")
    /\ was_flushed' = FALSE
    /\ UNCHANGED <<queueVars, was_stopped, is_alive, destroying, wpc, running, arg, flushVars,
                   history>>

StopReturn(t) ==
    /\ call[t] = "stop_wait"
    /\ was_flushed
    /\ Goto(t, IF destroying THEN "dtor_clear" ELSE "out")
    /\ UNCHANGED <<queueVars, flags, wpc, running, arg, flushVars, history>>

DestroyClear(t) ==
    /\ call[t] = "dtor_clear"
    /\ Q!Clear(t)
    /\ Goto(t, "dtor_kill")
    /\ excused' = InHands
    /\ UNCHANGED <<flags, wpc, running, arg, flushVars, count, last, dirty>>

DestroyKill(t) ==
    /\ call[t] = "dtor_kill"
    /\ is_alive' = FALSE
    /\ Goto(t, "dtor_join")
    /\ UNCHANGED <<queueVars, was_stopped, was_flushed, destroying, wpc, running, arg,
                   flushVars, history>>

DestroyJoin(t) ==
    /\ call[t] = "dtor_join"
    /\ wpc = "exited"
    /\ Goto(t, "destroyed")
    /\ UNCHANGED <<queueVars, flags, wpc, running, arg, flushVars, history>>

----------------------------------------------------------------------------
(* The worker thread *)

WorkerLoop ==
    /\ wpc = "loop"
    /\ wpc' = IF is_alive THEN "dequeue" ELSE "exited"
    /\ UNCHANGED <<queueVars, flags, running, call, arg, flushVars, history>>

\* dequeue has returned got, or sleeps on.
AfterDequeue(got) ==
    /\ wpc' = CASE qpc'[Worker] = "deq_wait" -> "dequeue"
                [] got # <<>> -> "run"
                [] OTHER -> "flushed"
    /\ running' = got
    /\ last' = IF got = <<>> THEN last ELSE [last EXCEPT ![got[1].by] = got[1].n]
    /\ UNCHANGED <<flags, call, arg, flushVars, count, excused, dirty>>

WorkerDequeue ==
    /\ wpc = "dequeue"
    /\ \E got \in Q!Returned :
          /\ Q!Dequeue(Worker, got) \/ Q!DequeueResume(Worker, got)
          /\ AfterDequeue(got)

\* Five seconds without an item.
WorkerTimeout ==
    /\ wpc = "dequeue"
    /\ \E got \in Q!Returned :
          Q!DequeueTimeout(Worker, got) /\ AfterDequeue(got)

\* The item returns or throws.
ItemEnds ==
    /\ wpc' = "flushed"
    /\ running' = <<>>
    /\ dirty' = [t \in Client |-> FALSE]

RunTask ==
    /\ wpc = "run" /\ running[1].kind = "task"
    /\ call[Worker] = "out"
    /\ ItemEnds
    /\ UNCHANGED <<queueVars, flags, call, arg, flushVars, count, last, excused>>

\* trySleep: was_stopped_ is read under was_stopped_mutex_.
RunSleep ==
    /\ wpc = "run" /\ running[1].kind = "sleep"
    /\ StoppedMutexFree
    /\ \/ was_stopped /\ ItemEnds
       \/ ~was_stopped /\ wpc' = "sleep" /\ UNCHANGED <<running, dirty>>
    /\ UNCHANGED <<queueVars, flags, call, arg, flushVars, count, last, excused>>

SleepCancelled ==
    /\ wpc = "sleep"
    /\ StoppedMutexFree /\ was_stopped
    /\ ItemEnds
    /\ UNCHANGED <<queueVars, flags, call, arg, flushVars, count, last, excused>>

SleepOver ==
    /\ wpc = "sleep"
    /\ StoppedMutexFree
    /\ ItemEnds
    /\ UNCHANGED <<queueVars, flags, call, arg, flushVars, count, last, excused>>

\* The lambda of flush(): give up, or go on to touch the locals of that call.
RunFlush ==
    /\ wpc = "run" /\ running[1].kind = "flush"
    /\ \/ /\ was_stopped \/ running[1] \in expired
          /\ ItemEnds
       \/ /\ ~(was_stopped \/ running[1] \in expired)
          /\ wpc' = "touch"
          /\ UNCHANGED <<running, dirty>>
    /\ UNCHANGED <<queueVars, flags, call, arg, flushVars, count, last, excused>>

\* Thread t is in a flush() call; in its own, it is the one that made item x.
InFlush(t) ==
    \/ call[t] \in {"flush_check", "flush_sleep"}
    \/ call[t] \in {"invoke", "enqueue"} /\ arg[t][1].kind = "flush"
InOwnFlush(x) == InFlush(x.by) /\ count[x.by] = x.n

(***************************************************************************)
(* invoked = true; then cv.notify_one().  When that flush() has returned   *)
(* the locals are dead stack memory: the write goes nowhere, or, if the    *)
(* same thread is in a later flush(), may hit the same local of that call. *)
(***************************************************************************)
TouchInvoked ==
    /\ wpc = "touch"
    /\ LET t == running[1].by IN
          \/ /\ InOwnFlush(running[1]) \/ InFlush(t)
             /\ invoked' = [invoked EXCEPT ![t] = TRUE]
          \/ /\ ~InOwnFlush(running[1])
             /\ UNCHANGED invoked
    /\ wpc' = "touch_cv"
    /\ UNCHANGED <<queueVars, flags, running, call, arg, expired, abandoned, history>>

TouchCv ==
    /\ wpc = "touch_cv"
    /\ LET t == running[1].by IN
          \/ call[t] = "flush_sleep" /\ Goto(t, "flush_check")
          \/ /\ call[t] # "flush_sleep" \/ ~InOwnFlush(running[1])
             /\ UNCHANGED call
    /\ ItemEnds
    /\ UNCHANGED <<queueVars, flags, arg, flushVars, count, last, excused>>

WorkerFlushed ==
    /\ wpc = "flushed"
    /\ was_flushed' = TRUE
    /\ wpc' = "loop"
    /\ UNCHANGED <<queueVars, was_stopped, is_alive, destroying, running, call, arg, flushVars,
                   history>>

QueueSpuriousWakeUp(t) ==
    /\ Q!SpuriousWakeUp(t)
    /\ UNCHANGED <<flags, wpc, running, call, arg, flushVars, history>>

----------------------------------------------------------------------------
WorkerStep ==
    \/ WorkerLoop \/ WorkerDequeue \/ RunTask \/ RunSleep \/ SleepCancelled
    \/ RunFlush \/ TouchInvoked \/ TouchCv \/ WorkerFlushed

\* A call that has begun goes on.
CallStep(t) ==
    \/ InvokeEnqueue(t) \/ InvokeResume(t) \/ InvokeNotify(t)
    \/ t \in Client /\
       ( \/ FlushCheck(t)
         \/ StartQueue(t)
         \/ call[t] = "dtor_stop" /\ StopFlag(t)
         \/ StopClear(t) \/ StopUnflush(t) \/ StopReturn(t)
         \/ DestroyClear(t) \/ DestroyKill(t) \/ DestroyJoin(t) )

Timeouts ==
    \/ WorkerTimeout \/ SleepOver
    \/ \E t \in Client : FlushTimeout(t)

NewCall ==
    \/ \E t \in Thread, kind \in {"task", "sleep"} : Invoke(t, kind, "invoke")
    \/ \E t \in Client, kind \in {"task", "sleep"} : Invoke(t, kind, "invoke_blocking")
    \/ \E t \in Client :
          \/ Flush(t) \/ StartFlag(t) \/ Destroy(t)
          \/ call[t] = "out" /\ StopFlag(t)

Spurious == \/ \E t \in Thread : QueueSpuriousWakeUp(t)
            \/ \E t \in Client : FlushSpuriousWakeUp(t)

Next == WorkerStep \/ (\E t \in Thread : CallStep(t)) \/ Timeouts \/ NewCall \/ Spurious

Spec == Init /\ [][Next]_vars

\* The scheduler runs every thread that can run; time is not part of it.
Fairness == WF_vars(WorkerStep) /\ \A t \in Thread : WF_vars(CallStep(t))

\* The sleep of an item ends, and trySleep gets was_stopped_mutex_ in the end,
\* however often start() takes it in between.
SleepsEnd == SF_vars(RunSleep) /\ SF_vars(SleepOver)

----------------------------------------------------------------------------
(* Properties *)

\* The members have their types; the worker is in a call only from an item.
TypeOK ==
    /\ Q!TypeOK
    /\ was_stopped \in BOOLEAN /\ was_flushed \in BOOLEAN
    /\ is_alive \in BOOLEAN /\ destroying \in BOOLEAN
    /\ wpc \in WorkerPC
    /\ running \in Seq(Item)
    /\ Len(running) = IF wpc \in {"run", "sleep", "touch", "touch_cv"} THEN 1 ELSE 0
    /\ call \in [Thread -> CallPC]
    /\ arg \in [Thread -> Seq(Item)]
    /\ \A t \in Thread : Len(arg[t]) =
          IF call[t] \in {"invoke", "invoke_blocking", "enqueue"} THEN 1 ELSE 0
    /\ invoked \in [Client -> BOOLEAN]
    /\ expired \subseteq Item
    /\ count \in [Thread -> Nat]
    /\ last \in [Thread -> Nat]
    /\ excused \subseteq Item
    /\ dirty \in [Client -> BOOLEAN]
    /\ abandoned \subseteq Client

\* stop() does not return while the item that was running when it cleared the
\* queue still runs: after stop() the objects that item uses may go
\* (dispatcher.cc:29-42, 53-69; gemini_sensor.cc:205-217).
StopWaitsForRunningItem ==
    \A t \in Client : call[t] = "stop_wait" /\ was_flushed => ~dirty[t]

\* Once stop() has cleared the queue, and until start(), the queue holds only items
\* whose invoke had passed its check of was_stopped_ before the clear; worker and
\* late producers bring back nothing else (dispatcher.h:52-58, dispatcher.cc:53-60,
\* consumer_queue.h:61).
StopDrains ==
    was_stopped /\ (\A t \in Client : call[t] # "stop_clear") =>
        \A i \in DOMAIN queue : queue[i] \in excused

\* The worker takes the items of a thread in the order it invoked them and none
\* twice, whatever was dropped, blocked or cleared in between
\* (dispatcher.cc:26-36, consumer_queue.h:35-74).
RunsInOrder ==
    [][wpc = "dequeue" /\ running' # <<>> =>
          running'[1].n > last[running'[1].by]]_vars

\* Has flush() returned because its lambda ran, and had no flush() of that thread
\* returned before its lambda, then nothing this thread invoked before is
\* queued or running (dispatcher.cc:78-97).
FlushedBefore(t) ==
    /\ \A i \in DOMAIN queue : queue[i].by = t => queue[i].n >= count[t]
    /\ wpc \in {"run", "sleep"} => running[1].by # t \/ running[1].n >= count[t]
FlushDrains ==
    \A t \in Client :
        InFlush(t) /\ invoked[t] /\ t \notin abandoned => FlushedBefore(t)

\* stop() returns, without help from any timeout (dispatcher.cc:53-69).
StopReturns ==
    \A t \in Client : call[t] = "stop_clear" ~> call[t] \in {"out", "dtor_clear"}

----------------------------------------------------------------------------
(***************************************************************************)
(* The dispatcher implements WorkQueue.  An item is offered while a thread *)
(* has it in its hands, and stop() is "stopping" from its clear to its     *)
(* return.                                                                 *)
(***************************************************************************)
W == INSTANCE WorkQueue WITH
        Caller <- Client,
        stopped <- was_stopped,
        closed <- ~accepting,
        offered <- InHands,
        pending <- queue,
        stopping <- {t \in Client : call[t] \in {"stop_unflush", "stop_wait"}},
        barrier <- {t \in Client : dirty[t]}

\* Seen from outside, the dispatcher does nothing but queue, run and drop what it
\* was offered, and a stop() lets nothing that ran survive it
\* (dispatcher.h:50-58, dispatcher.cc:24-76).
ImplementsWorkQueue == W!Spec

\* If sleeps end, the worker takes what is queued and ends what it runs, and stop()
\* returns; a lost wake-up anywhere below would refute it (dispatcher.cc:26-42, 53-69).
WorkGoesOn == SleepsEnd => W!Liveness
=============================================================================
