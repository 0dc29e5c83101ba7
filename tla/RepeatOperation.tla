--------------------------- MODULE RepeatOperation ---------------------------
(***************************************************************************)
(* RepeatOperation<T> of src/concurrency/dispatcher.h: an operation that   *)
(* runs again and again on a dispatcher of its own, because its item       *)
(* invokes itself anew.                                                    *)
(*                                                                         *)
(* The dispatcher is the module WorkQueue, which Dispatcher implements.    *)
(* What operation_ does is left to the module that uses this one.          *)
(***************************************************************************)
EXTENDS Naturals, Sequences

CONSTANTS
    Caller,     \* the threads that start and stop it
    Worker      \* the thread of dispatcher_

VARIABLES
    was_stopped, closed, offered, pending, running, stopping, barrier,   \* dispatcher_
    stopped,    \* stopped_
    rpc,        \* where each caller is inside start() or stop()
    ipc         \* where the worker is inside the item of loop()

\* dispatcher_(1).  An item is named after the thread that invokes it.
W == INSTANCE WorkQueue WITH stopped <- was_stopped, Capacity <- 1

dispatcher == <<was_stopped, closed, offered, pending, running, stopping, barrier>>
rvars == <<dispatcher, stopped, rpc, ipc>>

RepeatInit ==
    /\ W!Init
    /\ stopped = TRUE
    /\ rpc = [c \in Caller |-> "out"]
    /\ ipc = "idle"

Goto(c, from, to) == rpc[c] = from /\ rpc' = [rpc EXCEPT ![c] = to]

\* Dispatcher::start() holds was_stopped_mutex_ until it has re-opened the queue.
StoppedMutexFree == \A c \in Caller : rpc[c] # "start_reopen"

----------------------------------------------------------------------------
(* start: stopped_, dispatcher_.start(), loop() *)

Start(c) ==
    /\ Goto(c, "out", "start_open")
    /\ stopped' = FALSE
    /\ UNCHANGED <<dispatcher, ipc>>

StartOpen(c) ==
    /\ Goto(c, "start_open", "start_reopen")
    /\ StoppedMutexFree
    /\ W!Open
    /\ UNCHANGED <<stopped, ipc>>

StartReopen(c) ==
    /\ Goto(c, "start_reopen", "start_offer")
    /\ W!Reopen
    /\ UNCHANGED <<stopped, ipc>>

StartOffer(c) ==
    /\ \/ ~was_stopped /\ Goto(c, "start_offer", "start_queue") /\ W!Offer(c)
       \/ was_stopped /\ Goto(c, "start_offer", "out") /\ UNCHANGED dispatcher
    /\ UNCHANGED <<stopped, ipc>>

StartQueue(c) ==
    /\ Goto(c, "start_queue", "out")
    /\ W!Queue(c)
    /\ UNCHANGED <<stopped, ipc>>

----------------------------------------------------------------------------
(* stop: stopped_, dispatcher_.stop() *)

\* Mutant: dispatcher_ is not stopped.
StopFlagOnly(c) ==
    /\ Goto(c, "out", "out")
    /\ stopped' = TRUE
    /\ UNCHANGED <<dispatcher, ipc>>

Stop(c) ==
    /\ Goto(c, "out", "stop_close")
    /\ stopped' = TRUE
    /\ UNCHANGED <<dispatcher, ipc>>

StopClose(c) ==
    /\ Goto(c, "stop_close", "stop_clear")
    /\ StoppedMutexFree
    /\ W!Close
    /\ UNCHANGED <<stopped, ipc>>

StopClear(c) ==
    /\ Goto(c, "stop_clear", "stop_wait")
    /\ W!Clear(c)
    /\ UNCHANGED <<stopped, ipc>>

StopReturn(c) ==
    /\ Goto(c, "stop_wait", "out")
    /\ W!StopReturn(c)
    /\ UNCHANGED <<stopped, ipc>>

----------------------------------------------------------------------------
(* The worker: the item of loop() runs operation_, then invokes the next one *)

Take == ipc = "idle" /\ W!Take /\ ipc' = "operation" /\ UNCHANGED <<stopped, rpc>>

\* A dequeue that finds nothing leaves the queue open.
DequeueNothing ==
    /\ ipc = "idle" /\ pending = <<>> /\ closed
    /\ W!Reopen
    /\ UNCHANGED <<stopped, rpc, ipc>>

OperationReturns ==
    /\ ipc = "operation"
    /\ ipc' = "again"
    /\ UNCHANGED <<dispatcher, stopped, rpc>>

\* The exception leaves the item, and with it the loop; the dispatcher catches it.
OperationThrows ==
    /\ ipc = "operation"
    /\ W!Finish
    /\ ipc' = "idle"
    /\ UNCHANGED <<stopped, rpc>>

\* Mutant: the item does not invoke itself again.
AgainNever ==
    /\ ipc = "again"
    /\ ipc' = "end"
    /\ UNCHANGED <<dispatcher, stopped, rpc>>

Again ==
    /\ ipc = "again"
    /\ ipc' = IF stopped THEN "end" ELSE "offer"
    /\ UNCHANGED <<dispatcher, stopped, rpc>>

LoopOffer ==
    /\ ipc = "offer"
    /\ \/ ~was_stopped /\ W!Offer(Worker) /\ ipc' = "queue"
       \/ was_stopped /\ ipc' = "end" /\ UNCHANGED dispatcher
    /\ UNCHANGED <<stopped, rpc>>

LoopQueue ==
    /\ ipc = "queue"
    /\ W!Queue(Worker)
    /\ ipc' = "end"
    /\ UNCHANGED <<stopped, rpc>>

ItemEnds ==
    /\ ipc = "end"
    /\ W!Finish
    /\ ipc' = "idle"
    /\ UNCHANGED <<stopped, rpc>>

\* A call that has begun goes on; the worker goes on around the operation.
CallStep(c) ==
    \/ StartOpen(c) \/ StartReopen(c) \/ StartOffer(c) \/ StartQueue(c)
    \/ StopClose(c) \/ StopClear(c) \/ StopReturn(c)
LoopStep == DequeueNothing \/ Again \/ LoopOffer \/ LoopQueue \/ ItemEnds

\* The members have their types; the worker is in an item exactly when the
\* dispatcher runs one, and the queue keeps to its one place (dispatcher.h:107-143).
TypeOK ==
    /\ was_stopped \in BOOLEAN /\ closed \in BOOLEAN /\ stopped \in BOOLEAN
    /\ offered \subseteq Caller \cup {Worker}
    /\ pending \in {<<>>} \cup {<<x>> : x \in Caller \cup {Worker}}
    /\ running \in {<<>>} \cup {<<x>> : x \in Caller \cup {Worker}}
    /\ (running = <<>>) <=> (ipc = "idle")
    /\ stopping = {c \in Caller : rpc[c] = "stop_wait"} /\ barrier \subseteq stopping
    /\ rpc \in [Caller -> {"out", "start_open", "start_reopen", "start_offer", "start_queue",
                           "stop_close", "stop_clear", "stop_wait"}]
    /\ ipc \in {"idle", "operation", "again", "offer", "queue", "end"}
=============================================================================
