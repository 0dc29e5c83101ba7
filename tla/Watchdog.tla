------------------------------ MODULE Watchdog ------------------------------
(***************************************************************************)
(* Watchdog of src/concurrency/watchdog.h: calls operation_ when nobody    *)
(* has kicked it for a whole timeout.                                      *)
(*                                                                         *)
(* watcher_ is the module RepeatOperation.  mutex_ is held across steps    *)
(* only by start(), around watcher_->start(); kicked_ is read without it.  *)
(***************************************************************************)
EXTENDS Naturals, Sequences

CONSTANTS
    Caller,     \* the threads that start, stop and kick it
    Worker      \* the thread of watcher_

ASSUME WatchdogAssumption == Worker \notin Caller

VARIABLES
    was_stopped, closed, offered, pending, running, stopping, barrier,
    stopped, rpc, ipc,  \* watcher_
    kicked,         \* kicked_
    is_running,     \* running_
    call,           \* where each caller is inside start() or stop() of the watchdog
    opc,            \* where the worker is inside the operation of watcher_
    \* history, read by no action
    silent,         \* no kick since the sleep began
    clean,          \* callers whose start() or stop() no call of the other kind has met
    armed,          \* such a start() has returned, and since then no stop() has begun and
                    \* operation_ has not thrown
    resting         \* such a stop() has returned, and since then no start() has begun

R == INSTANCE RepeatOperation

watcher == <<was_stopped, closed, offered, pending, running, stopping, barrier, stopped, rpc, ipc>>
history == <<silent, clean, armed, resting>>
vars == <<watcher, kicked, is_running, call, opc, history>>

Init ==
    /\ R!RepeatInit
    /\ kicked = FALSE
    /\ is_running = FALSE
    /\ call = [c \in Caller |-> "out"]
    /\ opc = "none"
    /\ silent = FALSE
    /\ clean = {}
    /\ armed = FALSE
    /\ resting = FALSE

MutexFree == \A c \in Caller : call[c] # "starting"

----------------------------------------------------------------------------
(* Callers *)

\* A start() begins, with mutex_ and with stopped_ of watcher_.
StartBegin(c) ==
    /\ call[c] = "out" /\ MutexFree
    /\ call' = [call EXCEPT ![c] = "starting"]
    /\ R!Start(c)
    /\ clean' = IF \E d \in Caller : call[d] \in {"stop", "stopping"} THEN {} ELSE {c}
    /\ resting' = FALSE
    /\ UNCHANGED <<kicked, is_running, opc, silent, armed>>

\* watcher_->start() has returned.
StartEnd(c) ==
    /\ call[c] = "starting" /\ rpc[c] = "out"
    /\ is_running' = TRUE
    /\ call' = [call EXCEPT ![c] = "out"]
    /\ armed' = (armed \/ c \in clean)
    /\ UNCHANGED <<watcher, kicked, opc, silent, clean, resting>>

StopBegin(c) ==
    /\ call[c] = "out" /\ MutexFree
    /\ is_running' = FALSE
    /\ call' = [call EXCEPT ![c] = "stop"]
    /\ clean' = clean \cup {c}
    /\ armed' = FALSE
    /\ UNCHANGED <<watcher, kicked, opc, silent, resting>>

StopWatcher(c) ==
    /\ call[c] = "stop"
    /\ call' = [call EXCEPT ![c] = "stopping"]
    /\ R!Stop(c)
    /\ UNCHANGED <<kicked, is_running, opc, history>>

StopEnd(c) ==
    /\ call[c] = "stopping" /\ rpc[c] = "out"
    /\ call' = [call EXCEPT ![c] = "out"]
    /\ resting' = (resting \/ c \in clean)
    /\ UNCHANGED <<watcher, kicked, is_running, opc, silent, clean, armed>>

Kick(c) ==
    /\ call[c] = "out" /\ MutexFree
    /\ kicked' = TRUE
    /\ silent' = FALSE
    /\ UNCHANGED <<watcher, is_running, call, opc, clean, armed, resting>>

----------------------------------------------------------------------------
(* The operation of watcher_: trySleep, the test, operation_, the reset *)

Take ==
    /\ R!Take
    /\ opc' = "sleep"
    /\ silent' = TRUE
    /\ UNCHANGED <<kicked, is_running, call, clean, armed, resting>>

\* trySleep returns false.
SleepCancelled ==
    /\ opc = "sleep" /\ R!StoppedMutexFree /\ was_stopped
    /\ R!OperationReturns
    /\ opc' = "none"
    /\ UNCHANGED <<kicked, is_running, call, history>>

SleepOver ==
    /\ opc = "sleep" /\ R!StoppedMutexFree /\ ~was_stopped
    /\ opc' = "check"
    /\ UNCHANGED <<watcher, kicked, is_running, call, history>>

\* Mutant: the test is forgotten.
CheckNothing ==
    /\ opc = "check"
    /\ opc' = "fire"
    /\ UNCHANGED <<watcher, kicked, is_running, call, history>>

Check ==
    /\ opc = "check"
    /\ opc' = IF kicked THEN "reset" ELSE "fire"
    /\ UNCHANGED <<watcher, kicked, is_running, call, history>>

FireReturns ==
    /\ opc = "fire"
    /\ opc' = "reset"
    /\ UNCHANGED <<watcher, kicked, is_running, call, history>>

\* operation_ throws: kicked_ is not reset and the loop is left.
FireThrows ==
    /\ opc = "fire"
    /\ R!OperationThrows
    /\ opc' = "none"
    /\ armed' = FALSE
    /\ clean' = {c \in clean : call[c] # "starting"}
    /\ UNCHANGED <<kicked, is_running, call, silent, resting>>

Reset ==
    /\ opc = "reset" /\ MutexFree
    /\ kicked' = FALSE
    /\ R!OperationReturns
    /\ opc' = "none"
    /\ UNCHANGED <<is_running, call, history>>

----------------------------------------------------------------------------
Caught(A) == A /\ UNCHANGED <<kicked, is_running, call, opc, history>>
CallStep(c) == StartEnd(c) \/ StopWatcher(c) \/ StopEnd(c) \/ Caught(R!CallStep(c))
WorkerStep ==
    \/ Take \/ SleepCancelled \/ SleepOver \/ Check \/ FireReturns \/ FireThrows \/ Reset
    \/ Caught(R!LoopStep)
NewCall(c) == StartBegin(c) \/ StopBegin(c) \/ Kick(c)

Next == WorkerStep \/ \E c \in Caller : CallStep(c) \/ NewCall(c)

Spec == Init /\ [][Next]_vars

\* Threads run; who asks for a mutex again and again gets it; a sleep ends.
Fairness ==
    /\ WF_vars(WorkerStep) /\ SF_vars(SleepOver) /\ SF_vars(Reset)
    /\ \A c \in Caller : WF_vars(CallStep(c))

----------------------------------------------------------------------------
(* Properties *)

\* The members have their types; the worker is in the operation exactly when its
\* item has it run, and mutex_ has one owner (watchdog.h:26-64).
TypeOK ==
    /\ R!TypeOK
    /\ kicked \in BOOLEAN /\ is_running \in BOOLEAN
    /\ call \in [Caller -> {"out", "starting", "stop", "stopping"}]
    /\ opc \in {"none", "sleep", "check", "fire", "reset"}
    /\ (opc = "none") <=> (ipc # "operation")
    /\ \A c, d \in Caller : call[c] = "starting" /\ call[d] = "starting" => c = d

\* operation_ runs only after a whole sleep without a kick, although kicked_ is
\* tested without mutex_ and a kick before the reset is lost (watchdog.h:27-31).
FiresOnSilence == [][opc = "check" /\ opc' = "fire" => silent]_vars

\* After a stop() that met no start(), and until the next start(), no operation runs
\* and none is queued or about to be (dispatcher.h:121-138, watchdog.h:46-52).
StopIsFinal == resting => offered = {} /\ pending = <<>> /\ running = <<>>

\* An armed watchdog tests again and again (watchdog.h:26-33).
TestsAgain == armed ~> (opc = "check" \/ ~armed)
=============================================================================
