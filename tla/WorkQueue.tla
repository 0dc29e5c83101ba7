----------------------------- MODULE WorkQueue -----------------------------
(***************************************************************************)
(* What a Dispatcher promises to the code that uses it, without its        *)
(* threads, locks and condition variables: items offered while it is open  *)
(* are run one at a time and in the order they were queued, unless an      *)
(* overflow, a late arrival or a stop drops them; stop() returns when what *)
(* ran at that moment has ended.                                           *)
(*                                                                         *)
(* The module Dispatcher implements it (src/concurrency/dispatcher.{h,cc}).*)
(***************************************************************************)
EXTENDS Naturals, Sequences

CONSTANTS
    Caller,     \* the threads that may stop it
    Capacity    \* from this length on a push may cost the oldest item

VARIABLES
    stopped,    \* it takes no new offers
    closed,     \* it drops what is offered: a stop() has cleared it
    offered,    \* items taken before it stopped and not yet queued or dropped
    pending,    \* the queued items, oldest first
    running,    \* the item that runs: <<x>> or <<>>
    stopping,   \* the callers inside stop(), after its clear
    barrier     \* the callers whose stop() waits for the running item

wvars == <<stopped, closed, offered, pending, running, stopping, barrier>>

Init ==
    /\ stopped = TRUE
    /\ closed = FALSE
    /\ offered = {}
    /\ pending = <<>>
    /\ running = <<>>
    /\ stopping = {}
    /\ barrier = {}

\* invoke: the offer counts from the moment the test of the stop flag is passed.
Offer(x) ==
    /\ ~stopped
    /\ offered' = offered \cup {x}
    /\ UNCHANGED <<stopped, closed, pending, running, stopping, barrier>>

\* The offer is queued, at the cost of the oldest item if there is no room; a closed
\* queue drops it.
Queue(x) ==
    /\ x \in offered
    /\ offered' = offered \ {x}
    /\ \/ closed /\ pending' = pending
       \/ ~closed /\ Len(pending) < Capacity /\ pending' = Append(pending, x)
       \/ ~closed /\ Len(pending) >= Capacity /\ pending' = Tail(Append(pending, x))
    /\ UNCHANGED <<stopped, closed, running, stopping, barrier>>

\* A blocking offer that has waited for room drops nothing and is not dropped.
QueueBlocked(x) ==
    /\ x \in offered
    /\ offered' = offered \ {x}
    /\ pending' = Append(pending, x)
    /\ UNCHANGED <<stopped, closed, running, stopping, barrier>>

\* The worker takes the oldest item; to ask for one may re-open the queue.
Take ==
    /\ running = <<>> /\ pending # <<>>
    /\ running' = <<Head(pending)>>
    /\ pending' = Tail(pending)
    /\ closed' \in {closed, FALSE}
    /\ UNCHANGED <<stopped, offered, stopping, barrier>>

Finish ==
    /\ running # <<>>
    /\ running' = <<>>
    /\ barrier' = {}
    /\ UNCHANGED <<stopped, closed, offered, pending, stopping>>

\* The worker asks in vain, or start() ends.
Reopen == closed' = FALSE /\ UNCHANGED <<stopped, offered, pending, running, stopping, barrier>>

Open == stopped' = FALSE /\ UNCHANGED <<closed, offered, pending, running, stopping, barrier>>

Close == stopped' = TRUE /\ UNCHANGED <<closed, offered, pending, running, stopping, barrier>>

\* stop() drops what is queued and marks what runs.
Clear(c) ==
    /\ closed' = TRUE
    /\ pending' = <<>>
    /\ stopping' = stopping \cup {c}
    /\ barrier' = IF running = <<>> THEN barrier \ {c} ELSE barrier \cup {c}
    /\ UNCHANGED <<stopped, offered, running>>

StopReturn(c) ==
    /\ c \in stopping \ barrier
    /\ stopping' = stopping \ {c}
    /\ UNCHANGED <<stopped, closed, offered, pending, running, barrier>>

\* The destructor drops what came late.
Drop ==
    /\ closed' = TRUE
    /\ pending' = <<>>
    /\ UNCHANGED <<stopped, offered, running, stopping, barrier>>

\* Any item may be offered.
Next ==
    \/ \E x \in offered' : Offer(x)
    \/ \E x \in offered : Queue(x) \/ QueueBlocked(x)
    \/ Take \/ Reopen \/ Finish \/ Open \/ Close \/ Drop
    \/ \E c \in Caller : Clear(c) \/ StopReturn(c)

Spec == Init /\ [][Next]_wvars

\* What is queued is taken in the end or goes away, and what runs ends; a stop()
\* that waits for nothing returns.
Liveness ==
    /\ WF_wvars(Take) /\ WF_wvars(Finish)
    /\ \A c \in Caller : WF_wvars(StopReturn(c))
=============================================================================
