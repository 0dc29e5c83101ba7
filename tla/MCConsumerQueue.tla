-------------------------- MODULE MCConsumerQueue --------------------------
(***************************************************************************)
(* A small instance of ConsumerQueue for TLC: four threads share a queue   *)
(* of two places, as a Dispatcher or as a FrameAggregator uses it.         *)
(***************************************************************************)
EXTENDS ConsumerQueue, TLC

CONSTANT MaxLen     \* bound on the queue: a flushed queue takes any number of items

VARIABLE owner      \* whose queue it is

\* What a Dispatcher calls (src/concurrency/dispatcher.{h,cc}).
DispatcherOps == {"enqueue", "blockingEnqueue", "dequeue", "clear", "start"}

\* What the FrameAggregator calls (src/core/frame_aggregator.cc).
AggregatorOps == {"enqueue", "dequeue", "tryDequeue", "popFront", "clear"}

OfDispatcher == INSTANCE ConsumerQueue WITH Ops <- DispatcherOps
OfAggregator == INSTANCE ConsumerQueue WITH Ops <- AggregatorOps

MCInit == QueueInit /\ owner \in {"Dispatcher", "FrameAggregator"}

MCNext ==
    /\ \/ owner = "Dispatcher" /\ OfDispatcher!Next
       \/ owner = "FrameAggregator" /\ OfAggregator!Next
    /\ Len(queue') <= MaxLen
    /\ UNCHANGED owner

MCSpec == MCInit /\ [][MCNext]_<<qvars, owner>>

Symmetry == Permutations(Thread) \cup Permutations(Item)
=============================================================================
