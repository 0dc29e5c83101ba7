-------------------------- MODULE FrameAggregator --------------------------
(***************************************************************************)
(* FrameAggregator (core/frame_aggregator.cc) with the ProcessingBlock it  *)
(* is, and the references its frames carry: the worker of the sensor's     *)
(* dispatcher invokes the block with one frame at a time, handleFrame      *)
(* collects the last frame of each stream in last_set_ and queues a        *)
(* composite frame when every stream has one, the application takes the    *)
(* composites and their children, and Pipeline stops the block before the  *)
(* sensor.  Frames are numbered by the pack they came in; a composite is   *)
(* the function from streams to its children.                              *)
(***************************************************************************)
EXTENDS Integers, Sequences, FiniteSets, SequencesExt

CONSTANTS
    NStreams,   \* streams_to_aggregate_ids_ is 1..NStreams, in the order of a pack
    MaxRound,   \* bound: the packs the camera sends
    Capacity,   \* kFrameNum2Aggregate
    MaxSets,    \* the limit of the archive of composite frames
    NoFrame     \* the null pointer

Stream == 1..NStreams
Other == 0      \* a stream that is not aggregated, or a frame without a profile
Frame == (Stream \cup {Other}) \X (1..MaxRound)
Composite == [Stream -> Frame]
Uid(f) == f[1]
Round(f) == f[2]
Children(c) == {c[s] : s \in DOMAIN c}

AggregatorAssumption ==
    /\ NStreams \in Nat \ {0} /\ MaxRound \in Nat
    /\ Capacity \in Nat \ {0} /\ MaxSets \in Nat \ {0}
    /\ NoFrame \notin Frame \cup Composite

VARIABLES
    next,           \* <<round, stream>> of the next frame of the camera
    lost,           \* history: frames lost before the block, and composites not allocated
    ref, cref,      \* ref_count_ of the frames and of the composites that are alive
    wpc, frame, set,    \* the worker: where it is, its FrameHolders frame and sync_fref
    last_set,       \* a function from the streams that have a frame
    queue, queue_accepting, accepting,
    processing_callback, output_callback,   \* is there one?
    control,        \* where the life of the aggregator is
    user_set, user_frame,   \* the FrameSet and the Frame the application holds
    orphans         \* history: the frames whose only pointer was dropped

camera == <<next, lost>>
worker == <<wpc, frame, set>>
user == <<user_set, user_frame>>
flags == <<queue_accepting, accepting, processing_callback, output_callback, control>>
vars == <<camera, ref, cref, worker, last_set, queue, flags, user, orphans>>

\* ProcessingBlock's constructor, setProcessingCallback in start(), and
\* setOutputCallback if the application asked for callbacks.
BlockInit == processing_callback = TRUE /\ output_callback \in BOOLEAN

\* Construction and start() in Pipeline's onStart.
Init ==
    /\ next = <<1, 1>> /\ lost = 0
    /\ ref = [f \in Frame |-> 0] /\ cref = <<>>
    /\ wpc = "idle" /\ frame = NoFrame /\ set = NoFrame
    /\ last_set = <<>> /\ queue = <<>>
    /\ queue_accepting = TRUE /\ accepting = TRUE /\ BlockInit
    /\ control = "running"
    /\ user_set = NoFrame /\ user_frame = NoFrame
    /\ orphans = {}

Indicator(b) == IF b THEN 1 ELSE 0
Acquire(F) == ref' = [f \in Frame |-> ref[f] + Indicator(f \in F)]
Release(F) == ref' = [f \in Frame |-> ref[f] - Indicator(f \in F)]

\* CompositeFrameData::release() of each composite of C: the last one releases the
\* children and unpublishes the frame.
ReleaseComposites(C) ==
    LET dead == {c \in C : cref[c] = 1}
    IN  /\ cref' = [c \in DOMAIN cref \ dead |-> cref[c] - Indicator(c \in C)]
        /\ ref' = [f \in Frame |->
                      ref[f] - Cardinality({c \in dead : f \in Children(c)})]

----------------------------------------------------------------------------
(* The worker: ProcessingBlock::invoke and handleFrame *)

Following == IF next[2] = NStreams THEN <<next[1] + 1, 1>> ELSE <<next[1], next[2] + 1>>
Sending == next[1] <= MaxRound /\ control \notin {"quiet", "destroyed"}

\* invoke(): the holder is the only reference to the frame; begin_callback and
\* get_callback.
Arrive(f) ==
    /\ wpc = "idle" /\ Sending /\ ref[f] = 0
    /\ Uid(f) # Other => next' = Following /\ f = <<next[2], next[1]>>
    /\ Uid(f) = Other => UNCHANGED next
    /\ frame' = f /\ ref' = [ref EXCEPT ![f] = 1]
    /\ wpc' = IF output_callback THEN "release" ELSE "callback"
    /\ UNCHANGED <<lost, cref, set, last_set, queue, flags, user, orphans>>

\* A frame is lost before the block: no room in an archive or in the dispatcher.
Lose ==
    /\ Sending /\ next' = Following /\ lost' = lost + 1
    /\ UNCHANGED <<ref, cref, worker, last_set, queue, flags, user, orphans>>

\* processing_callback_ is read without the lock; without one the pointer is dropped.
TestCallback ==
    /\ wpc = "callback"
    /\ IF processing_callback
       THEN wpc' = "accepting" /\ UNCHANGED <<frame, orphans>>
       ELSE wpc' = "idle" /\ frame' = NoFrame /\ orphans' = orphans \cup {frame}
    /\ UNCHANGED <<camera, ref, cref, set, last_set, queue, flags, user>>

\* accepting_, and the frames without a profile or of another stream.
TestAccepting ==
    /\ wpc = "accepting"
    /\ wpc' = IF accepting /\ Uid(frame) # Other THEN "handle" ELSE "release"
    /\ UNCHANGED <<camera, ref, cref, frame, set, last_set, queue, flags, user, orphans>>

WithFrame == [s \in DOMAIN last_set \cup {Uid(frame)} |->
                 IF s = Uid(frame) THEN frame ELSE last_set[s]]

\* allocateCompositeFrame: the composites alive with the new one of these children.
Composed(children) ==
    [c \in DOMAIN cref \cup {children} |-> IF c = children THEN 1 ELSE cref[c]]

\* last_set_[uid] = frame.clone(), which releases the frame it replaces; with all
\* streams there, the clones of the set become the children of a new composite, or
\* are released when the archive gives none.
HandleFrame ==
    /\ wpc = "handle"
    /\ last_set' = WithFrame
    /\ LET old == IF Uid(frame) \in DOMAIN last_set THEN {last_set[Uid(frame)]} ELSE {}
           full == DOMAIN WithFrame = Stream
           got_one == full /\ Cardinality(DOMAIN cref) < MaxSets
       IN  /\ ref' = [f \in Frame |->
                        ref[f] + Indicator(f = frame) - Indicator(f \in old)
                        + Indicator(got_one /\ f \in Children(WithFrame))]
           /\ wpc' = IF got_one THEN "size" ELSE "release"
           /\ set' = IF got_one THEN WithFrame ELSE NoFrame
           /\ cref' = IF got_one THEN Composed(WithFrame) ELSE cref
           /\ lost' = lost + Indicator(full /\ ~got_one)
    /\ UNCHANGED <<next, frame, queue, flags, user, orphans>>

\* queue_->size() < kFrameNum2Aggregate, under the queue's lock and no longer.
TestSize ==
    /\ wpc = "size"
    /\ wpc' = IF Len(queue) < Capacity THEN "enqueue" ELSE "pop_front"
    /\ UNCHANGED <<camera, ref, cref, frame, set, last_set, queue, flags, user, orphans>>

\* enqueue(sync_fref.clone()): a queue that does not accept drops the clone.
Enqueue ==
    /\ wpc = "enqueue" /\ wpc' = "clear"
    /\ IF queue_accepting
       THEN queue' = Append(queue, set) /\ cref' = [cref EXCEPT ![set] = @ + 1]
       ELSE UNCHANGED <<queue, cref>>
    /\ UNCHANGED <<camera, ref, frame, set, last_set, flags, user, orphans>>

\* popFront(): the oldest set goes, and the new one is not queued either.
PopFront ==
    /\ wpc = "pop_front" /\ wpc' = "clear"
    /\ queue' = IF queue = <<>> THEN <<>> ELSE Tail(queue)
    /\ ReleaseComposites(IF queue = <<>> THEN {} ELSE {Head(queue)})
    /\ UNCHANGED <<camera, frame, set, last_set, flags, user, orphans>>

\* Mutant: the set stays, so that its frames are used again.
ClearNothing ==
    /\ wpc = "clear" /\ wpc' = "unref"
    /\ UNCHANGED <<camera, ref, cref, frame, set, last_set, queue, flags, user, orphans>>

\* last_set_.clear().
ClearLastSet ==
    /\ wpc = "clear" /\ wpc' = "unref"
    /\ Release(Children(last_set)) /\ last_set' = <<>>
    /\ UNCHANGED <<camera, cref, frame, set, queue, flags, user, orphans>>

\* ~FrameHolder of sync_fref.
Unref ==
    /\ wpc = "unref" /\ wpc' = "release"
    /\ ReleaseComposites({set}) /\ set' = NoFrame
    /\ UNCHANGED <<camera, frame, last_set, queue, flags, user, orphans>>

\* ~FrameHolder of the frame, here or in the output callback.
ReleaseFrame ==
    /\ wpc = "release" /\ wpc' = "idle"
    /\ Release({frame}) /\ frame' = NoFrame
    /\ UNCHANGED <<camera, cref, set, last_set, queue, flags, user, orphans>>

WorkerStep ==
    \/ \E f \in Frame : Arrive(f)
    \/ TestCallback \/ TestAccepting \/ HandleFrame \/ TestSize \/ Enqueue
    \/ PopFront \/ ClearLastSet \/ Unref \/ ReleaseFrame

----------------------------------------------------------------------------
(* The application: it waits for frames only while the pipeline runs (both   *)
(* take the mutex of Pipeline), and looks at a set as long as it likes.      *)

\* dequeue or tryDequeue with an item, and the FrameSet made of it.
Dequeue ==
    /\ control = "running" /\ ~output_callback /\ user_set = NoFrame /\ queue # <<>>
    /\ queue_accepting' = TRUE
    /\ user_set' = Head(queue) /\ queue' = Tail(queue)
    /\ UNCHANGED <<camera, ref, cref, worker, last_set, accepting, processing_callback,
                   output_callback, control, user_frame, orphans>>

\* Mutant: the child is handed out without acquire().
FirstOrDefaultBare(s) ==
    /\ user_set # NoFrame /\ user_frame = NoFrame
    /\ user_frame' = user_set[s]
    /\ UNCHANGED <<camera, ref, cref, worker, last_set, queue, flags, user_set, orphans>>

\* firstOrDefault(): acquire() of the child that is returned.
FirstOrDefault(s) ==
    /\ user_set # NoFrame /\ user_frame = NoFrame
    /\ user_frame' = user_set[s] /\ Acquire({user_set[s]})
    /\ UNCHANGED <<camera, cref, worker, last_set, queue, flags, user_set, orphans>>

\* ~Frame of the child, then or later of the set.
DropFrame ==
    /\ user_frame # NoFrame /\ user_frame' = NoFrame /\ Release({user_frame})
    /\ UNCHANGED <<camera, cref, worker, last_set, queue, flags, user_set, orphans>>

DropSet ==
    /\ user_set # NoFrame /\ user_set' = NoFrame /\ ReleaseComposites({user_set})
    /\ UNCHANGED <<camera, worker, last_set, queue, flags, user_frame, orphans>>

UserStep == Dequeue \/ (\E s \in Stream : FirstOrDefault(s)) \/ DropFrame \/ DropSet

----------------------------------------------------------------------------
(* unsafeStop(): stop() of the aggregator, then of the sensor, and the       *)
(* aggregator's end when the next start replaces it.                         *)

Control(from, to) == control = from /\ control' = to

StopAccepting ==
    /\ Control("running", "clear") /\ accepting' = FALSE
    /\ UNCHANGED <<camera, ref, cref, worker, last_set, queue, queue_accepting,
                   processing_callback, output_callback, user, orphans>>

\* queue_->clear(), which closes the queue.
StopClear ==
    /\ Control("clear", "reset")
    /\ ReleaseComposites(ToSet(queue)) /\ queue' = <<>> /\ queue_accepting' = FALSE
    /\ UNCHANGED <<camera, worker, last_set, accepting, processing_callback,
                   output_callback, user, orphans>>

\* setProcessingCallback(nullptr).
StopReset ==
    /\ Control("reset", "stopped") /\ processing_callback' = FALSE
    /\ UNCHANGED <<camera, ref, cref, worker, last_set, queue, queue_accepting, accepting,
                   output_callback, user, orphans>>

\* The sensor's stop() returns when its dispatcher is at rest.
SensorStops ==
    /\ Control("stopped", "quiet") /\ wpc = "idle"
    /\ UNCHANGED <<camera, ref, cref, worker, last_set, queue, queue_accepting, accepting,
                   processing_callback, output_callback, user, orphans>>

\* ~FrameAggregator.
Destroy ==
    /\ Control("quiet", "destroyed")
    /\ Release(Children(last_set)) /\ last_set' = <<>>
    /\ UNCHANGED <<camera, cref, worker, queue, queue_accepting, accepting,
                   processing_callback, output_callback, user, orphans>>

ControlStep == StopAccepting \/ StopClear \/ StopReset \/ SensorStops \/ Destroy

Next == WorkerStep \/ Lose \/ UserStep \/ ControlStep
Spec == Init /\ [][Next]_vars

----------------------------------------------------------------------------
(* Properties *)

\* The variables have their types; no count of references goes below zero.
TypeOK ==
    /\ next \in Nat \X Stream /\ lost \in Nat
    /\ ref \in [Frame -> Nat]
    /\ DOMAIN cref \subseteq Composite /\ \A c \in DOMAIN cref : cref[c] \in Nat \ {0}
    /\ frame \in Frame \cup {NoFrame} /\ set \in Composite \cup {NoFrame}
    /\ DOMAIN last_set \subseteq Stream /\ \A s \in DOMAIN last_set : Uid(last_set[s]) = s
    /\ queue \in Seq(Composite) /\ Len(queue) <= Capacity
    /\ user_set \in Composite \cup {NoFrame} /\ user_frame \in Frame \cup {NoFrame}
    /\ orphans \subseteq Frame

\* The references to frame f and to composite c that the program has.
FrameRefs(f) ==
    Indicator(frame = f) + Indicator(f \in Children(last_set)) + Indicator(user_frame = f)
    + Cardinality({c \in DOMAIN cref : f \in Children(c)}) + Indicator(f \in orphans)
CompositeRefs(c) ==
    Indicator(set = c) + Indicator(user_set = c) + Indicator(c \in ToSet(queue))

\* Every frame and every composite counts exactly the holders that refer to it, from
\* the sensor through last_set_ and the composites to the application, so that none
\* is freed in use or kept for ever; the only frames lost for good came after stop()
\* had taken the callback away (frame_aggregator.cc:99-120, synthetic_stream.cc:42-70,
\* frame_data.cc:227-238, processing.cc:52-55).
RefsBalanced ==
    /\ \A f \in Frame : ref[f] = FrameRefs(f)
    /\ \A c \in DOMAIN cref : cref[c] = CompositeRefs(c)
    /\ orphans # {} => control \in {"stopped", "quiet", "destroyed"}

\* The frames of one set are apart by no more packs than there were losses: an
\* incomplete set does not age while its streams go on (frame_aggregator.cc:104-105).
SkewWithinLoss ==
    \A c \in DOMAIN cref : \A s, t \in Stream : Round(c[s]) - Round(c[t]) <= lost

=============================================================================
