---------------------------- MODULE FrameArchive ----------------------------
(***************************************************************************)
(* One FrameArchive<T> of src/core/frame_archive.h with the frames it      *)
(* publishes (FrameData of src/core/frame_data.cc), its two SmallHeaps     *)
(* (include/smartereye2/se_types.hpp) and the FrameHolders that refer to   *)
(* its frames (src/core/frame.h).                                          *)
(*                                                                         *)
(* A frame lives in a slot of the heap published_frames_ or, when the heap *)
(* gives none, in an object of its own.  The actors are the FrameHolders:  *)
(* an operation of holder h runs in the thread that h belongs to, and is   *)
(* split between two accesses to shared state unless mutex_ or a heap's    *)
(* mutex covers both.  mutex_ is held in "allocate" and "track".  What a   *)
(* frame shows is abstracted to whether it is there (owner_ is set).       *)
(***************************************************************************)
EXTENDS Integers, FiniteSets, Sequences

CONSTANTS
    Holder,     \* the FrameHolders: the references there can be at one time
    Slot,       \* buffer_ of published_frames_ (kUserQueueSize of them)
    Spare,      \* the objects new T() may return
    NoFrame,    \* the null pointer
    MaxFrames,  \* *max_frame_queue_size_; 0: no limit and no use of the heap
    MaxDepth    \* how deep the callbacks of one archive nest

Obj == Slot \cup Spare

ASSUME ArchiveAssumption ==
    /\ IsFiniteSet(Holder) /\ IsFiniteSet(Slot) /\ IsFiniteSet(Spare)
    /\ Slot \cap Spare = {}
    /\ NoFrame \notin Obj
    /\ MaxFrames \in Nat /\ MaxDepth \in Nat

VARIABLES
    frame,              \* the frame each holder refers to
    pc,                 \* where the operation of each holder is
    ref_count, kept, owner, fixed,      \* the members of each frame object
    is_free, size, keep_allocating,     \* published_frames_
    news,               \* the objects of new T() not yet deleted
    count,              \* published_frames_count_
    cb_size, cb_allocating,             \* callback_inflight_, a heap of one slot
    callbacks,          \* the CallbackInvocationHolders alive, outermost first
    fpc, pending,       \* where flush() is, and pending_frames_size_
    late                \* history: the outermost callback began in or after a flush

frameVars == <<frame, pc, ref_count, kept, owner, fixed>>
heapVars == <<is_free, size, keep_allocating, news>>
callbackVars == <<cb_size, cb_allocating, callbacks, late>>
flushVars == <<fpc, pending>>
vars == <<frameVars, heapVars, count, callbackVars, flushVars>>

PC == {"idle", "allocate", "track", "keep_frame", "unpublish", "reset", "free",
       "delete"}
FlushPC == {"out", "stop_callbacks", "wait", "pending"}

Init ==
    /\ frame = [h \in Holder |-> NoFrame]
    /\ pc = [h \in Holder |-> "idle"]
    /\ ref_count = [o \in Obj |-> 0]
    /\ kept = [o \in Obj |-> FALSE]
    /\ owner = [o \in Obj |-> FALSE]
    /\ fixed = [o \in Obj |-> FALSE]
    /\ is_free = [s \in Slot |-> TRUE]
    /\ size = 0
    /\ keep_allocating = TRUE
    /\ news = {}
    /\ count = 0
    /\ cb_size = 0 /\ cb_allocating = TRUE /\ callbacks = <<>> /\ late = FALSE
    /\ fpc = "out" /\ pending = 0

Goto(h, p) == pc' = [pc EXCEPT ![h] = p]

\* mutex_ of the archive.
MutexFree == \A h \in Holder : pc[h] \notin {"allocate", "track"}

Empty(h) == pc[h] = "idle" /\ frame[h] = NoFrame
Holds(h) == pc[h] = "idle" /\ frame[h] # NoFrame

----------------------------------------------------------------------------
(* alloc_and_track: allocFrame, then trackFrame under mutex_ *)

\* publish_frame up to the test of the limit; a null pointer when it is reached.
Publish(h) ==
    /\ Empty(h) /\ MutexFree
    /\ MaxFrames > 0 => count < MaxFrames
    /\ Goto(h, "allocate")
    /\ UNCHANGED <<frame, ref_count, kept, owner, fixed, heapVars, count, callbackVars,
                   flushVars>>

FreeSlots == {s \in Slot : is_free[s]}

\* A slot of the heap, or new T() when there is no limit or the heap gives none.
Allocate(h) ==
    /\ pc[h] = "allocate" /\ Goto(h, "track")
    /\ \/ /\ MaxFrames > 0 /\ keep_allocating
          /\ \E s \in FreeSlots :
                /\ is_free' = [is_free EXCEPT ![s] = FALSE]
                /\ fixed' = [fixed EXCEPT ![s] = TRUE]
                /\ frame' = [frame EXCEPT ![h] = s]
          /\ size' = size + 1
          /\ UNCHANGED news
       \/ /\ MaxFrames = 0 \/ ~keep_allocating \/ FreeSlots = {}
          /\ \E o \in Spare \ news :
                /\ news' = news \cup {o}
                /\ frame' = [frame EXCEPT ![h] = o]
          /\ UNCHANGED <<fixed, is_free, size>>
    /\ UNCHANGED <<ref_count, kept, owner, keep_allocating, count, callbackVars, flushVars>>

\* ++published_frames_count_, the move assignment and acquire().
Track(h) ==
    /\ pc[h] = "track" /\ Goto(h, "idle")
    /\ count' = count + 1
    /\ ref_count' = [ref_count EXCEPT ![frame[h]] = 1]
    /\ kept' = [kept EXCEPT ![frame[h]] = FALSE]
    /\ owner' = [owner EXCEPT ![frame[h]] = TRUE]
    /\ UNCHANGED <<frame, fixed, heapVars, callbackVars, flushVars>>

----------------------------------------------------------------------------
(* The references *)

\* Mutant: the copy is made without acquire().
CloneNoAcquire(h, g) ==
    /\ Holds(h) /\ Empty(g)
    /\ frame' = [frame EXCEPT ![g] = frame[h]]
    /\ UNCHANGED <<pc, ref_count, kept, owner, fixed, heapVars, count, callbackVars,
                   flushVars>>

\* clone() of h into the empty holder g.
Clone(h, g) ==
    /\ Holds(h) /\ Empty(g)
    /\ frame' = [frame EXCEPT ![g] = frame[h]]
    /\ ref_count' = [ref_count EXCEPT ![frame[h]] = @ + 1]
    /\ UNCHANGED <<pc, kept, owner, fixed, heapVars, count, callbackVars, flushVars>>

\* keep(): the first one goes on to keep_frame.
Keep(h) ==
    /\ Holds(h) /\ ~kept[frame[h]]
    /\ kept' = [kept EXCEPT ![frame[h]] = TRUE]
    /\ Goto(h, "keep_frame")
    /\ UNCHANGED <<frame, ref_count, owner, fixed, heapVars, count, callbackVars, flushVars>>

KeepFrame(h) ==
    /\ pc[h] = "keep_frame" /\ Goto(h, "idle")
    /\ count' = count - 1
    /\ UNCHANGED <<frame, ref_count, kept, owner, fixed, heapVars, callbackVars, flushVars>>

\* release(): the last one goes on to unpublish_frame.
Release(h) ==
    /\ Holds(h)
    /\ ref_count' = [ref_count EXCEPT ![frame[h]] = @ - 1]
    /\ IF ref_count[frame[h]] = 1
       THEN Goto(h, "unpublish") /\ UNCHANGED frame
       ELSE frame' = [frame EXCEPT ![h] = NoFrame] /\ UNCHANGED pc
    /\ UNCHANGED <<kept, owner, fixed, heapVars, count, callbackVars, flushVars>>

\* unpublish_frame: keep() under mutex_, then deallocate or delete.
UnpublishFrame(h) ==
    /\ pc[h] = "unpublish" /\ MutexFree
    /\ kept' = [kept EXCEPT ![frame[h]] = TRUE]
    /\ count' = IF kept[frame[h]] THEN count ELSE count - 1
    /\ Goto(h, IF fixed[frame[h]] THEN "reset" ELSE "delete")
    /\ UNCHANGED <<frame, ref_count, owner, fixed, heapVars, callbackVars, flushVars>>

\* deallocate up to its lock: the object in the slot becomes a fresh T().
ResetSlot(h) ==
    /\ pc[h] = "reset" /\ Goto(h, "free")
    /\ ref_count' = [ref_count EXCEPT ![frame[h]] = 0]
    /\ kept' = [kept EXCEPT ![frame[h]] = FALSE]
    /\ owner' = [owner EXCEPT ![frame[h]] = FALSE]
    /\ UNCHANGED <<frame, fixed, heapVars, count, callbackVars, flushVars>>

FreeSlot(h) ==
    /\ pc[h] = "free" /\ Goto(h, "idle")
    /\ is_free' = [is_free EXCEPT ![frame[h]] = TRUE]
    /\ size' = size - 1
    /\ frame' = [frame EXCEPT ![h] = NoFrame]
    /\ UNCHANGED <<ref_count, kept, owner, fixed, keep_allocating, news, count, callbackVars,
                   flushVars>>

\* Mutant: the object is not deleted.
DeleteForgotten(h) ==
    /\ pc[h] = "delete" /\ Goto(h, "idle")
    /\ owner' = [owner EXCEPT ![frame[h]] = FALSE]
    /\ frame' = [frame EXCEPT ![h] = NoFrame]
    /\ UNCHANGED <<ref_count, kept, fixed, heapVars, count, callbackVars, flushVars>>

\* The next new T() at this address starts with fresh members.
Delete(h) ==
    /\ pc[h] = "delete" /\ Goto(h, "idle")
    /\ ref_count' = [ref_count EXCEPT ![frame[h]] = 0]
    /\ kept' = [kept EXCEPT ![frame[h]] = FALSE]
    /\ owner' = [owner EXCEPT ![frame[h]] = FALSE]
    /\ news' = news \ {frame[h]}
    /\ frame' = [frame EXCEPT ![h] = NoFrame]
    /\ UNCHANGED <<fixed, is_free, size, keep_allocating, count, callbackVars, flushVars>>

----------------------------------------------------------------------------
(***************************************************************************)
(* Callbacks and flush.  All callbacks of an archive run in one thread     *)
(* (the worker of GeminiSensor's data_dispatcher_); one may run inside     *)
(* another, when the frame a sensor hands to a ProcessingBlock is handed   *)
(* on by the block.                                                        *)
(***************************************************************************)

\* Does a CallbackInvocationHolder have the slot of callback_inflight_?
Invocation == {"slot", "null"}

\* begin_callback: the holder gets the only slot of callback_inflight_, or nothing.
BeginCallback ==
    /\ Len(callbacks) < MaxDepth
    /\ LET got == cb_allocating /\ cb_size = 0 IN
          /\ callbacks' = Append(callbacks, IF got THEN "slot" ELSE "null")
          /\ cb_size' = IF got THEN cb_size + 1 ELSE cb_size
    /\ late' = IF callbacks = <<>> THEN ~cb_allocating ELSE late
    /\ UNCHANGED <<frameVars, heapVars, count, cb_allocating, flushVars>>

\* ~CallbackInvocationHolder when the innermost callback has returned or thrown.
EndCallback ==
    /\ callbacks # <<>>
    /\ cb_size' = IF callbacks[Len(callbacks)] = "slot" THEN cb_size - 1 ELSE cb_size
    /\ callbacks' = SubSeq(callbacks, 1, Len(callbacks) - 1)
    /\ UNCHANGED <<frameVars, heapVars, count, cb_allocating, late, flushVars>>

FlushStopFrames ==
    /\ fpc = "out" /\ fpc' = "stop_callbacks"
    /\ keep_allocating' = FALSE
    /\ UNCHANGED <<frameVars, is_free, size, news, count, callbackVars, pending>>

FlushStopCallbacks ==
    /\ fpc = "stop_callbacks" /\ fpc' = "wait"
    /\ cb_allocating' = FALSE
    /\ UNCHANGED <<frameVars, heapVars, count, cb_size, callbacks, late, pending>>

\* waitUntilEmpty.
FlushWait ==
    /\ fpc = "wait" /\ fpc' = "pending"
    /\ cb_size = 0
    /\ UNCHANGED <<frameVars, heapVars, count, callbackVars, pending>>

FlushReturn ==
    /\ fpc = "pending" /\ fpc' = "out"
    /\ pending' = size
    /\ UNCHANGED <<frameVars, heapVars, count, callbackVars>>

----------------------------------------------------------------------------
HolderStep(h) ==
    \/ Publish(h) \/ Allocate(h) \/ Track(h)
    \/ \E g \in Holder : Clone(h, g)
    \/ Keep(h) \/ KeepFrame(h)
    \/ Release(h) \/ UnpublishFrame(h) \/ ResetSlot(h) \/ FreeSlot(h) \/ Delete(h)

FlushStep == FlushStopFrames \/ FlushStopCallbacks \/ FlushWait \/ FlushReturn

Next == (\E h \in Holder : HolderStep(h)) \/ BeginCallback \/ EndCallback \/ FlushStep

Spec == Init /\ [][Next]_vars

----------------------------------------------------------------------------
(* Properties *)

\* The members have their types; in particular published_frames_count_, an
\* unsigned integer in the code, does not go below zero (frame_archive.h:145-147).
TypeOK ==
    /\ frame \in [Holder -> Obj \cup {NoFrame}]
    /\ pc \in [Holder -> PC]
    /\ \A h \in Holder : pc[h] \notin {"idle", "allocate"} => frame[h] # NoFrame
    /\ ref_count \in [Obj -> Int] /\ kept \in [Obj -> BOOLEAN]
    /\ owner \in [Obj -> BOOLEAN] /\ fixed \in [Obj -> BOOLEAN]
    /\ is_free \in [Slot -> BOOLEAN]
    /\ size \in Nat /\ keep_allocating \in BOOLEAN
    /\ news \subseteq Spare
    /\ count \in Nat
    /\ cb_size \in {0, 1} /\ cb_allocating \in BOOLEAN
    /\ callbacks \in Seq(Invocation) /\ late \in BOOLEAN
    /\ fpc \in FlushPC /\ pending \in Nat

\* The holders whose reference is counted in frame o.
Refs(o) == {h \in Holder : frame[h] = o /\ pc[h] \in {"idle", "keep_frame"}}

\* Object o is handed out by the heap or by new.
InUse(o) == IF o \in Slot THEN ~is_free[o] ELSE o \in news

\* A frame somebody refers to is there: it counts exactly its holders, its memory
\* has not been given back, and no release of an earlier frame in the same slot
\* has wiped it (frame_data.cc:124-132, 199-208; frame_archive.h:111-143;
\* se_types.hpp:112-145).
HeldFramesIntact ==
    \A o \in Obj : Refs(o) # {} =>
        InUse(o) /\ owner[o] /\ ref_count[o] = Cardinality(Refs(o))

\* The frames that count against the limit: held and not kept, and the ones whose
\* keep() or last release() has yet to count down.
Counts(h) == \/ pc[h] = "keep_frame"
             \/ pc[h] \in {"idle", "unpublish"} /\ ~kept[frame[h]]
Counted == {o \in Obj : \E h \in Holder : frame[h] = o /\ Counts(h)}

\* published_frames_count_ counts the frames that are published and not kept, each
\* once however keep() and release() race, and stays within the limit
\* (frame_archive.h:115-124, 145-147; frame_data.cc:210-214).
PublishedWithinLimit ==
    /\ count = Cardinality(Counted)
    /\ MaxFrames > 0 => count <= MaxFrames

\* When nobody refers to a frame any more, all memory is back: the heap is empty,
\* every new has had its delete, nothing counts as published
\* (frame_archive.h:131-143; se_types.hpp:126-145).
NothingLeaks ==
    (\A h \in Holder : Empty(h)) =>
        count = 0 /\ size = 0 /\ FreeSlots = Slot /\ news = {}

\* flush() returns only when the callbacks that had begun before it have returned,
\* nested ones too, although callback_inflight_ has room for one
\* (frame_archive.h:86-96; se_callbacks.hpp:54-75; frame_source.cc:99-116).
FlushWaitsForCallbacks ==
    fpc = "pending" /\ callbacks # <<>> => late
=============================================================================
