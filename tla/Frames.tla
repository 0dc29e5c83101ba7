------------------------------- MODULE Frames -------------------------------
(***************************************************************************)
(* The parts a frame passes through, side by side, and what each of them   *)
(* promises: the archive of FrameArchive, the FrameAggregator, the frames  *)
(* of UserFrames and the units of DataUnits.  MCFrames checks the promises *)
(* on small instances, FrameProofs proves them.                            *)
(***************************************************************************)
EXTENDS FrameArchive

CONSTANTS
    None,                                           \* the null pointer of UserFrames
    NStreams, MaxRound, Capacity, MaxSets,          \* of FrameAggregator
    StreamExtensions, Slots, Handles, MaxPackets,   \* of UserFrames
    Speeds, MaxUnits, MaxSize, MaxCuts              \* of DataUnits

VARIABLES
    next, lost, ref, cref, wpc, worker_frame, set, last_set, queue, queue_accepting,
    accepting, processing_callback, output_callback, control, user_set, user_frame,
    orphans,                                            \* FrameAggregator
    object, profile, free, matched, handle, packets,    \* UserFrames
    speed, frames, is_open, failed, received_size, sending, sent, written, resp, cut,
    cuts                                                \* DataUnits

Aggregator == INSTANCE FrameAggregator WITH frame <- worker_frame

User == INSTANCE UserFrames WITH ExtensionOf <- StreamExtensions, is_free <- free

Units == INSTANCE DataUnits WITH MaxFrames <- MaxUnits

ASSUME AggregatorAssumed == Aggregator!AggregatorAssumption
ASSUME UserAssumed == User!UserFramesAssumption
ASSUME UnitsAssumed == Units!DataUnitsAssumption

----------------------------------------------------------------------------
(* Properties *)

\* The type invariants of the parts.
TypesOK == TypeOK /\ Aggregator!TypeOK /\ User!TypeOK /\ Units!TypeOK

\* FrameAggregator: every frame and every composite counts exactly its holders.
RefsBalanced == Aggregator!RefsBalanced

\* FrameAggregator: the frames of a set are apart by no more packs than were lost.
SkewWithinLoss == Aggregator!SkewWithinLoss

\* UserFrames: a Frame the application holds shows the packet it was made for.
FramesShowTheirPacket == User!FramesShowTheirPacket

\* UserFrames: a frame goes back to its archive with its last observer.
LastObserver == User!LastObserver

\* DataUnits: each response reports the bytes that are in the file.
ResponsesExact == Units!ResponsesExact
=============================================================================
