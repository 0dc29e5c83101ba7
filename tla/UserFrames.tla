----------------------------- MODULE UserFrames -----------------------------
(***************************************************************************)
(* What an application sees of the frames: the objects of the archives,    *)
(* used again and again for one packet after the other, the loadData() of  *)
(* each class, and the references of se2::Frame and se2::FrameSet.         *)
(*                                                                         *)
(* The steps inside the allocation and the release of one frame are those  *)
(* of FrameArchive; here both are one step.  A packet is known by its      *)
(* number; `packet' of an object is history, the packet it was given to.   *)
(***************************************************************************)
EXTENDS Integers, Sequences, FiniteSets

CONSTANTS
    ExtensionOf,    \* the streams, and the extension whose archive gives their frames
    Slots,          \* the objects of each archive
    Handles,        \* the Frame objects of the application
    None,
    MaxPackets      \* bound: packets

Streams == DOMAIN ExtensionOf

\* makeArchive.
ClassOf ==
    [VIDEO_FRAME |-> "VideoFrameData", COMPOSITE_FRAME |-> "CompositeFrameData",
     MOTION_FRAME |-> "MotionFrameData", POINTS |-> "PointsData",
     DEPTH_FRAME |-> "DepthFrameData", POSE_FRAME |-> "PoseData",
     DISPARITY_FRAME |-> "DisparityData", JOURNEY_FRAME |-> "JourneyFrameData",
     OBSTACLE_FRAME |-> "ObstacleFrameData", LANE_FRAME |-> "LaneFrameData",
     FREESPACE_FRAME |-> "FreeSpaceFrameData", SMALL_OBS_FRAME |-> "SmallObstacleFrameData",
     TRAFFIC_SIGN_FRAME |-> "TrafficSignFrameData",
     TRAFFIC_LIGHT_FRAME |-> "TrafficLightFrameData", FLATNESS_FRAME |-> "FlatnessFrameData",
     VEHICLE_INFO_FRAME |-> "VehicleInfoFrameData", Matrix |-> "MatrixData"]

\* The classes with num_ and a vector of elements.
Lists == {"ObstacleFrameData", "FreeSpaceFrameData", "LaneFrameData", "TrafficSignFrameData",
          "TrafficLightFrameData", "MatrixData"}

Extensions == {ExtensionOf[s] : s \in Streams}
Single == Extensions \X Slots
Composite == {"COMPOSITE_FRAME"} \X Slots
Objects == Single \cup Composite
Class(o) == ClassOf[o[1]]

UserFramesAssumption ==
    /\ \A s \in Streams : ExtensionOf[s] \in DOMAIN ClassOf \ {"COMPOSITE_FRAME"}
    /\ IsFiniteSet(Streams) /\ IsFiniteSet(Handles) /\ IsFiniteSet(Slots)
    /\ Slots \subseteq Nat /\ MaxPackets \in Nat /\ None \notin Objects

VARIABLES
    object,         \* the members of each object
    profile,        \* stream_profile_ of each object: a stream
    is_free,        \* published_frames_ of each archive
    matched,        \* the frame of each stream that waits for its set
    handle,         \* frame_ref_ of each Frame, with the packet it was made for
    packets         \* the packets so far

vars == <<object, profile, is_free, matched, handle, packets>>

\* FrameData() and the members of the derived classes.
Fresh == [data |-> 0, timestamp |-> 0, num |-> 0, elements |-> <<>>, value |-> 0,
          frames |-> <<>>, ref_count |-> 0, packet |-> 0]
NoHandle == [ref |-> None, packet |-> 0]

Init ==
    /\ object = [o \in Objects |-> Fresh]
    /\ profile = [o \in Objects |-> None]
    /\ is_free = [o \in Objects |-> TRUE]
    /\ matched = [s \in Streams |-> None]
    /\ handle = [h \in Handles |-> NoHandle]
    /\ packets = 0

----------------------------------------------------------------------------
(* Objects *)

\* Mutant: a class of its own operator= that forgets the vector.
MoveAssignBase(old, new) == [new EXCEPT !.elements = old.elements]

\* operator= of the class: the base moves data_, extension_data_ and ref_count_, each
\* derived class its own members too; stream_profile_ stays as it was.
MoveAssign(old, new) == new

\* alloc_frame: the first free object, as the archive's limit allows.
CanAlloc(extension) == \E i \in Slots : is_free[<<extension, i>>]
Alloc(extension) ==
    <<extension, CHOOSE i \in Slots :
        /\ is_free[<<extension, i>>]
        /\ \A j \in Slots : is_free[<<extension, j>>] => i <= j>>

\* The objects that a release() of o releases: a set takes its frames along.
WithFrames(o) ==
    IF o \in Composite /\ object[o].ref_count = 1
    THEN {o} \cup {object[o].frames[i] : i \in 1..Len(object[o].frames)} ELSE {o}

Gone(o, released) == o \in released /\ object[o].ref_count = 1

\* The objects after the release of some: the last reference resets and frees one.
Release(released) ==
    [o \in Objects |->
        IF Gone(o, released) THEN MoveAssign(object[o], Fresh)
        ELSE IF o \in released THEN [object[o] EXCEPT !.ref_count = @ - 1] ELSE object[o]]
Freed(released) == [o \in Objects |-> is_free[o] \/ Gone(o, released)]

\* The elements packet p holds: none, one or two.
Elements(p) == [i \in 1..(p % 3) |-> <<p, i>>]

\* loadData of each class, with the setTimestamp() the sensor or the serial port adds
\* for the classes that have none; a vehicle info has no time at all.
LoadData(frame, class, p) ==
    [frame EXCEPT
        !.data = p,
        !.timestamp = IF class = "VehicleInfoFrameData" THEN @ ELSE p,
        !.num = IF class \in Lists THEN Len(Elements(p)) ELSE @,
        !.elements = IF class \in Lists THEN @ \o Elements(p) ELSE @,
        !.value = IF class \in {"JourneyFrameData", "VehicleInfoFrameData"} THEN p ELSE @]

----------------------------------------------------------------------------
(* The library *)

SetStreamProfile(old, s) == s

\* A packet of stream s becomes a frame, which takes the place of the one that waits;
\* without a free object it is dropped.
Receive(s) ==
    /\ packets < MaxPackets /\ packets' = packets + 1
    /\ IF ~CanAlloc(ExtensionOf[s]) THEN UNCHANGED <<object, profile, is_free, matched>>
       ELSE LET o == Alloc(ExtensionOf[s])
                replaced == {matched[s]} \ {None}
                built == MoveAssign(object[o], [Fresh EXCEPT !.ref_count = 1, !.packet = packets'])
            IN /\ object' = [Release(replaced) EXCEPT ![o] = LoadData(built, Class(o), packets')]
               /\ is_free' = [Freed(replaced) EXCEPT ![o] = FALSE]
               /\ profile' = [profile EXCEPT ![o] = SetStreamProfile(@, s)]
               /\ matched' = [matched EXCEPT ![s] = o]
    /\ UNCHANGED handle

\* allocateCompositeFrame of a complete set, which waitForFrames() or pollForFrames()
\* hands to the application; without a free object the frames go on waiting.
Deliver(h) ==
    /\ handle[h] = NoHandle
    /\ \A s \in Streams : matched[s] # None
    /\ CanAlloc("COMPOSITE_FRAME")
    /\ \E frames \in {f \in [1..Cardinality(Streams) -> {matched[s] : s \in Streams}] :
                        {f[i] : i \in DOMAIN f} = {matched[s] : s \in Streams}} :
          LET o == Alloc("COMPOSITE_FRAME")
              made == [Fresh EXCEPT !.frames = frames, !.ref_count = 1, !.packet = packets]
          IN /\ object' = [object EXCEPT ![o] = MoveAssign(@, made)]
             /\ is_free' = [is_free EXCEPT ![o] = FALSE]
             /\ handle' = [handle EXCEPT ![h] = [ref |-> o, packet |-> packets]]
    /\ matched' = [s \in Streams |-> None]
    /\ UNCHANGED <<profile, packets>>

----------------------------------------------------------------------------
(* The application *)

Holds(h) == handle[h] # NoHandle
FrameSet(h) == Holds(h) /\ handle[h].ref \in Composite
Frames(h) == object[handle[h].ref].frames

\* data(), timestamp() and getProfile() of a Frame; num(), obstacles(), freeSpacePoints(),
\* meta() and vehicleInfo() of the derived classes.
Attributes(o) == [data |-> object[o].data, timestamp |-> object[o].timestamp, stream |-> profile[o]]
Results(o) == [num |-> object[o].num, elements |-> object[o].elements, value |-> object[o].value]

Handle(o) == [ref |-> o, packet |-> object[o].packet]
Acquire(o) == [object EXCEPT ![o] = [object[o] EXCEPT !.ref_count = @ + 1]]

\* The copy constructor, as<T>() and the by-value assignment.
Copy(h, g) ==
    /\ Holds(h) /\ ~Holds(g)
    /\ handle' = [handle EXCEPT ![g] = handle[h]]
    /\ object' = Acquire(handle[h].ref)
    /\ UNCHANGED <<profile, is_free, matched, packets>>

\* Mutant: no acquire().
FirstOrDefaultBare(h, g, s) ==
    /\ FrameSet(h) /\ ~Holds(g)
    /\ \E i \in 1..Len(Frames(h)) :
          /\ profile[Frames(h)[i]] = s
          /\ \A j \in 1..(i - 1) : profile[Frames(h)[j]] # s
          /\ handle' = [handle EXCEPT ![g] = Handle(Frames(h)[i])]
    /\ UNCHANGED <<object, profile, is_free, matched, packets>>

\* firstOrDefault, and first(), operator[](FrameId), getVideoFrame and getDepthFrame,
\* which call it: the first frame of the stream that is asked for.
FirstOrDefault(h, g, s) ==
    /\ FrameSet(h) /\ ~Holds(g)
    /\ \E i \in 1..Len(Frames(h)) :
          /\ profile[Frames(h)[i]] = s
          /\ \A j \in 1..(i - 1) : profile[Frames(h)[j]] # s
          /\ handle' = [handle EXCEPT ![g] = Handle(Frames(h)[i])]
          /\ object' = Acquire(Frames(h)[i])
    /\ UNCHANGED <<profile, is_free, matched, packets>>

\* operator[](size_t), and operator* of the iterator: a Frame, and no acquire().
Index(h, g, i) ==
    /\ FrameSet(h) /\ ~Holds(g) /\ i \in 1..Len(Frames(h))
    /\ handle' = [handle EXCEPT ![g] = Handle(Frames(h)[i])]
    /\ UNCHANGED <<object, profile, is_free, matched, packets>>

\* ~Frame.
Destroy(h) ==
    /\ Holds(h)
    /\ LET released == WithFrames(handle[h].ref) IN
          object' = Release(released) /\ is_free' = Freed(released)
    /\ handle' = [handle EXCEPT ![h] = NoHandle]
    /\ UNCHANGED <<profile, matched, packets>>

Next ==
    \/ \E s \in Streams : Receive(s)
    \/ \E h \in Handles : Deliver(h) \/ Destroy(h)
    \/ \E h, g \in Handles : Copy(h, g) \/ \E s \in Streams : FirstOrDefault(h, g, s)

Spec == Init /\ [][Next]_vars

\* An application that also takes frames of a set by their position.
NextIndexed == Next \/ \E h, g \in Handles : \E i \in 1..Cardinality(Streams) : Index(h, g, i)

SpecIndexed == Init /\ [][NextIndexed]_vars

----------------------------------------------------------------------------
(* Properties *)

\* The variables have their types; a handle that holds something refers to an object.
TypeOK ==
    /\ \A o \in Objects : object[o].ref_count \in Nat
    /\ profile \in [Objects -> Streams \cup {None}]
    /\ is_free \in [Objects -> BOOLEAN]
    /\ matched \in [Streams -> Single \cup {None}]
    /\ \A h \in Handles : Holds(h) => handle[h].ref \in Objects

\* What the object shows is what packet p said, and nothing of an earlier packet.
Shows(o, p) ==
    /\ Attributes(o).data = p
    /\ Class(o) # "VehicleInfoFrameData" => Attributes(o).timestamp = p
    /\ Class(o) \in Lists => Results(o).elements = Elements(p) /\ Results(o).num = Len(Elements(p))
    /\ Class(o) \in {"JourneyFrameData", "VehicleInfoFrameData"} => Results(o).value = p
    /\ ExtensionOf[Attributes(o).stream] = o[1]

\* A Frame that the application holds shows the packet it was made for, however often
\* its object and those of the other frames are used again: no element, number or
\* time of another packet (frame_data.cc:117-132, 307-397; se_types.hpp:126-145).
FramesShowTheirPacket ==
    \A h \in Handles : Holds(h) =>
        LET o == handle[h].ref IN
          /\ object[o].packet = handle[h].packet /\ ~is_free[o]
          /\ o \in Single => Shows(o, handle[h].packet)

\* A frame goes back to its archive with its last observer, as the comment on owner_
\* says (frame_data.h:107): not while a set that refers to it is held.
LastObserver ==
    \A h \in Handles : FrameSet(h) =>
        \A i \in 1..Len(Frames(h)) : ~is_free[Frames(h)[i]]
=============================================================================
