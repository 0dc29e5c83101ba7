----------------------------- MODULE DataUnits -----------------------------
(***************************************************************************)
(* The data units a GeminiSerialPort receives (handleDataUnit and          *)
(* receiveFile): perception results become frames of the sensor, files are *)
(* written and acknowledged, the speed is kept for the frames.  The device *)
(* (external) sends files as header, data and tail, and may restart in the *)
(* middle of one.                                                          *)
(***************************************************************************)
EXTENDS Integers, Sequences

CONSTANTS
    Speeds,     \* the speeds the device reports
    MaxFrames,  \* bound: frames followed
    MaxSize,    \* bound: bytes of data units in one file
    MaxCuts     \* bound: restarts in the middle of a file

DataUnitsAssumption ==
    0 \in Speeds /\ MaxFrames \in Nat /\ MaxSize \in Nat /\ MaxCuts \in Nat

\* The extension whose archive gives the frame, for each kind of perception unit; an
\* AlgorithmResult holds one of the last two.
ExtensionOf ==
    [J2Perception |-> "JOURNEY_FRAME", Obstacle |-> "OBSTACLE_FRAME", Lane |-> "LANE_FRAME",
     FreeSpace |-> "FREESPACE_FRAME", TrafficSign |-> "TRAFFIC_SIGN_FRAME",
     TrafficLight |-> "TRAFFIC_LIGHT_FRAME", VehicleRealTimeInfo |-> "VEHICLE_INFO_FRAME",
     Matrix |-> "Matrix", SmallObsLabel |-> "SMALL_OBS_FRAME", Flatness |-> "FLATNESS_FRAME"]
Kinds == DOMAIN ExtensionOf

\* profiles_: the frame id of the profile that init() makes for each extension.
Profiles ==
    [OBSTACLE_FRAME |-> "Obstacle", LANE_FRAME |-> "Lane", FREESPACE_FRAME |-> "FreeSpace",
     SMALL_OBS_FRAME |-> "SmallObstacle", JOURNEY_FRAME |-> "J2Perception",
     TRAFFIC_SIGN_FRAME |-> "TrafficSign", TRAFFIC_LIGHT_FRAME |-> "TrafficLight",
     FLATNESS_FRAME |-> "Flatness", VEHICLE_INFO_FRAME |-> "VehicleInfo", Matrix |-> "Matrix"]

\* The extensions for which FrameSource::init makes an archive.
Supported ==
    {"VIDEO_FRAME", "COMPOSITE_FRAME", "POINTS", "DEPTH_FRAME", "DISPARITY_FRAME",
     "MOTION_FRAME", "POSE_FRAME", "JOURNEY_FRAME", "OBSTACLE_FRAME", "LANE_FRAME",
     "FREESPACE_FRAME", "SMALL_OBS_FRAME", "TRAFFIC_SIGN_FRAME", "TRAFFIC_LIGHT_FRAME",
     "FLATNESS_FRAME", "VEHICLE_INFO_FRAME", "Matrix"}

VARIABLES
    speed, frames,              \* speed_, and the frames dispatched to the sensor
    is_open, failed,            \* file_stream: open, and its failbit
    received_size,
    sending, sent,              \* the device: is it sending a file, the bytes sent of it
    written,                    \* history: the bytes of this transfer in its file
    resp,                       \* history: the last response, as the device reads it
    cut, cuts                   \* history: a file was cut and no tail came since

units == <<speed, frames>>
statics == <<is_open, failed, received_size>>
fileVars == <<statics, sending, sent, written, resp, cut, cuts>>
vars == <<units, fileVars>>

NoResp == [received |-> 0, continued |-> TRUE, written |-> 0]

Init ==
    /\ speed = 0 /\ frames = <<>>
    /\ is_open = FALSE /\ failed = FALSE /\ received_size = 0
    /\ sending = FALSE /\ sent = 0 /\ written = 0 /\ resp = NoResp
    /\ cut = FALSE /\ cuts = 0

\* SerialDataUnit_Speed.
Speed(v) == speed' = v /\ UNCHANGED <<frames, fileVars>>

\* A perception unit: a frame from its archive, with the profile of its extension and
\* the speed; without a frame the unit is dropped.
Perception(kind) ==
    /\ Len(frames) < MaxFrames
    /\ LET extension == ExtensionOf[kind] IN
          frames' = Append(frames, [kind |-> kind, extension |-> extension,
                                    frame_id |-> Profiles[extension], speed |-> speed])
    /\ UNCHANGED <<speed, fileVars>>

\* receiveFile of a header: open() of a stream that is open fails.
FileHeader ==
    /\ ~sending /\ sending' = TRUE /\ sent' = 0
    /\ is_open' = TRUE /\ failed' = is_open /\ written' = 0
    /\ UNCHANGED <<units, received_size, resp, cut, cuts>>

Respond(received, continued, inFile) ==
    resp' = [received |-> received, continued |-> continued, written |-> inFile]

\* receiveFile of n bytes: a stream that failed takes none, but they count.
FileData(n) ==
    /\ sending /\ sent + n <= MaxSize /\ sent' = sent + n
    /\ written' = IF failed THEN written ELSE written + n
    /\ received_size' = received_size + n
    /\ Respond(received_size', TRUE, written')
    /\ UNCHANGED <<units, is_open, failed, sending, cut, cuts>>

\* Mutant: the count goes on with the next file.
FileTailNoReset ==
    /\ sending /\ sending' = FALSE
    /\ Respond(received_size, FALSE, written)
    /\ is_open' = FALSE /\ cut' = FALSE
    /\ UNCHANGED <<units, failed, received_size, sent, written, cuts>>

\* receiveFile of a tail: the last response, and everything is as at the beginning.
FileTail ==
    /\ sending /\ sending' = FALSE
    /\ Respond(received_size, FALSE, written)
    /\ received_size' = 0 /\ is_open' = FALSE /\ cut' = FALSE
    /\ UNCHANGED <<units, failed, sent, written, cuts>>

\* The device restarts and does not send the rest.
Cut ==
    /\ sending /\ cuts < MaxCuts /\ cuts' = cuts + 1 /\ sending' = FALSE /\ cut' = TRUE
    /\ UNCHANGED <<units, statics, sent, written, resp>>

Next ==
    \/ \E v \in Speeds : Speed(v)
    \/ \E kind \in Kinds : Perception(kind)
    \/ FileHeader \/ (\E n \in 1..2 : FileData(n)) \/ FileTail \/ Cut

Spec == Init /\ [][Next]_vars

----------------------------------------------------------------------------
(* Properties *)

\* The variables have their types; every frame has an archive that gave it
\* (frame_source.cc:34-52), and received_size counts at most the files since the last
\* tail.
TypeOK ==
    /\ speed \in Speeds
    /\ \A i \in 1..Len(frames) :
          frames[i].kind \in Kinds /\ frames[i].speed \in Speeds /\ frames[i].extension \in Supported
    /\ is_open \in BOOLEAN /\ failed \in BOOLEAN
    /\ received_size \in 0..(MaxCuts + 1) * MaxSize
    /\ sending \in BOOLEAN /\ sent \in 0..MaxSize /\ written \in 0..MaxSize

\* Each response reports the bytes that are in the file, and a transfer that the
\* device cut spoils at most the one that follows: with its tail the counts agree
\* again (gemini_serial_port.cc:592-630).
ResponsesExact ==
    [][resp' # resp /\ ~cut => resp'.received = resp'.written]_vars
=============================================================================
