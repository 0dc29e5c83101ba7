------------------------------- MODULE Sensor -------------------------------
(***************************************************************************)
(* GeminiSensor with its SensorBase: open, start, stop and close of client *)
(* threads under operation_lock_, the stream thread that reads frames from *)
(* the device and counts the missing ones, and data_dispatcher_, which     *)
(* hands the frames of the stream thread and of the serial port's receive  *)
(* thread to the callback.  The dispatcher and the serial port are taken   *)
(* by what their own modules show of them.                                 *)
(***************************************************************************)
EXTENDS Integers, FiniteSets

CONSTANTS
    Callers,    \* client threads
    None,       \* no thread
    FrameIds,   \* the frames the device supports
    Necessary,  \* kNecessaryFrameIds
    Threshold,  \* kMissingFrameThreshold
    QueueSize,  \* bound: the dispatcher's queue
    MaxStarts,  \* bound: calls of start()
    MaxFaults   \* bound: failing requests, reads and serial ports

SensorAssumption ==
    /\ None \notin Callers /\ IsFiniteSet(FrameIds) /\ Necessary \subseteq FrameIds
    /\ Threshold \in Nat /\ QueueSize \in Nat /\ MaxStarts \in Nat /\ MaxFaults \in Nat

VARIABLES
    cpc,                            \* the constructor: initStreamProfiles()
    lock, apc,                      \* operation_lock_, and where each client thread is
    is_opened, is_streaming,
    infos, active_profiles,         \* active_frame_infos_, active_profiles_
    serial,                         \* serial_port_ has its serial_
    tpc, missing, valid,            \* the stream thread, missing_cnt, the device's is_valid_
    running, queue, executing,      \* data_dispatcher_; the callback it is in, or 0
    callback, starts,               \* frame_source_'s callback: the start() that set it
    alive, faults,                  \* the device answers
    quiet,                          \* history: stop() returned, and no start() since
    crashed                         \* a null serial_ was used

sensor == <<is_opened, infos, active_profiles, serial>>
stream == <<is_streaming, tpc, missing, valid>>
dispatcher == <<running, queue, executing>>
vars == <<cpc, lock, apc, sensor, stream, dispatcher, callback, starts, alive, faults,
          quiet, crashed>>

Init ==
    /\ cpc = "open_cam" /\ lock = None /\ apc = [c \in Callers |-> "idle"]
    /\ is_opened = FALSE /\ is_streaming = FALSE /\ infos = {} /\ active_profiles = {}
    /\ serial = FALSE /\ tpc = "none" /\ missing = 0 /\ valid = TRUE
    /\ running = FALSE /\ queue = 0 /\ executing = 0 /\ callback = 0 /\ starts = 0
    /\ alive = TRUE /\ faults = 0 /\ quiet = TRUE /\ crashed = FALSE

Fault == faults < MaxFaults /\ faults' = faults + 1
FaultIfAlive == IF alive THEN Fault ELSE UNCHANGED faults

\* initStreamProfiles(): OPEN_CAM and QUERY_FRAME_CAP are repeated until they succeed.
InitStreamProfiles ==
    /\ cpc # "ready" /\ alive
    /\ cpc' = IF cpc = "open_cam" THEN "query_frame_cap" ELSE "ready"
    /\ UNCHANGED <<lock, apc, sensor, stream, dispatcher, callback, starts, alive, faults,
                   quiet, crashed>>

----------------------------------------------------------------------------
(* Client threads *)

SetActiveStream(requests) == active_profiles' = requests
Calls(c) == cpc = "ready" /\ apc[c] = "idle" /\ lock = None

\* open(): the SET_FRAME_IDS request that fails makes it return, and is_opened_ is set
\* before the serial port is opened.
Open(c, requests) ==
    /\ Calls(c)
    /\ \/ (is_streaming \/ is_opened) /\ UNCHANGED <<sensor, faults>>
       \/ ~is_streaming /\ ~is_opened /\ FaultIfAlive /\ UNCHANGED sensor
       \/ /\ ~is_streaming /\ ~is_opened /\ alive
          /\ infos' = requests \cap Necessary /\ is_opened' = TRUE
          /\ \/ /\ serial' = TRUE /\ SetActiveStream(requests \cap Necessary)
                /\ UNCHANGED faults
             \/ Fault /\ UNCHANGED <<serial, active_profiles>>
    /\ UNCHANGED <<cpc, lock, apc, stream, dispatcher, callback, starts, alive, quiet, crashed>>

\* close(): GeminiSerialPort::close() uses serial_, which an open() that threw left null.
Close(c) ==
    /\ Calls(c)
    /\ \/ (is_streaming \/ ~is_opened) /\ UNCHANGED <<sensor, crashed>>
       \/ /\ ~is_streaming /\ is_opened
          /\ infos' = {} /\ is_opened' = FALSE
          /\ serial' = FALSE /\ crashed' = ~serial
          /\ SetActiveStream({})
    /\ UNCHANGED <<cpc, lock, apc, stream, dispatcher, callback, starts, alive, faults, quiet>>

\* start(): the dispatcher is started before anything is checked.
StartDispatcher(c) ==
    /\ Calls(c) /\ starts < MaxStarts /\ starts' = starts + 1
    /\ lock' = c /\ apc' = [apc EXCEPT ![c] = "start"]
    /\ running' = TRUE /\ quiet' = FALSE
    /\ UNCHANGED <<cpc, sensor, stream, queue, executing, callback, alive, faults, crashed>>

\* The rest of start(), with startStream().
Start(c) ==
    /\ apc[c] = "start" /\ lock' = None /\ apc' = [apc EXCEPT ![c] = "idle"]
    /\ \/ (is_streaming \/ ~is_opened) /\ UNCHANGED <<stream, callback>>
       \/ /\ ~is_streaming /\ is_opened
          /\ callback' = starts /\ is_streaming' = TRUE
          /\ tpc' = "test" /\ missing' = 0 /\ UNCHANGED valid
    /\ UNCHANGED <<cpc, sensor, dispatcher, starts, alive, faults, quiet, crashed>>

\* stop(): data_dispatcher_->flush() returns when the queue is empty or at its timeout.
StopFlush(c) ==
    /\ Calls(c) /\ lock' = c /\ apc' = [apc EXCEPT ![c] = "stop_dispatcher"]
    /\ UNCHANGED <<cpc, sensor, stream, dispatcher, callback, starts, alive, faults, quiet, crashed>>

\* Mutant: the dispatcher goes on.
StopDispatcherFlushed(c) ==
    /\ apc[c] = "stop_dispatcher" /\ apc' = [apc EXCEPT ![c] = "stop_wait"] /\ queue = 0
    /\ UNCHANGED <<cpc, lock, sensor, stream, dispatcher, callback, starts, alive, faults,
                   quiet, crashed>>

\* data_dispatcher_->stop(): nothing is accepted from now on.
StopDispatcher(c) ==
    /\ apc[c] = "stop_dispatcher" /\ apc' = [apc EXCEPT ![c] = "stop_wait"]
    /\ running' = FALSE /\ queue' = 0
    /\ UNCHANGED <<cpc, lock, sensor, stream, executing, callback, starts, alive, faults,
                   quiet, crashed>>

\* ... and the item that is running ends; then stop() looks whether there is a stream.
StopWait(c) ==
    /\ apc[c] = "stop_wait" /\ executing = 0
    /\ \/ /\ ~is_streaming /\ lock' = None /\ quiet' = TRUE
          /\ apc' = [apc EXCEPT ![c] = "idle"] /\ UNCHANGED is_streaming
       \/ /\ is_streaming /\ is_streaming' = FALSE
          /\ apc' = [apc EXCEPT ![c] = "stop_join"] /\ UNCHANGED <<lock, quiet>>
    /\ UNCHANGED <<cpc, sensor, tpc, missing, valid, dispatcher, callback, starts,
                   alive, faults, crashed>>

\* stopStream(): join.
StopJoin(c) ==
    /\ apc[c] = "stop_join" /\ tpc = "ended" /\ tpc' = "none"
    /\ apc' = [apc EXCEPT ![c] = "idle"] /\ lock' = None /\ quiet' = TRUE
    /\ UNCHANGED <<cpc, sensor, is_streaming, missing, valid, dispatcher, callback,
                   starts, alive, faults, crashed>>

----------------------------------------------------------------------------
(* The stream thread, the serial port's receive thread, the dispatcher, the device *)

ThreadUnchanged == UNCHANGED <<cpc, lock, apc, sensor, callback, starts, alive, quiet, crashed>>

ThreadTest ==
    /\ tpc = "test" /\ tpc' = IF is_streaming THEN "read" ELSE "ended"
    /\ UNCHANGED <<is_streaming, missing, valid, dispatcher, faults>> /\ ThreadUnchanged

\* stream_read() gave a frame: the device is valid again if frames were missing.
ReadOK ==
    /\ tpc = "read" /\ alive /\ tpc' = "handle"
    /\ missing' = 0 /\ valid' = (valid \/ missing > 0)
    /\ UNCHANGED <<is_streaming, dispatcher, faults>> /\ ThreadUnchanged

\* Mutant: each reset begins a new count.
ReadFailsRecount ==
    /\ tpc = "read" /\ tpc' = "test" /\ FaultIfAlive
    /\ missing' = IF missing >= Threshold THEN 0 ELSE missing + 1
    /\ UNCHANGED <<is_streaming, valid, dispatcher>> /\ ThreadUnchanged

\* stream_read() failed; above the threshold the device is reset and marked invalid.
\* missing_cnt matters only up to the threshold and stays there.
ReadFails ==
    /\ tpc = "read" /\ tpc' = "test" /\ FaultIfAlive
    /\ missing' = IF missing > Threshold THEN missing ELSE missing + 1
    /\ valid' = (valid /\ missing' <= Threshold)
    /\ UNCHANGED <<is_streaming, dispatcher>> /\ ThreadUnchanged

\* data_dispatcher_->invoke(): nothing when it is stopped, the oldest is dropped when full.
Dispatched(n) ==
    queue' = IF ~running THEN queue ELSE IF queue + n > QueueSize THEN QueueSize ELSE queue + n

\* handle_received_frames(): a frame of each active info that could be allocated.
HandleFrames ==
    /\ tpc = "handle" /\ tpc' = "test"
    /\ \E allocated \in SUBSET infos : Dispatched(Cardinality(allocated))
    /\ UNCHANGED <<is_streaming, missing, valid, running, executing, faults>>
    /\ ThreadUnchanged

\* dispatch_threaded() of a data unit that the serial port received.
SerialFrame ==
    /\ serial /\ Dispatched(1)
    /\ UNCHANGED <<stream, running, executing, faults>> /\ ThreadUnchanged

\* invoke_callback().
Invoke ==
    /\ queue > 0 /\ executing = 0 /\ queue' = queue - 1 /\ executing' = callback
    /\ UNCHANGED <<stream, running, faults>> /\ ThreadUnchanged
Return ==
    /\ executing # 0 /\ executing' = 0
    /\ UNCHANGED <<stream, running, queue, faults>> /\ ThreadUnchanged

\* The device stops to answer, or answers again.
DeviceChanges ==
    /\ alive' = ~alive /\ FaultIfAlive
    /\ UNCHANGED <<cpc, lock, apc, sensor, stream, dispatcher, callback, starts, quiet, crashed>>

Thread == ThreadTest \/ ReadOK \/ ReadFails \/ HandleFrames
Client(c) ==
    \/ \E requests \in SUBSET FrameIds : Open(c, requests)
    \/ Close(c) \/ StartDispatcher(c) \/ StopFlush(c)
Continues(c) == Start(c) \/ StopDispatcher(c) \/ StopWait(c) \/ StopJoin(c)

Next ==
    /\ ~crashed
    /\ \/ InitStreamProfiles \/ DeviceChanges
       \/ \E c \in Callers : Client(c) \/ Continues(c)
       \/ Thread \/ SerialFrame \/ Invoke \/ Return

Spec == Init /\ [][Next]_vars
\* Threads that can go on do; no one has to call, and the device need not live.
Fairness ==
    /\ WF_vars(~crashed /\ Thread) /\ WF_vars(~crashed /\ (Invoke \/ Return))
    /\ \A c \in Callers : WF_vars(~crashed /\ Continues(c))
FairSpec == Spec /\ Fairness

----------------------------------------------------------------------------
(* Properties *)

\* The variables have their types; the stream thread exists from start() to the end of
\* stop().
TypeOK ==
    /\ lock \in Callers \cup {None} /\ \A c \in Callers : apc[c] # "idle" => lock = c
    /\ infos \subseteq FrameIds /\ active_profiles \subseteq FrameIds
    /\ missing \in 0..Threshold + 1 /\ queue \in 0..QueueSize /\ executing \in 0..starts
    /\ tpc \in {"none", "test", "read", "handle", "ended"} /\ (is_streaming => tpc # "none")

\* From the return of stop(), also of one that throws, to the next call of start() no
\* callback runs, although the stream thread goes on after the dispatcher was stopped
\* and the serial port until close() (gemini_sensor.cc:205-217, 232-238).
QuietAfterStop == quiet => executing = 0

\* A device that never answers again is marked invalid, which is what makes the pipeline
\* reconnect, as long as the sensor streams (gemini_sensor.cc:256-264).
DeadIsNoticed == <>[](~alive /\ is_streaming) => <>[](~valid)

=============================================================================
