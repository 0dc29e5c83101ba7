---------------------------- MODULE Connections ----------------------------
(***************************************************************************)
(* The parts that keep a camera connected, side by side, and what each of  *)
(* them promises: SerialPort, StreamRead, Sensor, Pipeline and             *)
(* DeviceWatch.  MCConnections checks the promises on small instances,     *)
(* ConnectionProofs proves them.                                           *)
(***************************************************************************)
EXTENDS Integers

CONSTANTS
    None, Watcher,                                          \* no thread, a thread
    RetryLimit, UpSize, DownSize, LineFaults, Opens, Patient,   \* of SerialPort
    FrameLen, HeadSize, FirstMax, Wrap, Fifo, ReadFaults,       \* of StreamRead
    Callers, FrameIds, Necessary, Threshold, QueueSize, SensorStarts,
    SensorFaults,                                               \* of Sensor
    PipelineUsers, Callbacks, Starts, Stops, UserRestarts, Pluggings,   \* of Pipeline
    HubUsers, Hubs, Others, FastReplug, CreateFails, AtOnce, CameraPlugs, HubMoves,
    HubCalls                                                    \* of DeviceWatch

VARIABLES
    working_state, retry_times, serial, serial_running, port_pc, opens,
    receive_pc, todo, write_queue, writing, accepting, watchdog, kicked, watch_pc, up, down,
    peer, line_faults, late,                                        \* SerialPort
    read_pc, endpoint, buffer, transferred, offset, read_size, frame, last, overrun,
    read_faults,                                                    \* StreamRead
    init_pc, lock, caller_pc, is_opened, is_streaming, infos, active_profiles,
    has_serial, stream_pc, missing, is_valid, running, data_queue, executing, callback,
    sensor_starts, alive, sensor_faults, quiet, null_serial,        \* Sensor
    mutex, thread_pc, op, conf, profile, cached, active, prev_conf, is_stopping,
    streams_callback, sensors, valid, plugged, pluggings, polls, seen, registered, left,
    change, starts, stops, restarts, stopped, forced, refused, null_used,   \* Pipeline
    bus, plugs, moves, watching, poll_pc, discovered, curr, event, at, cb, callbacks, ids,
    state, device_list, camera_index, user, calls, erased_used      \* DeviceWatch

Port == INSTANCE SerialPort WITH
    cpc <- port_pc, rpc <- receive_pc, queue <- write_queue, wpc <- watch_pc,
    device <- peer, faults <- line_faults, MaxFaults <- LineFaults, MaxOpens <- Opens

Read == INSTANCE StreamRead WITH
    pc <- read_pc, faults <- read_faults, MaxFaults <- ReadFaults

Sensor == INSTANCE Sensor WITH
    cpc <- init_pc, apc <- caller_pc, serial <- has_serial, tpc <- stream_pc,
    valid <- is_valid, queue <- data_queue, starts <- sensor_starts,
    faults <- sensor_faults, crashed <- null_serial,
    MaxStarts <- SensorStarts, MaxFaults <- SensorFaults

Pipe == INSTANCE Pipeline WITH
    pc <- thread_pc, plugs <- pluggings, watching <- polls, discovered <- seen,
    event <- change, crashed <- null_used,
    Users <- PipelineUsers, MaxStarts <- Starts, MaxStops <- Stops,
    MaxRestarts <- UserRestarts, MaxPlugs <- Pluggings

Hub == INSTANCE DeviceWatch WITH
    pc <- poll_pc, crashed <- erased_used,
    Users <- HubUsers, MaxPlugs <- CameraPlugs, MaxMoves <- HubMoves, MaxCalls <- HubCalls

ASSUME PortAssumed == Port!SerialPortAssumption
ASSUME ReadAssumed == Read!StreamReadAssumption
ASSUME SensorAssumed == Sensor!SensorAssumption
ASSUME PipeAssumed == Pipe!PipelineAssumption
ASSUME HubAssumed == Hub!DeviceWatchAssumption

----------------------------------------------------------------------------
(* Properties *)

\* The type invariants of the parts.
TypesOK ==
    Port!TypeOK /\ Read!TypeOK /\ Sensor!TypeOK /\ Pipe!TypeOK /\ Hub!TypeOK

\* SerialPort: the timestamp is sent from a local that is still there.
TimestampAlive == Port!TimestampAlive

\* SerialPort: nothing runs on after close().
ClosedIsQuiet == Port!ClosedIsQuiet

\* StreamRead: a read that succeeds gave one whole frame, within the buffer.
SuccessIsWhole == Read!SuccessIsWhole

\* Sensor: no callback runs after stop().
QuietAfterStop == Sensor!QuietAfterStop

\* Pipeline: between calls the active device streams, and nothing else.
OnlyActiveStreams == Pipe!OnlyActiveStreams

\* Pipeline: after stop() there is no active profile.
StopStops == Pipe!StopStops

\* Pipeline: a start() gives up only if a stop(true) was called during it.
RefusedIsForced == Pipe!RefusedIsForced

\* DeviceWatch: a hub whose destructor returned is not called.
GoneIsQuiet == Hub!GoneIsQuiet
=============================================================================
