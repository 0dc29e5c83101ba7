--------------------------- MODULE MCConnections ---------------------------
(***************************************************************************)
(* Small instances of the parts of Connections, for TLC.  A behaviour is   *)
(* one of one part of Parts; the others stay as they begin.  The pipeline  *)
(* is there twice: used by waiting for frames ("waits"), and with          *)
(* callbacks and restarts ("restarts").                                    *)
(***************************************************************************)
EXTENDS Connections

CONSTANT Parts      \* the parts of this run

VARIABLE part

Restarts == INSTANCE Pipeline WITH
    pc <- thread_pc, plugs <- pluggings, watching <- polls, discovered <- seen,
    event <- change, crashed <- null_used,
    Users <- PipelineUsers, Callbacks <- {TRUE}, MaxStarts <- 2, MaxStops <- 1,
    MaxRestarts <- 1, MaxPlugs <- Pluggings

ASSUME Restarts!PipelineAssumption

MCInit ==
    /\ part \in Parts
    /\ Port!Init /\ Read!Init /\ Sensor!Init /\ Pipe!Init /\ Hub!Init

portVars ==
    <<working_state, retry_times, serial, serial_running, port_pc, opens,
      receive_pc, todo, write_queue, writing, accepting, watchdog, kicked, watch_pc, up, down,
      peer, line_faults, late>>
readVars ==
    <<read_pc, endpoint, buffer, transferred, offset, read_size, frame, last, overrun,
      read_faults>>
sensorVars ==
    <<init_pc, lock, caller_pc, is_opened, is_streaming, infos, active_profiles,
      has_serial, stream_pc, missing, is_valid, running, data_queue, executing, callback,
      sensor_starts, alive, sensor_faults, quiet, null_serial>>
pipelineVars ==
    <<mutex, thread_pc, op, conf, profile, cached, active, prev_conf, is_stopping,
      streams_callback, sensors, valid, plugged, pluggings, polls, seen, registered, left,
      change, starts, stops, restarts, stopped, forced, refused, null_used>>
hubVars ==
    <<bus, plugs, moves, watching, poll_pc, discovered, curr, event, at, cb, callbacks, ids,
      state, device_list, camera_index, user, calls, erased_used>>
MCvars == <<part, portVars, readVars, sensorVars, pipelineVars, hubVars>>

MCNext ==
    \/ /\ part = "port" /\ Port!Next
       /\ UNCHANGED <<part, readVars, sensorVars, pipelineVars, hubVars>>
    \/ /\ part = "read" /\ Read!Next
       /\ UNCHANGED <<part, portVars, sensorVars, pipelineVars, hubVars>>
    \/ /\ part = "sensor" /\ Sensor!Next
       /\ UNCHANGED <<part, portVars, readVars, pipelineVars, hubVars>>
    \/ /\ \/ part = "waits" /\ Pipe!Next
          \/ part = "restarts" /\ Restarts!Next
       /\ UNCHANGED <<part, portVars, readVars, sensorVars, hubVars>>
    \/ /\ part = "hub" /\ Hub!Next
       /\ UNCHANGED <<part, portVars, readVars, sensorVars, pipelineVars>>

MCSpec == MCInit /\ [][MCNext]_MCvars

\* The Fairness of each part, as far as it is the one that moves.
MCFairSpec ==
    /\ MCSpec
    /\ WF_portVars(part = "port" /\ Port!Connect)
    /\ WF_portVars(part = "port" /\ Port!Receiver)
    /\ WF_portVars(part = "port" /\ (Port!CloseStep /\ port_pc # "open"))
    /\ WF_portVars(part = "port" /\ Port!TakeItem)
    /\ WF_portVars(part = "port" /\ Port!WriteItem)
    /\ WF_portVars(part = "port" /\ Port!WatchdogTests)
    /\ WF_portVars(part = "port" /\ Port!WatchdogOffers)
    /\ WF_portVars(part = "port" /\ Port!DeviceReads)
    /\ WF_readVars(part = "read" /\ Read!Next)
    /\ WF_sensorVars(part = "sensor" /\ ~null_serial /\ Sensor!Thread)
    /\ WF_sensorVars(part = "sensor" /\ ~null_serial /\ (Sensor!Invoke \/ Sensor!Return))
    /\ \A c \in Callers :
        WF_sensorVars(part = "sensor" /\ ~null_serial /\ Sensor!Continues(c))
    /\ \A u \in PipelineUsers :
        WF_pipelineVars(part = "waits" /\ ~null_used /\ Pipe!UserContinues(u))
    /\ WF_pipelineVars(part = "waits" /\ ~null_used /\ Pipe!WatcherContinues)
    /\ WF_pipelineVars(part = "waits" /\ ~null_used /\ Pipe!Plug)
    /\ WF_pipelineVars(part = "waits" /\ ~null_used /\ Pipe!Notice)
    /\ WF_hubVars(part = "hub" /\ ~erased_used /\ Hub!WatcherGoes)
    /\ \A u \in HubUsers :
        WF_hubVars(part = "hub" /\ ~erased_used /\ Hub!UserGoes(u))

----------------------------------------------------------------------------
(* Properties *)

\* SerialPort: host and device are connected again and again until close().
PortReconnects == Port!Reconnects

\* StreamRead: after the last fault frames arrive again.
FramesResume == part = "read" => Read!FramesResume

\* Sensor: a device that never answers again is marked invalid.
DeadIsNoticed == Sensor!DeadIsNoticed

\* Pipeline: who waits for frames ends up on the device that is there.
PipelineReconnects == Pipe!Reconnects

\* DeviceWatch: who waits for a camera that is there and stays gets it.
WaiterServed == Hub!WaiterServed
=============================================================================
