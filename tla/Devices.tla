------------------------------ MODULE Devices ------------------------------
(***************************************************************************)
(* The parts that find, open, ask and hand out devices, side by side, and  *)
(* what each of them promises: BulkExchange, UsbSession, PipelineConfig    *)
(* and DeviceHandles.  MCDevices checks the promises on small instances,   *)
(* DeviceProofs proves them.                                               *)
(***************************************************************************)
EXTENDS BulkExchange

CONSTANTS
    None,                                                       \* nothing, nobody
    Sessions, Foreign, Interfaces, BusMoves,                    \* of UsbSession
    Users, FrameIds, Serials, Files, ConfigOps,                 \* of PipelineConfig
    DeviceVars, SensorVars, Cameras, AtOnce, Plugs, Objects     \* of DeviceHandles

VARIABLES
    address, owner, moves, session_pc, path, claims, opened, handler_requests, kill,
    thread,                                                         \* UsbSession
    stream_requests, enable_all_streams, device_request, playback_loop, resolved_profile,
    connected, config_pc, local, prev_conf, thrown, ops,            \* PipelineConfig
    bus, serial, discovered, list, profile, made, wrapped, device, sensor, kept, told,
    crashed                                                         \* DeviceHandles

Usb == INSTANCE UsbSession WITH
    pc <- session_pc, Nobody <- None, MaxMoves <- BusMoves

Config == INSTANCE PipelineConfig WITH
    pc <- config_pc, camera <- connected, Nothing <- None, MaxOps <- ConfigOps

Handles == INSTANCE DeviceHandles WITH
    Serials <- Cameras, MaxPlugs <- Plugs, MaxMade <- Objects

ASSUME UsbAssumed == Usb!UsbSessionAssumption
ASSUME ConfigAssumed == Config!PipelineConfigAssumption
ASSUME HandlesAssumed == Handles!DeviceHandlesAssumption

----------------------------------------------------------------------------
(* Properties *)

\* The type invariants of the parts.
TypesOK == TypeOK /\ Usb!TypeOK /\ Config!TypeOK /\ Handles!TypeOK

\* UsbSession: a device that is there has every interface it streams through.
AliveOwns == Usb!AliveOwns

\* PipelineConfig: a cached profile was resolved for what is asked for now.
CacheFits == Config!CacheFits

\* DeviceHandles: a Sensor can be used as long as its device is kept.
SensorsUsable == Handles!SensorsUsable

\* DeviceHandles: each holder of a device whose camera went is told so.
HoldersTold == Handles!HoldersTold
=============================================================================
