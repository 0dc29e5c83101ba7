----------------------------- MODULE MCDevices -----------------------------
(***************************************************************************)
(* Small instances of the parts of Devices, for TLC; UsbSession for a      *)
(* whole camera and for one that lacks an endpoint.  A behaviour is one of *)
(* one part; the others stay as they begin.                                *)
(***************************************************************************)
EXTENDS Devices

VARIABLE part

Parts == {"exchange", "usb", "broken", "config", "handles"}

\* A camera of the video class, and one that lacks an endpoint.
CameraWith(bulk) == <<[class |-> 14, subclass |-> 1, bulk |-> {}],
                      [class |-> 14, subclass |-> 2, bulk |-> {}],
                      [class |-> 255, subclass |-> 0, bulk |-> bulk]>>
WholeCamera == CameraWith({"in", "out"})

Broken == INSTANCE UsbSession WITH
    pc <- session_pc, Nobody <- None, Interfaces <- CameraWith({"in"}), MaxMoves <- 2

ASSUME Broken!UsbSessionAssumption

MCInit ==
    /\ part \in Parts
    /\ Init
    /\ Usb!Init
    /\ Config!Init /\ (part # "config" => connected = None)
    /\ Handles!Init

usbVars ==
    <<address, owner, moves, session_pc, path, claims, opened, handler_requests, kill, thread>>
configVars ==
    <<stream_requests, enable_all_streams, device_request, playback_loop, resolved_profile,
      connected, config_pc, local, prev_conf, thrown, ops>>
handleVars ==
    <<bus, serial, discovered, list, profile, made, wrapped, device, sensor, kept, told,
      crashed>>
MCvars == <<part, vars, usbVars, configVars, handleVars>>

\* The applications and the users may stop; the threads of an exchange may not.
Rests == part # "exchange" /\ UNCHANGED MCvars

MCNext ==
    \/ /\ part = "exchange" /\ Next
       /\ UNCHANGED <<part, usbVars, configVars, handleVars>>
    \/ /\ \/ part = "usb" /\ Usb!Next
          \/ part = "broken" /\ Broken!Next
       /\ UNCHANGED <<part, vars, configVars, handleVars>>
    \/ /\ part = "config" /\ Config!Next
       /\ UNCHANGED <<part, vars, usbVars, handleVars>>
    \/ /\ part = "handles" /\ Handles!Next
       /\ UNCHANGED <<part, vars, usbVars, configVars>>
    \/ Rests

MCSpec == MCInit /\ [][MCNext]_MCvars
=============================================================================
