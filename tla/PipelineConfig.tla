--------------------------- MODULE PipelineConfig ---------------------------
(***************************************************************************)
(* PipelineConfigPrivate: what the user asks for, and the profile that was *)
(* resolved for it and is cached.  Every operation holds mutex_ from       *)
(* beginning to end, but for canResolve(), which drops the cache after the *)
(* lock of its resolve() is gone, and the copy that a pipeline makes when  *)
(* it has started, which takes no lock.                                    *)
(*                                                                         *)
(* A stream request is a frame id and an index; sizes, formats and rates   *)
(* are left out.  A camera is its serial number.                           *)
(***************************************************************************)
EXTENDS Integers, FiniteSets

CONSTANTS
    Users,      \* threads that share the configuration
    FrameIds,   \* the streams a camera has
    Serials,    \* serial numbers
    Files,      \* names of recordings
    Nothing,    \* no camera, no profile, an empty name
    MaxOps      \* bound: operations

\* -1: whatever index.
Indexes == {-1, 0}

\* What resolve() makes: a camera, its streams, and the request it was for.
Profiles == [camera : Serials, streams : {FrameIds}, for : [streams : SUBSET (FrameIds \X Indexes),
             all : BOOLEAN, device : [serial : Serials \cup {Nothing}, filename : {Nothing},
             record_output : {Nothing}], loop : {FALSE}]]

PipelineConfigAssumption ==
    /\ Nothing \notin Serials \cup Files \cup Profiles
    /\ IsFiniteSet(FrameIds) /\ MaxOps \in Nat

VARIABLES
    stream_requests, enable_all_streams,
    device_request,     \* serial, filename, record_output
    playback_loop,
    resolved_profile,   \* the cached profile, or Nothing
    camera,             \* the camera that is connected
    pc, local,          \* each thread: where it is; the profile it has in hand
    prev_conf,          \* the pipeline's copy
    thrown,             \* the last error each thread got
    ops

requested == <<stream_requests, enable_all_streams, device_request, playback_loop>>
vars == <<requested, resolved_profile, camera, pc, local, prev_conf, thrown, ops>>

Request == [streams |-> stream_requests, all |-> enable_all_streams, device |-> device_request,
            loop |-> playback_loop]

Init ==
    /\ stream_requests = {} /\ enable_all_streams = FALSE
    /\ device_request = [serial |-> Nothing, filename |-> Nothing, record_output |-> Nothing]
    /\ playback_loop = FALSE /\ resolved_profile = Nothing
    /\ camera \in Serials \cup {Nothing}
    /\ pc = [u \in Users |-> "idle"] /\ local = [u \in Users |-> Nothing]
    /\ prev_conf = Nothing /\ thrown = [u \in Users |-> ""] /\ ops = 0

Begin(u) ==
    /\ pc[u] = "idle" /\ ops < MaxOps /\ ops' = ops + 1
    /\ UNCHANGED <<camera, local, prev_conf>>
Quietly(u) == thrown' = [thrown EXCEPT ![u] = ""] /\ UNCHANGED pc
ResetResolved == resolved_profile' = Nothing

----------------------------------------------------------------------------
(* The requests *)

EnableStream(u, frame_id, index) ==
    /\ Begin(u) /\ Quietly(u) /\ ResetResolved
    /\ stream_requests' = stream_requests \cup {<<frame_id, index>>}
    /\ UNCHANGED <<enable_all_streams, device_request, playback_loop>>

EnableAllStreams(u) ==
    /\ Begin(u) /\ Quietly(u) /\ ResetResolved
    /\ stream_requests' = {} /\ enable_all_streams' = TRUE
    /\ UNCHANGED <<device_request, playback_loop>>

\* Mutant: the cached profile is kept.
EnableDeviceKeeps(u, serial) ==
    /\ Begin(u) /\ Quietly(u) /\ UNCHANGED resolved_profile
    /\ device_request' = [device_request EXCEPT !.serial = serial]
    /\ UNCHANGED <<stream_requests, enable_all_streams, playback_loop>>

EnableDevice(u, serial) ==
    /\ Begin(u) /\ Quietly(u) /\ ResetResolved
    /\ device_request' = [device_request EXCEPT !.serial = serial]
    /\ UNCHANGED <<stream_requests, enable_all_streams, playback_loop>>

\* enableDeviceFromFile and enableRecordToFile: both refuse when no output is set, which
\* nothing sets, and both set the name of the recording that is read.
FileAccepted == device_request.record_output # Nothing
EnableFile(u, file, repeats) ==
    /\ Begin(u) /\ UNCHANGED <<pc, stream_requests, enable_all_streams>>
    /\ thrown' = [thrown EXCEPT ![u] = IF FileAccepted THEN "" ELSE "both file and record"]
    /\ resolved_profile' = IF FileAccepted THEN Nothing ELSE resolved_profile
    /\ device_request' = IF FileAccepted THEN [device_request EXCEPT !.filename = file]
                         ELSE device_request
    /\ playback_loop' = IF FileAccepted THEN repeats ELSE playback_loop
EnableDeviceFromFile(u, file, repeat_playback) == EnableFile(u, file, repeat_playback)
EnableRecordToFile(u, file) == EnableFile(u, file, playback_loop)

DisableStream(u, frame_id, index) ==
    /\ Begin(u) /\ Quietly(u) /\ ResetResolved
    /\ stream_requests' = {r \in stream_requests :
                              ~(r[1] = frame_id /\ (index = -1 \/ r[2] = index))}
    /\ UNCHANGED <<enable_all_streams, device_request, playback_loop>>

DisableAllStreams(u) ==
    /\ Begin(u) /\ Quietly(u) /\ ResetResolved
    /\ stream_requests' = {} /\ enable_all_streams' = FALSE
    /\ UNCHANGED <<device_request, playback_loop>>

----------------------------------------------------------------------------
(* Resolving *)

\* getOrAddPlaybackDevice: there is no playback yet.
PlaybackDevice(file) == Nothing

\* resolveDeviceRequests: the recording before the serial number, none for no wish.
ResolveDeviceRequests ==
    IF device_request.filename # Nothing THEN PlaybackDevice(device_request.filename)
    ELSE IF device_request.serial = camera THEN camera ELSE Nothing

\* The device that waitForDevice() finds in time: the one asked for, or any.
FoundDevice ==
    IF ResolveDeviceRequests # Nothing THEN ResolveDeviceRequests
    ELSE IF device_request.serial = Nothing \/ device_request.filename # Nothing THEN camera
    ELSE Nothing

\* getDefaultConfiguration and resolve(dev): three ways to the same profile, with every
\* stream of the device.
StreamsOfDevice == FrameIds
ResolveStreams(dev) == [camera |-> dev, streams |-> StreamsOfDevice, for |-> Request]

\* resolve(pipe, timeout), which goes on at a label with the profile.
Resolve(u, then) ==
    /\ \/ /\ FoundDevice # Nothing
          /\ resolved_profile' = ResolveStreams(FoundDevice)
          /\ local' = [local EXCEPT ![u] = resolved_profile']
          /\ pc' = [pc EXCEPT ![u] = then] /\ thrown' = [thrown EXCEPT ![u] = ""]
       \/ /\ FoundDevice = Nothing
          /\ ResetResolved /\ thrown' = [thrown EXCEPT ![u] = "no device"]
          /\ pc' = [pc EXCEPT ![u] = "idle"] /\ local' = [local EXCEPT ![u] = Nothing]
    /\ UNCHANGED <<requested, camera, prev_conf>>

ResolveCall(u) == pc[u] = "idle" /\ ops < MaxOps /\ ops' = ops + 1 /\ Resolve(u, "idle")

\* canResolve: resolve(), and later the cache is dropped without the lock.
CanResolve(u) == pc[u] = "idle" /\ ops < MaxOps /\ ops' = ops + 1 /\ Resolve(u, "drop")
CanResolveDrops(u) ==
    /\ pc[u] = "drop" /\ pc' = [pc EXCEPT ![u] = "idle"] /\ ResetResolved
    /\ UNCHANGED <<requested, camera, local, prev_conf, thrown, ops>>

\* A pipeline starts with this configuration: the cached profile, ...
StartCached(u) ==
    /\ pc[u] = "idle" /\ ops < MaxOps /\ ops' = ops + 1
    /\ local' = [local EXCEPT ![u] = resolved_profile]
    /\ pc' = [pc EXCEPT ![u] = IF resolved_profile = Nothing THEN "resolve" ELSE "copy"]
    /\ UNCHANGED <<requested, resolved_profile, camera, prev_conf, thrown>>
\* ... or a new one (it tries again when there is no device); ...
StartResolves(u) == pc[u] = "resolve" /\ Resolve(u, "copy") /\ UNCHANGED ops
\* ... then the copy for the next time, without the cache.
StartCopies(u) ==
    /\ pc[u] = "copy" /\ pc' = [pc EXCEPT ![u] = "idle"]
    /\ prev_conf' = [request |-> Request, resolved |-> Nothing]
    /\ UNCHANGED <<requested, resolved_profile, camera, local, thrown, ops>>

\* External: cameras come and go.
CameraChanges(c) ==
    /\ c # camera /\ camera' = c /\ ops < MaxOps /\ ops' = ops + 1
    /\ UNCHANGED <<requested, resolved_profile, pc, local, prev_conf, thrown>>

Next ==
    \/ \E c \in Serials \cup {Nothing} : CameraChanges(c)
    \/ \E u \in Users :
        \/ \E f \in FrameIds, i \in Indexes : EnableStream(u, f, i) \/ DisableStream(u, f, i)
        \/ EnableAllStreams(u) \/ DisableAllStreams(u)
        \/ \E s \in Serials : EnableDevice(u, s)
        \/ \E f \in Files, b \in BOOLEAN : EnableDeviceFromFile(u, f, b)
        \/ \E f \in Files : EnableRecordToFile(u, f)
        \/ ResolveCall(u) \/ CanResolve(u) \/ CanResolveDrops(u)
        \/ StartCached(u) \/ StartResolves(u) \/ StartCopies(u)

Spec == Init /\ [][Next]_vars

----------------------------------------------------------------------------
(* Properties *)

\* The variables have their types, and a start that goes on has a profile
\* (pipeline.cc:261).
TypeOK ==
    /\ stream_requests \subseteq FrameIds \X Indexes
    /\ resolved_profile \in Profiles \cup {Nothing}
    /\ \A u \in Users : local[u] \in Profiles \cup {Nothing}
    /\ \A u \in Users : pc[u] = "copy" => local[u] # Nothing

\* A cached profile was resolved for what is asked for now, and for the camera that was
\* asked for: no operation, of whatever thread, leaves a cache that start() would use for
\* another request (pipeline_config.cc:23-105, pipeline.cc:239-241).
CacheFits ==
    resolved_profile # Nothing =>
        /\ resolved_profile.for = Request
        /\ device_request.serial \in {Nothing, resolved_profile.camera}

=============================================================================
