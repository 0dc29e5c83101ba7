------------------------------ MODULE MCFrames ------------------------------
(***************************************************************************)
(* Small instances of the parts of Frames, for TLC.  A behaviour is one of *)
(* one part; the others stay as they begin.                                *)
(***************************************************************************)
EXTENDS Frames

VARIABLE part

Parts == {"archive", "aggregator", "user", "units"}

\* Two streams of one archive, one with a list of elements, one with a structure and no
\* time.
SomeStreams ==
    [LeftCamera |-> "VIDEO_FRAME", Disparity |-> "VIDEO_FRAME", Lane |-> "LANE_FRAME",
     VehicleInfo |-> "VEHICLE_INFO_FRAME"]

MCInit ==
    /\ part \in Parts
    /\ Init
    /\ Aggregator!Init /\ (part # "aggregator" => ~output_callback)
    /\ User!Init
    /\ Units!Init

aggregatorVars ==
    <<next, lost, ref, cref, wpc, worker_frame, set, last_set, queue, queue_accepting,
      accepting, processing_callback, output_callback, control, user_set, user_frame, orphans>>
userVars == <<object, profile, free, matched, handle, packets>>
unitVars ==
    <<speed, frames, is_open, failed, received_size, sending, sent, written, resp, cut, cuts>>
MCvars == <<part, vars, aggregatorVars, userVars, unitVars>>

\* The applications, the camera and the device may stop; the archive never does.
Rests == part # "archive" /\ UNCHANGED MCvars

MCNext ==
    \/ /\ part = "archive" /\ Next
       /\ UNCHANGED <<part, aggregatorVars, userVars, unitVars>>
    \/ /\ part = "aggregator" /\ Aggregator!Next
       /\ UNCHANGED <<part, vars, userVars, unitVars>>
    \/ /\ part = "user" /\ User!Next
       /\ UNCHANGED <<part, vars, aggregatorVars, unitVars>>
    \/ /\ part = "units" /\ Units!Next
       /\ UNCHANGED <<part, vars, aggregatorVars, userVars>>
    \/ Rests

MCSpec == MCInit /\ [][MCNext]_MCvars

\* The application also takes frames of a set by their position.
IndexedSpec ==
    /\ MCInit /\ part = "user"
    /\ [][User!NextIndexed /\ UNCHANGED <<part, vars, aggregatorVars, unitVars>>]_MCvars
=============================================================================
