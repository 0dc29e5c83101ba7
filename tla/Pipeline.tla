------------------------------ MODULE Pipeline ------------------------------
(***************************************************************************)
(* PipelinePrivate with its profile (MultiStream): user threads call       *)
(* start, stop and the functions that wait for frames under mutex_; the    *)
(* watcher's thread calls the devices-changed callbacks that start()       *)
(* registered, which restart the pipeline without mutex_.                  *)
(*                                                                         *)
(* A device is known by the number of the plugging that made it appear; 0  *)
(* is no device.  The context's list holds at most one camera and compares *)
(* devices by their ids, so that two pluggings look the same to it.        *)
(***************************************************************************)
EXTENDS Integers

CONSTANTS
    Users,          \* user threads
    Watcher,        \* the thread of the PollingDeviceWatcher
    None,           \* no thread
    Callbacks,      \* may start() get a callback? a subset of BOOLEAN
    MaxStarts,      \* bound: calls of start()
    MaxStops,       \* bound: calls of stop()
    MaxRestarts,    \* bound: calls of restart() by users
    MaxPlugs        \* bound: pluggings, with the first

PipelineAssumption ==
    /\ Watcher \notin Users /\ None \notin Users \cup {Watcher}
    /\ Callbacks \subseteq BOOLEAN
    /\ MaxStarts \in Nat /\ MaxStops \in Nat /\ MaxRestarts \in Nat /\ MaxPlugs \in Nat \ {0}

Threads == Users \cup {Watcher}
Plugs == 0..MaxPlugs

VARIABLES
    mutex, pc, op,          \* mutex_; where each thread is, in which call
    conf, profile,          \* local: "null", "fresh", "kept" or "prev"; the resolved device
    active, prev_conf,      \* active_profile_, and whether prev_conf_ is set
    is_stopping, streams_callback,
    cached,                 \* resolved_profile_ of the configuration the user keeps
    sensors,                \* each device: "closed", "opened" or "streaming"
    valid,                  \* the active device's isValid()
    plugged, plugs,         \* the device that is there, and how often one was plugged in
    watching, discovered,   \* the watcher runs; the device it last reported
    registered, left, event, \* callbacks of start(); those still to be called; what for
    starts, stops, restarts,
    stopped,                \* history: a stop() returned, and no start() since
    forced, refused,        \* history: a stop(true) during this start(); start() gave up
    crashed                 \* a null pointer was used

config == <<conf, profile, cached>>
members == <<active, prev_conf, is_stopping, streams_callback>>
device == <<plugged, plugs>>
watcher == <<watching, discovered, left, event>>
history == <<starts, stops, restarts, stopped, forced, refused>>
vars == <<mutex, pc, op, config, members, sensors, valid, device, watcher, registered,
          history, crashed>>

Init ==
    /\ mutex = None /\ pc = [t \in Threads |-> "idle"] /\ op = [t \in Threads |-> ""]
    /\ conf = [t \in Threads |-> "null"] /\ profile = [t \in Threads |-> 0] /\ cached = 0
    /\ active = 0 /\ prev_conf = FALSE /\ is_stopping = FALSE /\ streams_callback = FALSE
    /\ sensors = [p \in Plugs |-> "closed"] /\ valid = TRUE
    /\ plugged = 1 /\ plugs = 1
    /\ watching = FALSE /\ discovered = 0 /\ left = 0 /\ event = "" /\ registered = 0
    /\ starts = 0 /\ stops = 0 /\ restarts = 0 /\ stopped = TRUE
    /\ forced = [t \in Threads |-> FALSE] /\ refused = [t \in Threads |-> FALSE]
    /\ crashed = FALSE

At(t, l) == pc[t] = l
Goto(t, l) == pc' = [pc EXCEPT ![t] = l]
Lock(t) == mutex = None /\ mutex' = t
Unlock(t) == mutex' = IF mutex = t THEN None ELSE mutex

\* The call of a thread ends; the watcher goes on with the next callback.
Finish(t) == Goto(t, IF t = Watcher THEN "call" ELSE "idle") /\ Unlock(t)

----------------------------------------------------------------------------
(* unsafeStop and unsafeStart *)

\* What the calls of MultiStream make of the sensors of a device: stop() of a sensor that
\* does not stream throws, and close() is left out.
OpenAndStart(p) == [sensors EXCEPT ![p] = "streaming"]
StopAndClose(p) == IF sensors[p] = "streaming" THEN [sensors EXCEPT ![p] = "closed"] ELSE sensors

\* Mutant: the streams are left as they are.
StopStreamsNot(t) ==
    /\ At(t, "stop_streams") /\ Goto(t, "stop_reset")
    /\ UNCHANGED <<mutex, op, config, members, sensors, valid, device, watcher, registered,
                   history, crashed>>

\* aggregator_ and multi_stream_.  A restart's thread has no mutex_: active_profile_ may be
\* reset by another thread meanwhile.
StopStreams(t) ==
    /\ At(t, "stop_streams") /\ Goto(t, "stop_reset")
    /\ sensors' = IF active # 0 THEN StopAndClose(active) ELSE sensors
    /\ \/ UNCHANGED crashed
       \/ (\E u \in Threads \ {t} : At(u, "stop_reset")) /\ active # 0 /\ crashed' = TRUE
    /\ UNCHANGED <<mutex, op, config, members, valid, device, watcher, registered, history>>

\* The members are reset; stop() returns, the others start again.
StopReset(t) ==
    /\ At(t, "stop_reset")
    /\ active' = 0 /\ prev_conf' = FALSE /\ is_stopping' = FALSE /\ UNCHANGED streams_callback
    /\ IF op[t] = "stop" THEN Finish(t) /\ stopped' = TRUE
       ELSE Goto(t, "resolve") /\ UNCHANGED <<mutex, stopped>>
    /\ UNCHANGED <<op, config, sensors, valid, device, watcher, registered, starts, stops, restarts,
                   forced, refused, crashed>>

\* One turn of the loop over conf->resolve(): no device within 5 s is another turn.  The
\* loop's end after 3000 turns is left out.
Resolve(t) ==
    /\ At(t, "resolve")
    /\ \/ /\ conf[t] = "null" /\ crashed' = TRUE
          /\ UNCHANGED <<mutex, pc, profile, cached, is_stopping, refused>>
       \/ /\ conf[t] = "kept" /\ cached # 0
          /\ profile' = [profile EXCEPT ![t] = cached] /\ Goto(t, "open")
          /\ UNCHANGED <<mutex, cached, is_stopping, refused, crashed>>
       \/ /\ conf[t] # "null" /\ (conf[t] = "kept" => cached = 0)
          /\ is_stopping /\ is_stopping' = FALSE
          /\ refused' = [refused EXCEPT ![t] = TRUE] /\ Finish(t)
          /\ UNCHANGED <<profile, cached, crashed>>
       \/ /\ conf[t] # "null" /\ (conf[t] = "kept" => cached = 0)
          /\ ~is_stopping /\ plugged # 0 /\ Goto(t, "open")
          /\ profile' = [profile EXCEPT ![t] = plugged]
          /\ cached' = IF conf[t] = "kept" THEN plugged ELSE cached
          /\ UNCHANGED <<mutex, is_stopping, refused, crashed>>
    /\ UNCHANGED <<op, conf, active, prev_conf, streams_callback, sensors, valid, device,
                   watcher, registered, starts, stops, restarts, stopped, forced>>

\* multi_stream->open(), onStart() and multi_stream->start(): on a device that is gone,
\* or opened already, one of them throws, out of the call.
OpenStreams(t) ==
    /\ At(t, "open")
    /\ LET p == profile[t] IN
       \/ /\ p = plugged /\ sensors[p] = "closed"
          /\ sensors' = OpenAndStart(p)
          /\ active' = p /\ prev_conf' = TRUE /\ valid' = TRUE
          /\ IF op[t] = "start" THEN Goto(t, "context_start") /\ UNCHANGED mutex ELSE Finish(t)
       \/ /\ p # plugged \/ sensors[p] # "closed"
          /\ Finish(t) /\ UNCHANGED <<sensors, active, prev_conf, valid>>
    /\ UNCHANGED <<op, config, is_stopping, streams_callback, device, watcher, registered,
                   history, crashed>>

----------------------------------------------------------------------------
(* The calls of the users *)

\* The overloads of start(): with a configuration of their own, or the one the user keeps.
Configurations == {"fresh", "kept"}

RegisterCallback(callback) == registered' = IF callback THEN registered + 1 ELSE registered

\* start(conf, callback): each call with a callback registers another one.
Start(u, c, callback) ==
    /\ At(u, "idle") /\ starts < MaxStarts /\ starts' = starts + 1
    /\ \/ /\ active # 0 /\ mutex = None
          /\ UNCHANGED <<mutex, pc, op, conf, streams_callback, registered, stopped, forced, refused>>
       \/ /\ active = 0 /\ Lock(u) /\ Goto(u, "resolve")
          /\ op' = [op EXCEPT ![u] = "start"] /\ conf' = [conf EXCEPT ![u] = c]
          /\ streams_callback' = callback
          /\ RegisterCallback(callback)
          /\ stopped' = FALSE
          /\ forced' = [forced EXCEPT ![u] = FALSE] /\ refused' = [refused EXCEPT ![u] = FALSE]
    /\ UNCHANGED <<profile, cached, active, prev_conf, is_stopping, sensors, valid, device,
                   watcher, stops, restarts, crashed>>

\* context_->start(): the watcher is stopped, which waits for the callbacks it is in,
\* and started.
ContextStart(u) ==
    /\ At(u, "context_start") /\ At(Watcher, "idle") /\ watching' = TRUE /\ Finish(u)
    /\ UNCHANGED <<op, config, members, sensors, valid, device, discovered, left, event,
                   registered, history, crashed>>

\* stop(force): is_stopping_ is set before mutex_ is taken.
Stop(u, force) ==
    /\ At(u, "idle") /\ stops < MaxStops /\ stops' = stops + 1
    /\ Goto(u, "stop_lock") /\ op' = [op EXCEPT ![u] = "stop"]
    /\ is_stopping' = (is_stopping \/ force)
    /\ forced' = [t \in Threads |-> forced[t] \/ force]
    /\ UNCHANGED <<mutex, config, active, prev_conf, streams_callback, sensors, valid, device,
                   watcher, registered, starts, restarts, stopped, refused, crashed>>

\* Mutant: stop() looks for an active profile before it takes mutex_.
StopLockEarly(u) ==
    /\ At(u, "stop_lock")
    /\ \/ active # 0 /\ Lock(u) /\ Goto(u, "stop_streams") /\ UNCHANGED stopped
       \/ active = 0 /\ Goto(u, "idle") /\ stopped' = TRUE /\ UNCHANGED mutex
    /\ UNCHANGED <<op, config, members, sensors, valid, device, watcher, registered, starts,
                   stops, restarts, forced, refused, crashed>>

\* Without an active profile stop() returns, whatever it set before.
StopLock(u) ==
    /\ At(u, "stop_lock")
    /\ \/ active # 0 /\ Lock(u) /\ Goto(u, "stop_streams") /\ UNCHANGED stopped
       \/ active = 0 /\ mutex = None /\ Goto(u, "idle") /\ stopped' = TRUE /\ UNCHANGED mutex
    /\ UNCHANGED <<op, config, members, sensors, valid, device, watcher, registered, starts,
                   stops, restarts, forced, refused, crashed>>

\* restart(force), by a user or a callback: without mutex_ from its first step to its last.
CallRestart(u) ==
    /\ At(u, "idle") /\ restarts < MaxRestarts /\ restarts' = restarts + 1 /\ Goto(u, "restart")
    /\ UNCHANGED <<mutex, op, config, members, sensors, valid, device, watcher, registered,
                   starts, stops, stopped, forced, refused, crashed>>
Restart(t) ==
    /\ At(t, "restart") /\ Goto(t, "stop_streams")
    /\ op' = [op EXCEPT ![t] = "restart"]
    /\ \E force \in IF t = Watcher THEN {TRUE} ELSE BOOLEAN :
            is_stopping' = (is_stopping \/ force)
    /\ conf' = [conf EXCEPT ![t] = IF prev_conf THEN "prev" ELSE "null"]
    /\ UNCHANGED <<mutex, profile, cached, active, prev_conf, streams_callback, sensors, valid,
                   device, watcher, registered, history, crashed>>

\* Mutant: a profile is enough.
IsConnectedActive == active # 0

IsConnected == active # 0 /\ valid

\* waitForFrames and tryWaitForFrames, when no frame comes in time: an invalid device
\* makes them stop and start with prev_conf_.  The other outcomes change nothing.
WaitForFrames(u) ==
    /\ At(u, "idle") /\ mutex = None /\ active # 0 /\ ~streams_callback /\ ~IsConnected
    /\ mutex' = u /\ Goto(u, "stop_streams") /\ op' = [op EXCEPT ![u] = "wait"]
    /\ conf' = [conf EXCEPT ![u] = IF prev_conf THEN "prev" ELSE "null"]
    /\ UNCHANGED <<profile, cached, members, sensors, valid, device, watcher, registered,
                   history, crashed>>

----------------------------------------------------------------------------
(* The watcher, the callbacks of start(), the device *)

Present(p) == p # 0

\* polling(): the lists of devices differ.
Poll ==
    /\ At(Watcher, "idle") /\ watching /\ Present(discovered) # Present(plugged)
    /\ Goto(Watcher, "call") /\ left' = registered
    /\ event' = IF Present(plugged) THEN "added" ELSE "removed"
    /\ UNCHANGED <<mutex, op, config, members, sensors, valid, device, watching, discovered,
                   registered, history, crashed>>

GetActiveProfile == active

\* A callback of start(): getActiveProfile() under mutex_, then getDevice() of what may
\* be no profile; wasRemoved() compares the ids only.
Callback ==
    /\ At(Watcher, "call") /\ left > 0 /\ mutex = None /\ left' = left - 1
    /\ \/ GetActiveProfile = 0 /\ crashed' = TRUE /\ UNCHANGED pc
       \/ GetActiveProfile # 0 /\ event = "added" /\ UNCHANGED <<pc, crashed>>
       \/ GetActiveProfile # 0 /\ event = "removed" /\ Goto(Watcher, "restart") /\ UNCHANGED crashed
    /\ UNCHANGED <<mutex, op, config, members, sensors, valid, device, watching, discovered,
                   event, registered, history>>

\* All callbacks were called: discovered_devices_ = curr, the list of the poll.
Polled ==
    /\ At(Watcher, "call") /\ left = 0 /\ Goto(Watcher, "idle")
    /\ discovered' = IF event = "added" THEN 1 ELSE 0
    /\ UNCHANGED <<mutex, op, config, members, sensors, valid, device, watching, left, event,
                   registered, history, crashed>>

\* The device is pulled and plugged in again, also between two polls of the watcher.
Unplug ==
    /\ plugged # 0 /\ plugs < MaxPlugs /\ plugged' = 0
    /\ UNCHANGED <<mutex, pc, op, config, members, sensors, valid, plugs, watcher, registered,
                   history, crashed>>
Plug ==
    /\ plugged = 0 /\ plugs' = plugs + 1 /\ plugged' = plugs + 1
    /\ UNCHANGED <<mutex, pc, op, config, members, sensors, valid, watcher, registered,
                   history, crashed>>

\* The stream thread misses its frames (Sensor!DeadIsNoticed).
Notice ==
    /\ active # 0 /\ active # plugged /\ valid /\ valid' = FALSE
    /\ UNCHANGED <<mutex, pc, op, config, members, sensors, device, watcher, registered,
                   history, crashed>>

Continues(t) == StopStreams(t) \/ StopReset(t) \/ Resolve(t) \/ OpenStreams(t)
UserContinues(u) == Continues(u) \/ ContextStart(u) \/ StopLock(u) \/ WaitForFrames(u) \/ Restart(u)
WatcherContinues == Continues(Watcher) \/ Poll \/ Callback \/ Restart(Watcher) \/ Polled

Next ==
    /\ ~crashed
    /\ \/ \E u \in Users : \/ \E c \in Configurations, b \in Callbacks : Start(u, c, b)
                           \/ \E force \in BOOLEAN : Stop(u, force)
                           \/ CallRestart(u)
                           \/ UserContinues(u)
       \/ WatcherContinues \/ Unplug \/ Plug \/ Notice

Spec == Init /\ [][Next]_vars
\* Calls go on, users wait for frames again and again, the watcher polls, and a camera
\* that was pulled is plugged in again; nobody has to start, stop or pull.
Fairness ==
    /\ \A u \in Users : WF_vars(~crashed /\ UserContinues(u))
    /\ WF_vars(~crashed /\ WatcherContinues) /\ WF_vars(~crashed /\ Plug)
    /\ WF_vars(~crashed /\ Notice)
FairSpec == Spec /\ Fairness

----------------------------------------------------------------------------
(* Properties *)

\* The variables have their types, and mutex_ is held by a thread that is in a call.
TypeOK ==
    /\ mutex \in Users \cup {None} /\ (mutex # None => pc[mutex] \notin {"idle", "stop_lock"})
    /\ active \in Plugs /\ cached \in Plugs /\ plugged \in Plugs
    /\ \A p \in Plugs : sensors[p] \in {"closed", "opened", "streaming"}
    /\ registered \in 0..MaxStarts /\ left \in 0..registered

Quiescent == \A t \in Threads : At(t, "idle")

\* restart() was not called, by a user or a callback of start(): all ran under mutex_.
NoRestart == registered = 0 /\ restarts = 0

\* Between calls the active device streams, whatever threw on the way and whatever was
\* restarted without mutex_; and nothing else streams, unless there was a restart, whose
\* thread may open a device that another one replaces (pipeline.cc:98-105, 236-288).
OnlyActiveStreams ==
    LET streaming == {p \in Plugs : sensors[p] = "streaming"} IN
    Quiescent => /\ {active} \ {0} \subseteq streaming
                 /\ NoRestart => streaming \subseteq {active}

\* After stop() returned and before the next start() there is no active profile, even if
\* another thread was reconnecting; a restart, which does not ask for mutex_, is the
\* exception (pipeline.cc:84-105, 139-151).
StopStops == stopped /\ NoRestart => active = 0

\* A pipeline that is used by waiting for frames ends up on the device that is there:
\* the wait reconnects (pipeline.cc:139-156, 189-201).
Reconnects == <>[](active # 0 /\ ~crashed) => <>[](active = plugged \/ plugged = 0)

\* "force stop pipeline while it was starting..." (pipeline.cc:247): a start() gives up
\* only if a stop(true) was called during it.
RefusedIsForced == \A u \in Users : refused[u] => forced[u]

=============================================================================
