---------------------------- MODULE DeviceWatch ----------------------------
(***************************************************************************)
(* PollingDeviceWatcher, ContextPrivate and DeviceHubPrivate: the watcher's *)
(* thread compares the USB devices with those it saw last and calls the    *)
(* devices-changed callbacks of the context; each hub has one, which       *)
(* refreshes the hub's list and wakes the threads that wait for a camera.  *)
(*                                                                         *)
(* A camera is the number of its plugging; the other USB devices all have  *)
(* the same ids.  No step leaves a hub's mutex_ locked, and the            *)
(* watcher's stop() waits for the polling in progress (Dispatcher).        *)
(***************************************************************************)
EXTENDS Integers, Sequences, FiniteSets, FiniteSetsExt

CONSTANTS
    Users,          \* user threads
    Hubs,           \* device hubs, each of them created and destroyed at most once
    Others,         \* USB devices that are no cameras
    FastReplug,     \* may the devices change before the watcher reported the last change?
    CreateFails,    \* may createDevice() throw though the camera is there?
    AtOnce,         \* bound: cameras at the same time
    MaxPlugs,       \* bound: pluggings of a camera
    MaxMoves,       \* bound: comings and goings of other devices
    MaxCalls        \* bound: calls of waitForDevice()

DeviceWatchAssumption ==
    /\ IsFiniteSet(Users) /\ IsFiniteSet(Hubs) /\ IsFiniteSet(Others)
    /\ Others \cap Nat = {} /\ FastReplug \in BOOLEAN /\ CreateFails \in BOOLEAN
    /\ AtOnce \in Nat /\ MaxPlugs \in Nat /\ MaxMoves \in Nat /\ MaxCalls \in Nat

Ids == 1..Cardinality(Hubs)
Cameras == 1..MaxPlugs

VARIABLES
    bus, plugs, moves,          \* the USB devices that are there; counters
    watching,                   \* repeat_operation_ runs
    pc,                         \* the watcher: "idle", "next", "call"
    discovered, curr,           \* discovered_devices_, and the list of this poll
    event, at, cb,              \* what is raised; where the iteration is; the hub whose copy is called
    callbacks, ids,             \* devices_changed_callbacks_: id to hub; ids given out
    state,                      \* each hub: "none", "alive", "dying" or "gone"
    device_list, camera_index,  \* of each hub
    user,                       \* each user: where it is and in which hub
    calls,
    crashed                     \* an erased node of the map was used

usb == <<bus, plugs, moves>>
polling == <<watching, pc, discovered, curr, event, at, cb>>
context == <<callbacks, ids>>
hub == <<state, device_list, camera_index>>
vars == <<usb, polling, context, hub, user, calls, crashed>>

NoHub == "no hub"
Idle == [at |-> "idle", hub |-> NoHub]

Init ==
    /\ bus = {} /\ plugs = 0 /\ moves = 0
    /\ watching = FALSE /\ pc = "idle" /\ discovered = {} /\ curr = {}
    /\ event = "" /\ at = 0 /\ cb = NoHub
    /\ callbacks = [i \in {} |-> NoHub] /\ ids = 0
    /\ state = [h \in Hubs |-> "none"] /\ device_list = [h \in Hubs |-> <<>>]
    /\ camera_index = [h \in Hubs |-> 0]
    /\ user = [u \in Users |-> Idle] /\ calls = 0
    /\ crashed = FALSE

----------------------------------------------------------------------------
(* Lists of devices *)

Kind(d) == IF d \in Cameras THEN "camera" ELSE "other"

\* listChanged: another size, or a device of the first list that the second has not.
ListChanged(list1, list2) ==
    \/ Cardinality(list1) # Cardinality(list2)
    \/ \E d \in list1 : \A e \in list2 : Kind(d) # Kind(e)

\* GeminiInfo::pickup: the first camera of the list, at most one.
Pickup(usb_infos) ==
    LET found == usb_infos \cap Cameras IN IF found = {} THEN {} ELSE {Min(found)}

\* createDevices and queryDevices; there are no playback devices.
CreateDevices(devices) == Pickup(devices)
QueryDevices == CreateDevices(bus)

\* filter_by_vid, for vid 0: every device of the list twice.
FilterByVid(devices) ==
    IF devices = {} THEN <<>> ELSE <<Min(devices), Min(devices)>>

----------------------------------------------------------------------------
(* The watcher's thread *)

\* The callback returned: discovered_devices_ = curr.
Polled ==
    /\ pc' = "idle" /\ discovered' = curr' /\ event' = "" /\ at' = 0 /\ cb' = NoHub
    /\ UNCHANGED watching

\* onDeviceChanged: cameras only.  Its lists hold fresh infos, which subtractSets tells
\* apart by their addresses: all of one is removed, all of the other added.
Event(old, new) ==
    IF ListChanged(CreateDevices(old), CreateDevices(new))
    THEN IF CreateDevices(new) = {} THEN "removed" ELSE "added"
    ELSE ""

\* The node after a place of the map, whose keys fall.
After(place) ==
    LET rest == {i \in DOMAIN callbacks : i < place} IN IF rest = {} THEN 0 ELSE Max(rest)

\* raiseDevicesChanged goes to the next callback, without the mutex of the map, and takes
\* a copy of it; after the last the poll is over.
RaiseNext(place) ==
    IF After(place) = 0 THEN Polled
    ELSE /\ pc' = "call" /\ at' = After(place) /\ cb' = callbacks[at']
         /\ UNCHANGED <<discovered, watching>>

\* polling(): the devices now, against those discovered.
Poll ==
    /\ pc = "idle" /\ watching /\ ListChanged(discovered, bus) /\ curr' = bus
    /\ \/ Event(discovered, bus) = "" /\ Polled
       \/ /\ Event(discovered, bus) # "" /\ RaiseNext(ids + 1)
          /\ event' = IF pc' = "idle" THEN "" ELSE Event(discovered, bus)
    /\ UNCHANGED <<usb, context, hub, user, calls, crashed>>

\* The users that wait in a hub are woken.
NotifyAll(h) ==
    user' = [u \in Users |->
                IF user[u] = [at |-> "waiting", hub |-> h] THEN [user[u] EXCEPT !.at = "woken"]
                ELSE user[u]]

\* Mutant: only the list is new.
HubCallbackSilent(h) ==
    /\ device_list' = [device_list EXCEPT ![h] = FilterByVid(QueryDevices)]
    /\ camera_index' = [camera_index EXCEPT ![h] = 0] /\ UNCHANGED <<state, user>>

\* The callback of a hub.
HubCallback(h) ==
    /\ device_list' = [device_list EXCEPT ![h] = FilterByVid(QueryDevices)]
    /\ camera_index' = [camera_index EXCEPT ![h] = 0] /\ UNCHANGED state
    /\ IF device_list'[h] # <<>> THEN NotifyAll(h) ELSE UNCHANGED user

\* A callback is called.
RaiseCall ==
    /\ pc = "call" /\ pc' = "next" /\ HubCallback(cb)
    /\ UNCHANGED <<usb, watching, discovered, curr, event, at, cb, context, calls, crashed>>

\* The iteration goes on from its node; a node that was erased meanwhile is used after
\* it was freed.
Raise ==
    /\ pc = "next" /\ UNCHANGED curr
    /\ \/ /\ RaiseNext(at) /\ event' = (IF pc' = "idle" THEN "" ELSE event) /\ UNCHANGED crashed
       \/ /\ at \notin DOMAIN callbacks /\ crashed' = TRUE
          /\ UNCHANGED <<watching, pc, discovered, event, at, cb>>
    /\ UNCHANGED <<usb, context, hub, user, calls>>

----------------------------------------------------------------------------
(* The users *)

At(u, l) == user[u].at = l
Goto(u, l, h) == user' = [user EXCEPT ![u] = [at |-> l, hub |-> h]]

\* PollingDeviceWatcher::start and stop: both wait for the polling in progress.
WatcherStart == pc = "idle" /\ watching' = TRUE
WatcherStop == pc = "idle" /\ watching' = FALSE

\* registerDevicesChangedCallback, unregisterDevicesChangedCallback.
Register(h) ==
    /\ ids' = ids + 1
    /\ callbacks' = [i \in DOMAIN callbacks \cup {ids'} |-> IF i = ids' THEN h ELSE callbacks[i]]
Unregister(h) == callbacks' = [i \in {j \in DOMAIN callbacks : callbacks[j] # h} |-> callbacks[i]]

\* DeviceHubPrivate's constructor registers its callback.
CreateHub(u, h) ==
    /\ At(u, "idle") /\ state[h] = "none"
    /\ state' = [state EXCEPT ![h] = "alive"]
    /\ Register(h)
    /\ UNCHANGED <<usb, polling, device_list, camera_index, user, calls, crashed>>

\* Its destructor: unregisterDevicesChangedCallback, ...
DestroyHub(u, h) ==
    /\ At(u, "idle") /\ state[h] = "alive" /\ \A v \in Users : user[v].hub # h
    /\ state' = [state EXCEPT ![h] = "dying"] /\ Unregister(h) /\ Goto(u, "destroying", h)
    /\ UNCHANGED <<usb, polling, ids, device_list, camera_index, calls, crashed>>

\* Mutant: context_->stop() does not wait for the callback in progress.
DestroyedAtOnce(u) ==
    /\ At(u, "destroying") /\ watching' = FALSE
    /\ state' = [state EXCEPT ![user[u].hub] = "gone"] /\ Goto(u, "idle", NoHub)
    /\ UNCHANGED <<usb, pc, discovered, curr, event, at, cb, context, device_list, camera_index,
                   calls, crashed>>

\* ... then context_->stop(), which stops the watcher for everyone.
Destroyed(u) ==
    /\ At(u, "destroying") /\ WatcherStop
    /\ state' = [state EXCEPT ![user[u].hub] = "gone"] /\ Goto(u, "idle", NoHub)
    /\ UNCHANGED <<usb, pc, discovered, curr, event, at, cb, context, device_list, camera_index,
                   calls, crashed>>

\* ContextPrivate::start: the watcher is stopped, and started with another callback.
ContextStart(u) ==
    /\ At(u, "idle") /\ ~watching /\ WatcherStart
    /\ UNCHANGED <<usb, pc, discovered, curr, event, at, cb, context, hub, user, calls, crashed>>

\* createDevice: the devices of the list in turn, from camera_index_ on; one that cannot
\* be created is left out, and a found one moves the index when the caller cycles.
CanCreate(d) == {b \in BOOLEAN : (b => d \in bus) /\ (~b => CreateFails \/ d \notin bus)}
CreateDevice(h, list, loop, created) ==
    /\ list # <<>>
    /\ \E tried \in 0..Len(list) - 1 :
        /\ created \in CanCreate(list[1 + ((camera_index[h] + tried) % Len(list))])
        /\ created \/ tried = Len(list) - 1
    /\ camera_index' = IF created /\ loop
                       THEN [camera_index EXCEPT ![h] = (@ + 1) % Len(list)] ELSE camera_index

\* waitForDevice: a fresh list, a device of it, or the wait.
WaitForDevice(u, h, loop) ==
    /\ At(u, "idle") /\ state[h] = "alive" /\ calls < MaxCalls /\ calls' = calls + 1
    /\ device_list' = [device_list EXCEPT ![h] = FilterByVid(QueryDevices)]
    /\ \/ CreateDevice(h, device_list'[h], loop, TRUE) /\ UNCHANGED user
       \/ CreateDevice(h, device_list'[h], loop, FALSE) /\ Goto(u, "waiting", h)
       \/ device_list'[h] = <<>> /\ Goto(u, "waiting", h) /\ UNCHANGED camera_index
    /\ UNCHANGED <<usb, polling, context, state, crashed>>

\* A thread that waits looks at the list again: woken, or because its time is over.
Woken(u, loop) ==
    /\ At(u, "woken")
    /\ LET h == user[u].hub IN
       \/ CreateDevice(h, device_list[h], loop, TRUE) /\ Goto(u, "idle", NoHub)
       \/ CreateDevice(h, device_list[h], loop, FALSE) /\ Goto(u, "waiting", h)
       \/ device_list[h] = <<>> /\ Goto(u, "waiting", h) /\ UNCHANGED camera_index
    /\ UNCHANGED <<usb, polling, context, state, device_list, calls, crashed>>
TimesOut(u, loop) ==
    /\ At(u, "waiting") /\ Goto(u, "idle", NoHub)
    /\ LET h == user[u].hub IN
       \/ CreateDevice(h, device_list[h], loop, TRUE)
       \/ /\ device_list[h] = <<>> \/ CreateDevice(h, device_list[h], loop, FALSE)
          /\ UNCHANGED camera_index
    /\ UNCHANGED <<usb, polling, context, state, device_list, calls, crashed>>

----------------------------------------------------------------------------
(* The USB devices *)

Reported == watching /\ pc = "idle" /\ ~ListChanged(discovered, bus) /\ ~ListChanged(bus, discovered)

Plug ==
    /\ plugs < MaxPlugs /\ Cardinality(bus \cap Cameras) < AtOnce /\ (FastReplug \/ Reported)
    /\ plugs' = plugs + 1 /\ bus' = bus \cup {plugs'} /\ UNCHANGED moves
    /\ UNCHANGED <<polling, context, hub, user, calls, crashed>>
Unplug(c) ==
    /\ c \in bus /\ (FastReplug \/ Reported) /\ bus' = bus \ {c} /\ UNCHANGED <<plugs, moves>>
    /\ UNCHANGED <<polling, context, hub, user, calls, crashed>>
MoveOther(o) ==
    /\ moves < MaxMoves /\ (FastReplug \/ Reported) /\ moves' = moves + 1 /\ UNCHANGED plugs
    /\ bus' = IF o \in bus THEN bus \ {o} ELSE bus \cup {o}
    /\ UNCHANGED <<polling, context, hub, user, calls, crashed>>

WatcherGoes == Poll \/ RaiseCall \/ Raise
UserGoes(u) == Destroyed(u) \/ \E loop \in BOOLEAN : Woken(u, loop)

Next ==
    /\ ~crashed
    /\ \/ WatcherGoes \/ Plug
       \/ \E c \in Cameras : Unplug(c)
       \/ \E o \in Others : MoveOther(o)
       \/ \E u \in Users :
            \/ \E h \in Hubs : CreateHub(u, h) \/ DestroyHub(u, h)
            \/ \E h \in Hubs, loop \in BOOLEAN : WaitForDevice(u, h, loop)
            \/ \E loop \in BOOLEAN : TimesOut(u, loop)
            \/ ContextStart(u) \/ UserGoes(u)

Spec == Init /\ [][Next]_vars
\* The watcher polls on, and woken threads run; devices, users and timeouts owe nothing.
Fairness ==
    /\ WF_vars(~crashed /\ WatcherGoes)
    /\ \A u \in Users : WF_vars(~crashed /\ UserGoes(u))
FairSpec == Spec /\ Fairness

----------------------------------------------------------------------------
(* Properties *)

\* The variables have their types; camera_index_ may be past the end of the list, and the
\* callbacks of the map are those of living hubs.
TypeOK ==
    /\ bus \subseteq Cameras \cup Others /\ discovered \subseteq Cameras \cup Others
    /\ pc \in {"idle", "call", "next"} /\ (pc # "idle" => event # "" /\ cb \in Hubs)
    /\ DOMAIN callbacks \subseteq Ids
    /\ \A i \in DOMAIN callbacks : state[callbacks[i]] = "alive"
    /\ \A h \in Hubs : camera_index[h] \in {0, 1} /\ Len(device_list[h]) \in {0, 2}

\* A hub whose destructor returned is not called any more, although the raising of an
\* event takes its copy of the callback without a lock (device_hub.cc:68-73,
\* context.cc:167-180): the destructor waits for the watcher after it unregistered.
GoneIsQuiet == \A h \in Hubs : state[h] = "gone" => ~(pc = "call" /\ cb = h)

\* A thread that waits for a camera is woken and gets one, when one is there and stays,
\* and the watcher runs and sees every change (device_hub.cc:57-64, 83-96).
WaiterServed ==
    \A u \in Users :
        <>[](watching /\ ~crashed /\ bus \cap Cameras # {}) => []<>~(At(u, "waiting") \/ At(u, "woken"))

=============================================================================
