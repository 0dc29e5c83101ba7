---------------------------- MODULE DeviceHandles ----------------------------
(***************************************************************************)
(* What an application holds: a DeviceList, variables of type se2::Device, *)
(* which share SeDevice objects, variables of type se2::Sensor, which hold *)
(* raw pointers into them, and a devices-changed callback that asks        *)
(* wasRemoved(dev) and wasAdded(dev) as examples/hello_smartereye does.     *)
(*                                                                         *)
(* A camera is the number of its plugging.  An SeDevice has a              *)
(* DeviceInterface, and both live while somebody shares them; a            *)
(* GeminiDevice has its camera's interface to itself (UsbSession).  The    *)
(* raising of an event (DeviceWatch) is one step here, and the pipeline    *)
(* (Pipeline) only the owner of one more device.                           *)
(***************************************************************************)
EXTENDS Naturals, Sequences, FiniteSets, FiniteSetsExt

CONSTANTS
    DeviceVars, SensorVars,     \* variables of the application
    Serials,                    \* the cameras in the house
    AtOnce,                     \* bound: cameras plugged in at the same time
    MaxPlugs,                   \* bound: pluggings
    MaxMade                     \* bound: devices, SeDevices

DeviceHandlesAssumption ==
    /\ IsFiniteSet(DeviceVars) /\ IsFiniteSet(SensorVars) /\ IsFiniteSet(Serials)
    /\ AtOnce \in Nat /\ MaxPlugs \in Nat /\ MaxMade \in Nat

VARIABLES
    bus, serial,    \* the cameras plugged in; the serial of each plugging
    discovered,     \* the watcher's list
    list,           \* the application's DeviceList
    profile,        \* the DeviceInterface of the pipeline's active profile, or 0
    made,           \* the camera of each DeviceInterface
    wrapped,        \* the DeviceInterface of each SeDevice
    device,         \* each Device variable: an SeDevice, or 0
    sensor,         \* each Sensor variable: its two pointers, or NoSensor
    kept,           \* the variables through which the application keeps a sensor's device
    told,           \* what each Device variable was answered in the last event
    crashed

usb == <<bus, serial>>
objects == <<made, wrapped>>
heard == <<discovered, told>>
vars == <<usb, heard, list, profile, objects, device, sensor, kept, crashed>>

NoSensor == [parent |-> 0, sensor |-> 0]

\* Who is alive: an SeDevice while a variable has it, a DeviceInterface while an
\* SeDevice or the pipeline has it.
SeDeviceLives(k) == \E v \in DeviceVars : device[v] = k
DeviceLives(d) ==
    \/ profile = d
    \/ \E v \in DeviceVars : device[v] # 0 /\ wrapped[device[v]] = d
Taken(c) == \E d \in 1..Len(made) : made[d] = c /\ DeviceLives(d)

CameraOf(v) == made[wrapped[device[v]]]

\* A context with its watcher; nothing is plugged in.
Init ==
    /\ bus = {} /\ serial = <<>> /\ discovered = {}
    /\ list = <<>> /\ profile = 0 /\ made = <<>> /\ wrapped = <<>>
    /\ device = [v \in DeviceVars |-> 0] /\ sensor = [s \in SensorVars |-> NoSensor]
    /\ kept = [s \in SensorVars |-> {}] /\ told = [v \in DeviceVars |-> ""]
    /\ crashed = FALSE

----------------------------------------------------------------------------
(* USB, and the event *)

Plug(n) ==
    /\ Len(serial) < MaxPlugs /\ Cardinality(bus) < AtOnce
    /\ \A c \in bus : serial[c] # n
    /\ serial' = Append(serial, n) /\ bus' = bus \cup {Len(serial')}
    /\ UNCHANGED <<heard, list, profile, objects, device, sensor, kept, crashed>>

Unplug(c) ==
    /\ c \in bus /\ bus' = bus \ {c}
    /\ UNCHANGED <<serial, heard, list, profile, objects, device, sensor, kept, crashed>>

\* createDevices: the first camera of the list.
CreateDevices(devices) == IF devices = {} THEN {} ELSE {Min(devices)}

\* DeviceInfo::operator== for cameras: vendor and product are the same.
SameData(c, d) == TRUE

\* wasRemoved and wasAdded: a device of the event with the same device data.
WasRemoved(v, e) == device[v] # 0 /\ \E c \in e.removed : SameData(CameraOf(v), c)
WasAdded(v, e) == device[v] # 0 /\ \E c \in e.added : SameData(CameraOf(v), c)

\* Mutant: only arrivals are looked at.
OnDevicesChangedAdded(e) ==
    told' = [v \in DeviceVars |-> IF WasAdded(v, e) THEN "connected" ELSE ""]

\* The callback of the application, with the event's two lists.
OnDevicesChanged(e) ==
    told' = [v \in DeviceVars |->
                CASE WasAdded(v, e) -> "connected"
                  [] ~WasAdded(v, e) /\ WasRemoved(v, e) -> "disconnected"
                  [] OTHER -> ""]

\* A poll that finds more or fewer devices; onDeviceChanged raises an event when the
\* numbers of cameras it made from the lists differ.
Poll ==
    /\ Cardinality(discovered) # Cardinality(bus) /\ discovered' = bus
    /\ LET old == CreateDevices(discovered)
           new == CreateDevices(bus)
       IN  IF Cardinality(old) # Cardinality(new)
           THEN OnDevicesChanged([removed |-> old, added |-> new])
           ELSE told' = [v \in DeviceVars |-> ""]
    /\ UNCHANGED <<usb, list, profile, objects, device, sensor, kept, crashed>>

----------------------------------------------------------------------------
(* Objects *)

\* The sensors of a device become unusable with it: the application keeps a sensor
\* through the variables that still have the SeDevice it asked.
Forget(v) == kept' = [s \in SensorVars |-> kept[s] \ {v}]

\* Device::operator=(shared_ptr): the old SeDevice is released.
Assign(v, k) == device' = [device EXCEPT ![v] = k]

\* createDevice() and an SeDevice for it.
Wrap(c) ==
    /\ Len(made) < MaxMade /\ Len(wrapped) < MaxMade
    /\ made' = Append(made, c) /\ wrapped' = Append(wrapped, Len(made'))

\* An SeDevice for a device that is there already.
Share(d) == wrapped' = Append(wrapped, d) /\ UNCHANGED made

\* A Sensor of an SeDevice: two raw pointers.
SensorOf(k) == [parent |-> k, sensor |-> wrapped[k]]
AssignSensor(s, pointers) == sensor' = [sensor EXCEPT ![s] = pointers]

\* The infos of a DeviceList, and what its iteration begins with.
Entries(devices) == IF CreateDevices(devices) = {} THEN <<>> ELSE <<Min(devices)>>
Begin(entries) == Head(entries)

Frees == UNCHANGED <<usb, heard, list, profile, sensor>>

\* Context::queryDevices.
QueryDevices ==
    /\ list' = Entries(bus)
    /\ list' # list
    /\ UNCHANGED <<usb, heard, profile, objects, device, sensor, kept, crashed>>

\* v = list[i]: every call creates a device.  It throws while the interface is taken,
\* also by the device v still has, and dereferences null when the camera has gone.
Index(v, i) ==
    /\ i \in 1..Len(list) /\ Len(made) < MaxMade /\ Len(wrapped) < MaxMade /\ Frees
    /\ \/ list[i] \notin bus /\ crashed' = TRUE /\ UNCHANGED <<objects, device, kept>>
       \/ /\ list[i] \in bus /\ ~Taken(list[i])
          /\ Wrap(list[i]) /\ Assign(v, Len(wrapped')) /\ Forget(v) /\ UNCHANGED crashed
       \/ /\ list[i] \in bus /\ Taken(list[i])
          /\ UNCHANGED <<objects, device, kept, crashed>>

\* PipelineProfile::getDevice: an SeDevice of its own, with the pipeline's device.
GetDevice(v) ==
    /\ profile # 0 /\ Len(wrapped) < MaxMade /\ Frees
    /\ Share(profile)
    /\ Assign(v, Len(wrapped')) /\ Forget(v) /\ UNCHANGED crashed

\* Mutant: the reset of *this is all that happens.
CopyResets(v, w) ==
    /\ v # w /\ device[v] # device[w]
    /\ Assign(v, 0)
    /\ kept' = [s \in SensorVars |-> IF w \in kept[s] THEN kept[s] \cup {v} ELSE kept[s] \ {v}]
    /\ Frees /\ UNCHANGED <<objects, crashed>>

\* v = w, for different variables: with the same one the reset loses the device.
Copy(v, w) ==
    /\ v # w /\ device[v] # device[w]
    /\ Assign(v, device[w])
    /\ kept' = [s \in SensorVars |-> IF w \in kept[s] THEN kept[s] \cup {v} ELSE kept[s] \ {v}]
    /\ Frees /\ UNCHANGED <<objects, crashed>>

\* A variable ends or is reset.
Drop(v) ==
    /\ device[v] # 0 /\ Assign(v, 0) /\ Forget(v)
    /\ Frees /\ UNCHANGED <<objects, crashed>>

\* s = v.querySensors()[0]: pointers to the SeDevice and to a sensor of its device.
QuerySensors(v, s) ==
    /\ device[v] # 0
    /\ AssignSensor(s, SensorOf(device[v]))
    /\ kept' = [kept EXCEPT ![s] = {w \in DeviceVars : device[w] = device[v]}]
    /\ UNCHANGED <<usb, heard, list, profile, objects, device, crashed>>

\* s = context.queryAllSensors()[0]: the devices are destroyed at the end of the loop's
\* body, and nothing keeps the sensor's device.
QueryAllSensors(s) ==
    /\ bus # {}
    /\ LET c == Begin(Entries(bus)) IN ~Taken(c) /\ Wrap(c)
    /\ AssignSensor(s, SensorOf(Len(wrapped))')
    /\ kept' = [kept EXCEPT ![s] = {}]
    /\ UNCHANGED <<usb, heard, list, profile, device, crashed>>

\* v = context.getSensorParent(s): a copy of the SeDevice the sensor points to, which the
\* application asks for while it keeps that.
GetSensorParent(v, s) ==
    /\ kept[s] # {} /\ Len(wrapped) < MaxMade /\ Frees
    /\ Share(wrapped[sensor[s].parent])
    /\ Assign(v, Len(wrapped')) /\ Forget(v) /\ UNCHANGED crashed

\* The pipeline gets the first camera from its hub, or gives its device up.
StartPipeline ==
    /\ profile = 0 /\ bus # {} /\ ~Taken(Min(bus)) /\ Len(made) < MaxMade
    /\ made' = Append(made, Min(bus)) /\ profile' = Len(made')
    /\ UNCHANGED <<usb, heard, list, wrapped, device, sensor, kept, crashed>>

StopPipeline ==
    /\ profile # 0 /\ profile' = 0
    /\ UNCHANGED <<usb, heard, list, objects, device, sensor, kept, crashed>>

----------------------------------------------------------------------------

Next ==
    /\ ~crashed
    /\ \/ \E n \in Serials : Plug(n)
       \/ \E c \in bus : Unplug(c)
       \/ Poll \/ QueryDevices \/ StartPipeline \/ StopPipeline
       \/ \E v \in DeviceVars :
             \/ \E i \in DOMAIN list : Index(v, i)
             \/ GetDevice(v) \/ Drop(v)
             \/ \E w \in DeviceVars : Copy(v, w)
             \/ \E s \in SensorVars : QuerySensors(v, s) \/ GetSensorParent(v, s)
       \/ \E s \in SensorVars : QueryAllSensors(s)

Spec == Init /\ [][Next]_vars

----------------------------------------------------------------------------
(* Properties *)

\* The types: pointers lead to objects that were made.
TypeOK ==
    /\ bus \subseteq 1..Len(serial) /\ discovered \subseteq 1..Len(serial)
    /\ serial \in Seq(Serials) /\ Len(list) <= 1
    /\ made \in Seq(1..Len(serial)) /\ wrapped \in Seq(1..Len(made))
    /\ profile \in 0..Len(made) /\ device \in [DeviceVars -> 0..Len(wrapped)]
    /\ \A s \in SensorVars : sensor[s].parent \in 0..Len(wrapped)
    /\ told \in [DeviceVars -> {"", "connected", "disconnected"}]

\* A Sensor has only raw pointers (sensor.h:31-37).  It can be used as long as the
\* application keeps the device it came from, in whichever variable, whatever else it
\* assigns, drops, starts or stops: parent and sensor live, and are of one device.
SensorsUsable ==
    \A s \in SensorVars : kept[s] # {} =>
        /\ SeDeviceLives(sensor[s].parent) /\ DeviceLives(sensor[s].sensor)
        /\ wrapped[sensor[s].parent] = sensor[s].sensor

\* The example prints "current device disconnected!!!" when wasRemoved(dev): each holder
\* of a device whose camera the watcher found gone has been told so, with one camera at
\* a time and none that comes before the watcher saw the last one go.
HoldersTold ==
    [][Poll => \A v \in DeviceVars :
          device[v] # 0 /\ CameraOf(v) \in discovered /\ CameraOf(v) \notin bus
             => told'[v] = "disconnected"]_vars

=============================================================================
