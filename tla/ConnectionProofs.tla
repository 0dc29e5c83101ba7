-------------------------- MODULE ConnectionProofs --------------------------
(***************************************************************************)
(* Proofs about the parts of Connections, each for any constants: the      *)
(* specification of a part implies what Connections says of it.            *)
(***************************************************************************)
EXTENDS Connections, TLAPS, FiniteSetTheorems, SequenceTheorems, WellFoundedInduction

\* A finite set of numbers has a largest one.
LEMMA HasMax ==
    ASSUME NEW S, IsFiniteSet(S), S \subseteq Int, S # {}
    PROVE  \E x \in S : \A y \in S : x >= y
  <1> DEFINE Above(x) == {y \in S : y > x}
             T == {Above(x) : x \in S}
  <1>1. T \subseteq FiniteSubsetsOf(S) /\ T # {}
    <2>1. \A x \in S : Above(x) \in SUBSET S
      OBVIOUS
    <2>2. \A x \in S : IsFiniteSet(Above(x))
      BY <2>1, FS_Subset
    <2>3. \A V \in T : V \in FiniteSubsetsOf(S)
      BY <2>1, <2>2 DEF FiniteSubsetsOf
    <2>4. PICK x : x \in S
      OBVIOUS
    <2>5. Above(x) \in T
      BY <2>4
    <2>. QED
      BY <2>3, <2>5
  <1>2. PICK U \in T : \A V \in T : <<V, U>> \notin StrictSubsetOrdering(S)
    BY <1>1, WFMin, FS_StrictSubsetOrderingWellFounded
  <1>3. PICK x \in S : U = Above(x)
    BY <1>2
  <1>4. ASSUME NEW y \in S, y > x
        PROVE  FALSE
    <2>1. Above(y) \subseteq Above(x) /\ Above(y) # Above(x)
      <3>1. x \in Int /\ y \in Int
        BY <1>3
      <3>2. y \in Above(x) /\ y \notin Above(y)
        BY <1>4, <3>1
      <3>3. \A z \in Above(y) : z \in Above(x)
        BY <1>4, <3>1
      <3>. QED
        BY <3>2, <3>3
    <2>2. <<Above(y), Above(x)>> \in StrictSubsetOrdering(S)
      BY <2>1 DEF StrictSubsetOrdering
    <2>. QED
      BY <1>2, <1>3, <2>2
  <1>. QED
    BY <1>4

----------------------------------------------------------------------------
(* Sensor *)

\* The types, with the lock's one owner and the life of the stream thread.
SensorTypes ==
    /\ lock \in Callers \cup {None}
    /\ caller_pc \in [Callers -> {"idle", "start", "stop_dispatcher", "stop_wait", "stop_join"}]
    /\ \A c \in Callers : caller_pc[c] # "idle" => lock = c
    /\ infos \subseteq FrameIds /\ active_profiles \subseteq FrameIds
    /\ missing \in 0..Threshold + 1 /\ data_queue \in 0..QueueSize
    /\ sensor_starts \in Nat /\ callback \in 0..sensor_starts /\ executing \in 0..sensor_starts
    /\ stream_pc \in {"none", "test", "read", "handle", "ended"}
    /\ is_streaming => stream_pc # "none"
    /\ \A c \in Callers : caller_pc[c] = "stop_join" => ~is_streaming

\* While stop() waits, and from its end to the next start(), the dispatcher is stopped,
\* and a stopped dispatcher is empty; after the wait no callback is running.
SensorAtRest ==
    /\ \A c \in Callers : caller_pc[c] \in {"stop_wait", "stop_join"} => ~running
    /\ \A c \in Callers : caller_pc[c] = "stop_join" => executing = 0
    /\ quiet => executing = 0 /\ ~running /\ \A c \in Callers : caller_pc[c] # "start"
    /\ ~running => data_queue = 0

SensorInv == SensorTypes /\ SensorAtRest

LEMMA FramesCounted ==
    ASSUME NEW S, S \subseteq FrameIds
    PROVE  Sensor!Cardinality(S) \in Nat
  <1>1. IsFiniteSet(FrameIds)
    BY SensorAssumed DEF Sensor!SensorAssumption, Sensor!IsFiniteSet, IsFiniteSet
  <1>2. Cardinality(S) \in Nat
    BY <1>1, FS_Subset, FS_CardinalityType
  <1>3. Sensor!Cardinality(S) = Cardinality(S)
    BY DEF Sensor!Cardinality, Cardinality, Sensor!IsFiniteSet, IsFiniteSet
  <1>. QED
    BY <1>2, <1>3

LEMMA SensorInvariant == Sensor!Spec => []SensorInv
  <1> USE SensorAssumed DEF Sensor!SensorAssumption
  <1>1. Sensor!Init => SensorInv
    BY DEF Sensor!Init, SensorInv, SensorTypes, SensorAtRest
  <1>2. SensorInv /\ [Sensor!Next]_(Sensor!vars) => SensorInv'
    <2> SUFFICES ASSUME SensorInv, [Sensor!Next]_(Sensor!vars)
                 PROVE  SensorInv'
      OBVIOUS
    <2> USE DEF SensorInv, SensorTypes, SensorAtRest, Sensor!ThreadUnchanged, Sensor!Calls,
                Sensor!sensor, Sensor!stream, Sensor!dispatcher, Sensor!SetActiveStream
    <2>0. CASE UNCHANGED Sensor!vars
      BY <2>0 DEF Sensor!vars
    <2>1. CASE Sensor!InitStreamProfiles \/ Sensor!DeviceChanges
      BY <2>1 DEF Sensor!InitStreamProfiles, Sensor!DeviceChanges
    <2>2. ASSUME NEW c \in Callers, NEW requests, Sensor!Open(c, requests) \/ Sensor!Close(c)
          PROVE  SensorInv'
      BY <2>2 DEF Sensor!Open, Sensor!Close
    <2>3. ASSUME NEW c \in Callers, Sensor!StartDispatcher(c)
          PROVE  SensorInv'
      BY <2>3 DEF Sensor!StartDispatcher
    <2>4. ASSUME NEW c \in Callers, Sensor!Start(c)
          PROVE  SensorInv'
      BY <2>4 DEF Sensor!Start
    <2>5. ASSUME NEW c \in Callers, Sensor!StopFlush(c)
          PROVE  SensorInv'
      BY <2>5 DEF Sensor!StopFlush
    <2>6. ASSUME NEW c \in Callers, Sensor!StopDispatcher(c)
          PROVE  SensorInv'
      BY <2>6 DEF Sensor!StopDispatcher
    <2>7. ASSUME NEW c \in Callers, Sensor!StopWait(c)
          PROVE  SensorInv'
      BY <2>7 DEF Sensor!StopWait
    <2>8. ASSUME NEW c \in Callers, Sensor!StopJoin(c)
          PROVE  SensorInv'
      BY <2>8 DEF Sensor!StopJoin
    <2>9. CASE Sensor!ThreadTest \/ Sensor!ReadOK \/ Sensor!ReadFails
      BY <2>9 DEF Sensor!ThreadTest, Sensor!ReadOK, Sensor!ReadFails
    <2>10. CASE Sensor!HandleFrames
      <3>1. PICK allocated \in SUBSET infos : Sensor!Dispatched(Sensor!Cardinality(allocated))
        BY <2>10 DEF Sensor!HandleFrames
      <3>2. data_queue' \in 0..QueueSize /\ (~running => data_queue' = data_queue)
        BY <3>1, FramesCounted DEF Sensor!Dispatched
      <3>. QED
        BY <2>10, <3>2 DEF Sensor!HandleFrames
    <2>11. CASE Sensor!SerialFrame
      BY <2>11 DEF Sensor!SerialFrame, Sensor!Dispatched
    <2>12. CASE Sensor!Invoke \/ Sensor!Return
      BY <2>12 DEF Sensor!Invoke, Sensor!Return
    <2>. QED
      BY <2>0, <2>1, <2>2, <2>3, <2>4, <2>5, <2>6, <2>7, <2>8, <2>9, <2>10, <2>11, <2>12
         DEF Sensor!Next, Sensor!Client, Sensor!Continues, Sensor!Thread
  <1>. QED
    BY <1>1, <1>2, PTL DEF Sensor!Spec

\* The variables of the sensor keep their types, and its lock has one owner, whatever frames
\* arrive and whoever calls open, start, stop and close.
THEOREM SensorTypeCorrect == Sensor!Spec => []Sensor!TypeOK
  <1>1. SensorInv => Sensor!TypeOK
    BY DEF SensorInv, SensorTypes, Sensor!TypeOK
  <1>. QED
    BY <1>1, SensorInvariant, PTL

\* From the return of stop() to the next start() no callback runs, although the stream
\* thread and the serial port still hand frames to the dispatcher
\* (gemini_sensor.cc:205-217, 232-238).
THEOREM SensorQuiet == Sensor!Spec => []QuietAfterStop
  <1>1. SensorInv => QuietAfterStop
    BY DEF SensorInv, SensorAtRest, QuietAfterStop, Sensor!QuietAfterStop
  <1>. QED
    BY <1>1, SensorInvariant, PTL

----------------------------------------------------------------------------
(* DeviceWatch *)

LEMMA HubCounting ==
    ASSUME NEW S
    PROVE  /\ Hub!IsFiniteSet(S) <=> IsFiniteSet(S)
           /\ Hub!Cardinality(S) = Cardinality(S)
  BY DEF Hub!IsFiniteSet, IsFiniteSet, Hub!Cardinality, Cardinality

\* The hubs that have been created: each got one id.
Created == {h \in Hubs : state[h] # "none"}

\* The callbacks of the map are those of living hubs.
HubCallbacks ==
    /\ ids = Cardinality(Created)
    /\ DOMAIN callbacks \subseteq 1..ids
    /\ callbacks = [i \in DOMAIN callbacks |-> callbacks[i]]
    /\ \A i \in DOMAIN callbacks : callbacks[i] \in Hubs /\ state[callbacks[i]] = "alive"

HubTypes ==
    /\ bus \subseteq Hub!Cameras \cup Others /\ discovered \subseteq Hub!Cameras \cup Others
    /\ curr \subseteq Hub!Cameras \cup Others /\ plugs \in Nat
    /\ poll_pc \in {"idle", "call", "next"}
    /\ state \in [Hubs -> {"none", "alive", "dying", "gone"}]
    /\ DOMAIN device_list = Hubs
    /\ \A h \in Hubs : device_list[h] = <<>> \/ \E d : device_list[h] = <<d, d>>
    /\ camera_index \in [Hubs -> {0, 1}]
    /\ user \in [HubUsers -> [at : {"idle", "waiting", "woken", "destroying"},
                              hub : Hubs \cup {Hub!NoHub}]]
    /\ \A u \in HubUsers : user[u].at # "idle" => user[u].hub \in Hubs

\* A dying hub has one destroyer.
HubDying ==
    \A u \in HubUsers : user[u].at = "destroying" =>
        /\ state[user[u].hub] = "dying"
        /\ \A v \in HubUsers : user[v].at = "destroying" /\ user[v].hub = user[u].hub => v = u

\* The callback that is being called, or was called last, is of a hub that is not gone.
HubRaising == poll_pc # "idle" => event # "" /\ cb \in Hubs /\ state[cb] # "gone"

HubInv == HubTypes /\ HubDying /\ HubCallbacks /\ HubRaising

\* The iteration over the map stops at a callback or at its end.
LEMMA AfterIsCallback ==
    ASSUME HubCallbacks, ids \in Nat, NEW place, Hub!After(place) # 0
    PROVE  Hub!After(place) \in DOMAIN callbacks
  <1> DEFINE rest == {i \in DOMAIN callbacks : i < place}
  <1>1. rest # {} /\ Hub!After(place) = Hub!Max(rest)
    BY DEF Hub!After
  <1>2. IsFiniteSet(rest) /\ rest \subseteq Int
    <2>1. rest \in SUBSET (1..ids)
      BY DEF HubCallbacks
    <2>2. IsFiniteSet(1..ids)
      BY FS_Interval
    <2>3. IsFiniteSet(rest)
      BY <2>1, <2>2, FS_Subset
    <2>. QED
      BY <2>1, <2>3
  <1>3. \E x \in rest : \A y \in rest : x >= y
    BY <1>1, <1>2, HasMax
  <1>4. Hub!Max(rest) \in rest
    BY <1>3 DEF Hub!Max
  <1>. QED
    BY <1>1, <1>4

LEMMA CreatedCounted ==
    ASSUME NEW S, S \subseteq Hubs
    PROVE  IsFiniteSet(S) /\ Cardinality(S) \in Nat /\ Cardinality(S) <= Cardinality(Hubs)
  BY HubAssumed, HubCounting, FS_Subset, FS_CardinalityType DEF Hub!DeviceWatchAssumption

\* A list of two devices: camera_index_ stays in it.
LEMMA IndexFits ==
    ASSUME HubTypes, NEW h \in Hubs, NEW list, NEW loop, NEW created,
           list = <<>> \/ \E d : list = <<d, d>>, Hub!CreateDevice(h, list, loop, created)
    PROVE  camera_index' \in [Hubs -> {0, 1}]
  <1>1. Len(list) = 2
    BY DEF Hub!CreateDevice
  <1>2. (camera_index[h] + 1) % Len(list) \in {0, 1}
    BY <1>1 DEF HubTypes
  <1>. QED
    BY <1>2 DEF Hub!CreateDevice, HubTypes

\* A user goes to another place.
LEMMA HubGoto ==
    ASSUME HubTypes, NEW u \in HubUsers, NEW l \in {"idle", "waiting", "woken", "destroying"},
           NEW h \in Hubs \cup {Hub!NoHub}, l # "idle" => h \in Hubs, Hub!Goto(u, l, h)
    PROVE  /\ user' \in [HubUsers -> [at : {"idle", "waiting", "woken", "destroying"},
                                      hub : Hubs \cup {Hub!NoHub}]]
           /\ \A v \in HubUsers : user'[v].at # "idle" => user'[v].hub \in Hubs
           /\ user'[u].at = l /\ user'[u].hub = h
           /\ \A v \in HubUsers \ {u} : user'[v] = user[v]
  BY DEF HubTypes, Hub!Goto

LEMMA HubInvariant == Hub!Spec => []HubInv
  <1>1. Hub!Init => HubInv
    <2> SUFFICES ASSUME Hub!Init
                 PROVE  HubInv
      OBVIOUS
    <2>1. Created = {}
      BY DEF Hub!Init, Created
    <2>2. HubCallbacks
      BY <2>1, FS_EmptySet DEF Hub!Init, HubCallbacks
    <2>3. HubTypes
      BY DEF Hub!Init, HubTypes, Hub!Idle, Hub!NoHub
    <2>. QED
      BY <2>2, <2>3 DEF Hub!Init, HubInv, HubRaising, HubDying, Hub!Idle
  <1>2. HubInv /\ [Hub!Next]_(Hub!vars) => HubInv'
    <2> SUFFICES ASSUME HubInv, [Hub!Next]_(Hub!vars)
                 PROVE  HubInv'
      OBVIOUS
    <2> USE DEF HubInv
    <2>a. ids \in Nat /\ Cardinality(Hubs) \in Nat
      BY CreatedCounted DEF HubCallbacks, Created
    <2>b. ASSUME UNCHANGED <<state, ids, callbacks>>
          PROVE  HubCallbacks'
      BY <2>b DEF HubCallbacks, Created
    <2>c. ASSUME UNCHANGED <<state, user>>
          PROVE  HubDying'
      BY <2>c DEF HubDying
    <2>0. CASE UNCHANGED Hub!vars
      BY <2>0, <2>b, <2>c DEF Hub!vars, Hub!usb, Hub!polling, Hub!context, Hub!hub, HubTypes,
         HubRaising
    <2>1. CASE Hub!Poll
      <3>1. HubTypes'
        BY <2>1 DEF Hub!Poll, Hub!Polled, Hub!RaiseNext, HubTypes, Hub!hub, Hub!usb
      <3>2. HubRaising'
        <4>1. CASE Hub!RaiseNext(ids + 1) /\ Hub!After(ids + 1) # 0
          <5>1. Hub!After(ids + 1) \in DOMAIN callbacks
            BY <2>a, <4>1, AfterIsCallback
          <5>2. event' # "" /\ cb' = callbacks[Hub!After(ids + 1)] /\ state' = state
            BY <2>1, <4>1 DEF Hub!Poll, Hub!Polled, Hub!RaiseNext, Hub!hub
          <5>. QED
            BY <5>1, <5>2 DEF HubRaising, HubCallbacks
        <4>2. CASE Hub!Polled
          BY <4>2 DEF Hub!Polled, HubRaising
        <4>. QED
          BY <2>1, <4>1, <4>2 DEF Hub!Poll, Hub!RaiseNext
      <3>. QED
        BY <2>1, <2>b, <2>c, <3>1, <3>2 DEF Hub!Poll, Hub!context, Hub!hub
    <2>2. CASE Hub!RaiseCall
      <3>1. cb \in Hubs /\ Hub!HubCallback(cb) /\ UNCHANGED <<bus, plugs, discovered, curr, cb, event>>
        BY <2>2 DEF Hub!RaiseCall, HubRaising, Hub!usb
      <3>2. HubTypes' /\ HubDying'
        <4>1. user' \in [HubUsers -> [at : {"idle", "waiting", "woken", "destroying"},
                                      hub : Hubs \cup {Hub!NoHub}]]
              /\ \A u \in HubUsers : user'[u].hub = user[u].hub
                                     /\ \A l \in {"idle", "destroying"} :
                                            user'[u].at = l <=> user[u].at = l
          <5>1. CASE UNCHANGED user
            BY <5>1 DEF HubTypes
          <5>2. CASE Hub!NotifyAll(cb)
            BY <5>2 DEF Hub!NotifyAll, HubTypes
          <5>. QED
            BY <3>1, <5>1, <5>2 DEF Hub!HubCallback
        <4>2. DOMAIN device_list' = Hubs /\ camera_index' \in [Hubs -> {0, 1}]
              /\ \A h \in Hubs : device_list'[h] = <<>> \/ \E d : device_list'[h] = <<d, d>>
          BY <3>1 DEF Hub!HubCallback, Hub!FilterByVid, HubTypes
        <4>. QED
          BY <2>2, <3>1, <4>1, <4>2 DEF HubTypes, HubDying, Hub!RaiseCall, Hub!HubCallback
      <3>. QED
        BY <2>2, <2>b, <3>1, <3>2 DEF Hub!RaiseCall, Hub!HubCallback, HubRaising, Hub!context
    <2>3. CASE Hub!Raise
      <3>1. HubTypes'
        BY <2>3 DEF Hub!Raise, Hub!Polled, Hub!RaiseNext, HubTypes, Hub!hub, Hub!usb
      <3>2. HubRaising'
        <4>1. CASE Hub!RaiseNext(at) /\ Hub!After(at) # 0
                   /\ event' = IF poll_pc' = "idle" THEN "" ELSE event
          <5>1. Hub!After(at) \in DOMAIN callbacks
            BY <2>3, <2>a, <4>1, AfterIsCallback
          <5>2. event' # "" /\ cb' = callbacks[Hub!After(at)] /\ state' = state
            BY <2>3, <4>1 DEF Hub!Raise, Hub!RaiseNext, Hub!hub, HubRaising
          <5>. QED
            BY <5>1, <5>2 DEF HubRaising, HubCallbacks
        <4>2. CASE Hub!Polled
          BY <4>2 DEF Hub!Polled, HubRaising
        <4>3. CASE UNCHANGED <<poll_pc, event, cb>>
          BY <2>3, <4>3 DEF HubRaising, Hub!Raise, Hub!hub
        <4>. QED
          BY <2>3, <4>1, <4>2, <4>3 DEF Hub!Raise, Hub!RaiseNext
      <3>. QED
        BY <2>3, <2>b, <2>c, <3>1, <3>2 DEF Hub!Raise, Hub!context, Hub!hub
    <2>4. ASSUME NEW u \in HubUsers, NEW h \in Hubs, Hub!CreateHub(u, h)
          PROVE  HubInv'
      <3>1. state[h] = "none" /\ state' = [state EXCEPT ![h] = "alive"] /\ ids' = ids + 1
        BY <2>4 DEF Hub!CreateHub, Hub!Register
      <3>2. ids' = Cardinality(Created')
        <4>1. Created' = Created \cup {h} /\ h \notin Created
          BY <3>1 DEF Created, HubTypes
        <4>2. IsFiniteSet(Created)
          BY CreatedCounted DEF Created
        <4>3. Cardinality(Created \cup {h}) = Cardinality(Created) + 1
          BY <4>1, <4>2, FS_AddElement
        <4>. QED
          BY <3>1, <4>1, <4>3 DEF HubCallbacks
      <3>3. callbacks' = [i \in DOMAIN callbacks \cup {ids + 1} |->
                             IF i = ids + 1 THEN h ELSE callbacks[i]]
        BY <2>4 DEF Hub!CreateHub, Hub!Register
      <3>4. HubCallbacks'
        BY <3>1, <3>2, <3>3, <2>a DEF HubCallbacks, HubTypes
      <3>5. HubTypes'
        BY <2>4, <3>1 DEF HubTypes, Hub!CreateHub, Hub!usb, Hub!polling
      <3>6. HubRaising'
        BY <2>4, <3>1 DEF HubTypes, HubRaising, Hub!CreateHub, Hub!polling
      <3>7. HubDying'
        <4>1. \A v \in HubUsers : user[v].at = "destroying" => state'[user[v].hub] = "dying"
          BY <3>1 DEF HubTypes, HubDying
        <4>. QED
          BY <2>4, <4>1 DEF HubDying, Hub!CreateHub
      <3>. QED
        BY <3>4, <3>5, <3>6, <3>7
    <2>5. ASSUME NEW u \in HubUsers, NEW h \in Hubs, Hub!DestroyHub(u, h)
          PROVE  HubInv'
      <3>1. state[h] = "alive" /\ state' = [state EXCEPT ![h] = "dying"] /\ ids' = ids
        BY <2>5 DEF Hub!DestroyHub
      <3>2. Created' = Created
        BY <3>1 DEF Created, HubTypes
      <3>3. callbacks' = [i \in {j \in DOMAIN callbacks : callbacks[j] # h} |-> callbacks[i]]
        BY <2>5 DEF Hub!DestroyHub, Hub!Unregister
      <3>4. HubCallbacks'
        BY <3>1, <3>2, <3>3 DEF HubCallbacks, HubTypes
      <3>5. HubTypes'
        BY <2>5, <3>1 DEF HubTypes, Hub!DestroyHub, Hub!Goto, Hub!usb, Hub!polling
      <3>6. HubRaising'
        BY <2>5, <3>1 DEF HubTypes, HubRaising, Hub!DestroyHub, Hub!polling
      <3>7. HubDying'
        BY <2>5, <3>1 DEF HubTypes, HubDying, Hub!DestroyHub, Hub!Goto
      <3>. QED
        BY <3>4, <3>5, <3>6, <3>7
    <2>6. ASSUME NEW u \in HubUsers, Hub!Destroyed(u)
          PROVE  HubInv'
      <3>1. PICK h \in Hubs : h = user[u].hub /\ state' = [state EXCEPT ![h] = "gone"]
                             /\ state[h] = "dying"
        BY <2>6 DEF Hub!Destroyed, Hub!At, HubTypes, HubDying
      <3>2. Created' = Created
        BY <3>1 DEF Created, HubTypes
      <3>3. HubCallbacks'
        BY <2>6, <3>1, <3>2 DEF Hub!Destroyed, Hub!context, HubCallbacks, HubTypes
      <3>4. HubTypes'
        BY <2>6, <3>1, HubGoto DEF HubTypes, Hub!Destroyed, Hub!usb
      <3>5. HubDying'
        BY <2>6, <3>1 DEF HubTypes, HubDying, Hub!Destroyed, Hub!Goto, Hub!At
      <3>. QED
        BY <2>6, <3>3, <3>4, <3>5 DEF HubRaising, Hub!Destroyed, Hub!WatcherStop
    <2>7. ASSUME NEW u \in HubUsers, Hub!ContextStart(u)
          PROVE  HubInv'
      BY <2>7, <2>b, <2>c DEF Hub!ContextStart, HubTypes, HubRaising, Hub!usb, Hub!context, Hub!hub
    <2>8. ASSUME NEW u \in HubUsers, NEW h \in Hubs, NEW loop \in BOOLEAN,
                 Hub!WaitForDevice(u, h, loop)
          PROVE  HubInv'
      <3>0. UNCHANGED user \/ Hub!Goto(u, "waiting", h)
        BY <2>8 DEF Hub!WaitForDevice
      <3>1. /\ DOMAIN device_list' = Hubs
            /\ \A g \in Hubs : device_list'[g] = <<>> \/ \E d : device_list'[g] = <<d, d>>
        BY <2>8 DEF Hub!WaitForDevice, Hub!FilterByVid, HubTypes
      <3>2. camera_index' \in [Hubs -> {0, 1}]
        BY <2>8, <3>1, IndexFits DEF Hub!WaitForDevice, HubTypes
      <3>3. HubTypes'
        BY <2>8, <3>0, <3>1, <3>2, HubGoto DEF HubTypes, Hub!WaitForDevice, Hub!usb, Hub!polling
      <3>4. HubDying'
        BY <2>8, <3>0, HubGoto DEF HubDying, Hub!WaitForDevice
      <3>. QED
        BY <2>8, <2>b, <3>3, <3>4 DEF HubRaising, Hub!WaitForDevice, Hub!polling, Hub!context
    <2>9. ASSUME NEW u \in HubUsers, NEW loop \in BOOLEAN, Hub!Woken(u, loop) \/ Hub!TimesOut(u, loop)
          PROVE  HubInv'
      <3>0. Hub!Goto(u, "idle", Hub!NoHub) \/ Hub!Goto(u, "waiting", user[u].hub)
        BY <2>9 DEF Hub!Woken, Hub!TimesOut
      <3>1. user[u].hub \in Hubs
        BY <2>9 DEF Hub!Woken, Hub!TimesOut, Hub!At, HubTypes
      <3>2. UNCHANGED <<Hub!usb, Hub!polling, Hub!context, state, device_list>>
        BY <2>9 DEF Hub!Woken, Hub!TimesOut
      <3>3. camera_index' \in [Hubs -> {0, 1}]
        BY <2>9, <3>1, IndexFits DEF Hub!Woken, Hub!TimesOut, HubTypes
      <3>4. HubTypes'
        <4>1. CASE Hub!Goto(u, "idle", Hub!NoHub)
          BY <3>2, <3>3, <4>1, HubGoto DEF HubTypes, Hub!usb, Hub!polling
        <4>2. CASE Hub!Goto(u, "waiting", user[u].hub)
          BY <3>1, <3>2, <3>3, <4>2, HubGoto DEF HubTypes, Hub!usb, Hub!polling
        <4>. QED
          BY <3>0, <4>1, <4>2
      <3>5. HubDying'
        <4>1. user'[u].at # "destroying" /\ \A v \in HubUsers \ {u} : user'[v] = user[v]
          BY <3>0, <3>1 DEF HubTypes, Hub!Goto
        <4>. QED
          BY <3>2, <4>1 DEF HubDying
      <3>. QED
        BY <2>b, <3>2, <3>4, <3>5 DEF HubRaising, Hub!polling, Hub!context
    <2>10. CASE Hub!Plug \/ (\E c \in Hub!Cameras : Hub!Unplug(c)) \/ \E o \in Others : Hub!MoveOther(o)
      <3>1. bus' \subseteq Hub!Cameras \cup Others /\ plugs' \in Nat
        <4>1. CASE Hub!Plug
          <5>1. plugs + 1 \in Nat /\ plugs + 1 \in Hub!Cameras
            BY <4>1, HubAssumed DEF Hub!Plug, HubTypes, Hub!DeviceWatchAssumption, Hub!Cameras
          <5>2. plugs' = plugs + 1 /\ bus' = bus \cup {plugs + 1}
            BY <4>1 DEF Hub!Plug
          <5>. QED
            BY <5>1, <5>2 DEF HubTypes
        <4>2. CASE \E c \in Hub!Cameras : Hub!Unplug(c)
          BY <4>2 DEF Hub!Unplug, HubTypes
        <4>3. CASE \E o \in Others : Hub!MoveOther(o)
          BY <4>3 DEF Hub!MoveOther, HubTypes
        <4>. QED
          BY <2>10, <4>1, <4>2, <4>3
      <3>. QED
        BY <2>10, <2>b, <2>c, <3>1 DEF Hub!Plug, Hub!Unplug, Hub!MoveOther, HubTypes, HubRaising,
                                 Hub!polling, Hub!context, Hub!hub
    <2>. QED
      BY <2>0, <2>1, <2>2, <2>3, <2>4, <2>5, <2>6, <2>7, <2>8, <2>9, <2>10
         DEF Hub!Next, Hub!WatcherGoes, Hub!UserGoes
  <1>. QED
    BY <1>1, <1>2, PTL DEF Hub!Spec

\* The variables of watcher, context and hubs keep their types, and the callbacks of the map
\* are those of living hubs.
THEOREM HubTypeCorrect == Hub!Spec => []Hub!TypeOK
  <1>1. HubInv => Hub!TypeOK
    <2> SUFFICES ASSUME HubInv
                 PROVE  Hub!TypeOK
      OBVIOUS
    <2>1. DOMAIN callbacks \subseteq Hub!Ids
      BY CreatedCounted, HubCounting DEF HubInv, HubCallbacks, Created, Hub!Ids
    <2>2. \A h \in Hubs : Len(device_list[h]) \in {0, 2}
      <3>1. \A d : Len(<<d, d>>) = 2
        OBVIOUS
      <3>2. Len(<<>>) = 0
        OBVIOUS
      <3>. QED
        BY <3>1, <3>2 DEF HubInv, HubTypes
    <2>. QED
      BY <2>1, <2>2 DEF HubInv, HubTypes, HubCallbacks, HubRaising, Hub!TypeOK
  <1>. QED
    BY <1>1, HubInvariant, PTL

\* The watcher calls no callback of a hub whose destructor returned, although it takes its
\* copy of the callback without the lock of the map (device_hub.cc:68-73,
\* context.cc:167-180): the destructor waits for the watcher after it unregistered.
THEOREM HubGoneIsQuiet == Hub!Spec => []GoneIsQuiet
  <1>1. HubInv => GoneIsQuiet
    BY DEF HubInv, HubRaising, GoneIsQuiet, Hub!GoneIsQuiet
  <1>. QED
    BY <1>1, HubInvariant, PTL

----------------------------------------------------------------------------
(* SerialPort *)

\* What is left of a handler of the receive thread.
Greeting == <<"ack", "watchdog", "timestamp", "intrinsics", "extrinsics", "files">>
AfterTimestamp == <<"intrinsics", "extrinsics", "files">>
AfterIntrinsics == <<"extrinsics", "files">>
Handlers ==
    {<<>>, <<"heartbeat", "kick">>, <<"kick">>, <<"heartbeat">>, Greeting,
     <<"watchdog", "timestamp", "intrinsics", "extrinsics", "files">>,
     <<"timestamp", "intrinsics", "extrinsics", "files">>,
     AfterTimestamp, AfterIntrinsics, <<"files">>}

PortTypes ==
    /\ working_state \in {"Disconnected", "Syncing", "Connected"} /\ retry_times \in 0..RetryLimit
    /\ serial \in BOOLEAN /\ serial_running \in BOOLEAN
    /\ port_pc \in {"closed", "connect", "open", "watchdog", "running", "join", "flush"}
    /\ receive_pc \in {"loop", "done"} /\ writing \in Port!Sends \cup {"flush", "none"}
    /\ watchdog \in {"off", "on", "again"} /\ watch_pc \in {"idle", "handler", "crash"}
    /\ peer \in {"idle", "synced", "connected"}

\* What is on the line, what is queued, and what is left of a handler.
Downwards == Port!Sends \cup {"sync"}
PortLines ==
    /\ up \in Seq(Port!Received) /\ down \in Seq(Downwards)
    /\ write_queue = <<>> \/ \E m \in Port!Sends \cup {"flush"} : write_queue = <<m>>
    /\ todo \in Handlers

\* How far open() and close() are says which threads are left; only a late start of the
\* watchdog outlives its stop.
PortPhases ==
    /\ accepting <=> port_pc # "closed"
    /\ serial <=> port_pc # "closed"
    /\ serial_running <=> port_pc \in {"connect", "open", "watchdog", "running"}
    /\ serial_running => receive_pc = "loop"
    /\ port_pc \in {"flush", "closed"} => receive_pc = "done"
    /\ receive_pc = "done" => todo = <<>>
    /\ port_pc = "closed" => write_queue = <<>> /\ writing = "none"
    /\ late \/ port_pc \in {"connect", "open", "watchdog"} \/ (watchdog = "off" /\ watch_pc = "idle")

\* The timestamp is queued before the next request, which waits for its place, and the
\* one after that waits until it was written.
PortTimestamp ==
    /\ write_queue = <<"timestamp">> => todo = AfterTimestamp
    /\ writing = "timestamp" =>
        todo = AfterTimestamp \/ (todo = AfterIntrinsics /\ write_queue # <<>>)

PortInv == PortTypes /\ PortLines /\ PortPhases /\ PortTimestamp

\* A handler goes on: what it does first, and what is left then.
LEMMA HandlerGoesOn ==
    ASSUME todo \in Handlers, todo # <<>>
    PROVE  /\ Tail(todo) \in Handlers
           /\ Head(todo) = "timestamp" => Tail(todo) = AfterTimestamp
           /\ todo = AfterTimestamp => Tail(todo) = AfterIntrinsics
           /\ todo = AfterTimestamp \/ todo = AfterIntrinsics => Head(todo) \in Port!Sends
  <1> USE DEF Greeting, AfterTimestamp, AfterIntrinsics, Handlers, Port!Sends
  <1>1. CASE todo \in {<<"kick">>, <<"heartbeat">>, <<"files">>}
    <2>1. PICK m \in {"kick", "heartbeat", "files"} : todo = <<m>>
      BY <1>1
    <2>2. Head(todo) = m /\ Tail(todo) = <<>> /\ todo # AfterTimestamp /\ todo # AfterIntrinsics
      BY <2>1
    <2>. QED
      BY <2>1, <2>2
  <1>7. CASE todo = <<"heartbeat", "kick">>
    BY <1>7
  <1>2. CASE todo = Greeting
    BY <1>2
  <1>3. CASE todo = <<"watchdog", "timestamp", "intrinsics", "extrinsics", "files">>
    BY <1>3
  <1>4. CASE todo = <<"timestamp", "intrinsics", "extrinsics", "files">>
    BY <1>4
  <1>5. CASE todo = AfterTimestamp
    BY <1>5
  <1>6. CASE todo = AfterIntrinsics
    BY <1>6
  <1>. QED
    BY <1>1, <1>2, <1>3, <1>4, <1>5, <1>6, <1>7

LEMMA HandlersTyped == Handlers \subseteq Seq(Port!Sends \cup {"watchdog", "kick"})
  <1> SUFFICES ASSUME NEW t \in Handlers
               PROVE  t \in Seq(Port!Sends \cup {"watchdog", "kick"})
    OBVIOUS
  <1> USE DEF Greeting, AfterTimestamp, AfterIntrinsics, Handlers, Port!Sends
  <1>1. CASE t = <<>>
    BY <1>1
  <1>8. CASE t \in {<<"kick">>, <<"heartbeat">>, <<"files">>}
    <2>1. PICK m \in {"kick", "heartbeat", "files"} : t = <<m>>
      BY <1>8
    <2>. QED
      BY <2>1
  <1>2. CASE t = Greeting
    BY <1>2
  <1>3. CASE t = <<"watchdog", "timestamp", "intrinsics", "extrinsics", "files">>
    BY <1>3
  <1>4. CASE t = <<"timestamp", "intrinsics", "extrinsics", "files">>
    BY <1>4
  <1>5. CASE t = AfterTimestamp
    BY <1>5
  <1>6. CASE t = AfterIntrinsics
    BY <1>6
  <1>7. CASE t = <<"heartbeat", "kick">>
    BY <1>7
  <1>. QED
    BY <1>1, <1>2, <1>3, <1>4, <1>5, <1>6, <1>7, <1>8

\* What is written is on the line.
LEMMA Writes ==
    ASSUME down \in Seq(Downwards), NEW m \in Downwards, Port!Write(m)
    PROVE  down' \in Seq(Downwards)
  BY DEF Port!Write

LEMMA PortInvariant == Port!Spec => []PortInv
  <1> USE PortAssumed DEF Port!SerialPortAssumption
  <1>1. Port!Init => PortInv
    <2> SUFFICES ASSUME Port!Init
                 PROVE  PortInv
      OBVIOUS
    <2>0. retry_times \in 0..RetryLimit
      BY DEF Port!Init
    <2>1. PortTypes
      BY <2>0 DEF Port!Init, PortTypes, Port!NoItem
    <2>3. PortPhases
      BY DEF Port!Init, PortPhases, Port!NoItem
    <2>2. PortLines /\ PortTimestamp
      BY DEF Port!Init, PortLines, Handlers, PortTimestamp, Port!NoItem
    <2>. QED
      BY <2>1, <2>2, <2>3 DEF PortInv
  <1>2. PortInv /\ [Port!Next]_(Port!vars) => PortInv'
    <2> SUFFICES ASSUME PortInv, [Port!Next]_(Port!vars)
                 PROVE  PortInv'
      OBVIOUS
    <2> USE DEF PortInv, Port!state, Port!port, Port!receiver, Port!writer, Port!watch, Port!NoItem
    <2>a. "sync" \in Downwards
      BY DEF Downwards
    <2>0. CASE UNCHANGED Port!vars
      BY <2>0 DEF Port!vars, PortTypes, PortLines, PortPhases, PortTimestamp
    <2>1. CASE Port!Open \/ Port!Connect
      <3>1. PortTypes'
        BY <2>1 DEF Port!Open, Port!Connect, Port!OfferHand, PortTypes
      <3>2. PortLines'
        BY <2>1, <2>a, Writes DEF Port!Open, Port!Connect, Port!OfferHand, PortLines
      <3>3. PortPhases'
        BY <2>1 DEF Port!Open, Port!Connect, Port!OfferHand, PortPhases
      <3>4. PortTimestamp'
        BY <2>1 DEF Port!Open, Port!Connect, PortTimestamp
      <3>. QED
        BY <3>1, <3>2, <3>3, <3>4
    <2>2. CASE Port!CloseDisconnect
      <3>0. "disconnect" \in Port!Sends
        BY DEF Port!Sends
      <3>1. PortTypes'
        BY <2>2 DEF Port!CloseDisconnect, PortTypes
      <3>2. PortLines'
        BY <2>2, <3>0 DEF Port!CloseDisconnect, Port!Send, PortLines
      <3>3. PortPhases'
        BY <2>2 DEF Port!CloseDisconnect, PortPhases
      <3>4. PortTimestamp'
        BY <2>2 DEF Port!CloseDisconnect, Port!Send, PortTimestamp
      <3>. QED
        BY <3>1, <3>2, <3>3, <3>4
    <2>3. CASE Port!CloseWatchdog \/ Port!CloseRunning \/ Port!CloseReset
      <3>1. PortTypes'
        <4>1. CASE Port!CloseWatchdog
          BY <4>1 DEF Port!CloseWatchdog, PortTypes
        <4>2. CASE Port!CloseRunning
          BY <4>2 DEF Port!CloseRunning, PortTypes
        <4>3. CASE Port!CloseReset
          BY <4>3 DEF Port!CloseReset, PortTypes
        <4>. QED
          BY <2>3, <4>1, <4>2, <4>3
      <3>2. PortPhases'
        BY <2>3 DEF Port!CloseWatchdog, Port!CloseRunning, Port!CloseReset, PortPhases
      <3>3. PortLines' /\ PortTimestamp'
        BY <2>3 DEF Port!CloseWatchdog, Port!CloseRunning, Port!CloseReset, PortLines, PortTimestamp
      <3>. QED
        BY <3>1, <3>2, <3>3
    <2>4. CASE Port!CloseJoin
      <3>1. PortTypes'
        BY <2>4 DEF Port!CloseJoin, PortTypes
      <3>2. PortPhases' /\ PortLines'
        BY <2>4 DEF Port!CloseJoin, PortPhases, PortLines
      <3>3. PortTimestamp'
        BY <2>4 DEF Port!CloseJoin, PortTimestamp, PortPhases, AfterTimestamp, AfterIntrinsics
      <3>. QED
        BY <3>1, <3>2, <3>3
    <2>5. CASE Port!HandleTlvData \/ Port!Retry
      <3>1. /\ todo = <<>> /\ receive_pc = "loop"
            /\ UNCHANGED <<Port!port, receive_pc, Port!writer, Port!watch, peer, late>>
        BY <2>5 DEF Port!HandleTlvData, Port!Retry
      <3>2. todo' \in Handlers /\ working_state' \in {"Disconnected", "Syncing", "Connected"}
        BY <2>5 DEF Port!HandleTlvData, Port!HandleWhileSyncing, Port!Handle, Port!HandleConnection,
             Port!HandleCommand, Port!HandleDataUnit, Port!OnConnected, Port!Retry, Port!OfferHand,
             PortTypes, PortLines, Handlers, Greeting
      <3>3. retry_times' \in 0..RetryLimit
        BY <2>5 DEF Port!HandleTlvData, Port!Retry, PortTypes
      <3>4. up' \in Seq(Port!Received)
        BY <2>5 DEF Port!HandleTlvData, Port!Retry, PortLines
      <3>5. down' \in Seq(Downwards)
        <4>1. UNCHANGED down \/ Port!Write("sync")
          BY <2>5 DEF Port!HandleTlvData, Port!HandleWhileSyncing, Port!Handle, Port!Retry,
                      Port!OfferHand
        <4>. QED
          BY <2>a, <4>1, Writes DEF PortLines
      <3>6. PortTypes'
        BY <3>1, <3>2, <3>3 DEF PortTypes
      <3>7. PortLines'
        BY <3>1, <3>2, <3>4, <3>5 DEF PortLines
      <3>8. PortPhases'
        BY <3>1 DEF PortPhases
      <3>9. PortTimestamp'
        BY <3>1 DEF PortTimestamp, AfterTimestamp, AfterIntrinsics
      <3>. QED
        BY <3>6, <3>7, <3>8, <3>9
    <2>6. CASE Port!HandlerStep
      <3>0. /\ todo \in Handlers /\ todo # <<>> /\ todo' = Tail(todo) /\ receive_pc = "loop"
            /\ UNCHANGED <<Port!state, Port!port, receive_pc, writing, accepting, watch_pc, up, down, peer>>
        BY <2>6 DEF Port!HandlerStep, PortLines
      <3>1. todo' \in Handlers
        BY <3>0, HandlerGoesOn
      <3>2. \/ Head(todo) \in Port!Sends /\ write_queue' = <<Head(todo)>> /\ write_queue = <<>>
            \/ Head(todo) \notin Port!Sends /\ UNCHANGED write_queue
        BY <2>6, <3>0 DEF Port!HandlerStep, Port!Send, PortPhases, Port!Sends
      <3>3. PortTypes'
        BY <2>6, <3>0 DEF Port!HandlerStep, PortTypes
      <3>4. PortLines'
        BY <3>0, <3>1, <3>2 DEF PortLines
      <3>5. PortPhases'
        <4>1. late' \/ port_pc' \in {"connect", "open", "watchdog"} \/ (watchdog' = "off" /\ watch_pc' = "idle")
          BY <2>6, <3>0 DEF Port!HandlerStep, PortPhases, PortTypes
        <4>. QED
          BY <3>0, <3>2, <4>1 DEF PortPhases
      <3>6. PortTimestamp'
        <4>1. CASE Head(todo) \in Port!Sends
          <5>1. write_queue = <<>> /\ write_queue' = <<Head(todo)>> /\ write_queue' # <<>>
            BY <3>2, <4>1
          <5>2. writing = "timestamp" => todo = AfterTimestamp
            BY <5>1 DEF PortTimestamp
          <5>3. write_queue' = <<"timestamp">> => Head(todo) = "timestamp"
            BY <5>1
          <5>. QED
            BY <3>0, <5>1, <5>2, <5>3, HandlerGoesOn DEF PortTimestamp
        <4>2. CASE Head(todo) \notin Port!Sends
          BY <3>0, <3>2, <4>2, HandlerGoesOn DEF PortTimestamp
        <4>. QED
          BY <4>1, <4>2
      <3>. QED
        BY <3>3, <3>4, <3>5, <3>6
    <2>7. CASE Port!ReceiverEnds
      BY <2>7 DEF Port!ReceiverEnds, PortTypes, PortLines, PortPhases, PortTimestamp
    <2>8. CASE Port!TakeItem
      <3>1. PICK m \in Port!Sends \cup {"flush"} : write_queue = <<m>> /\ writing' = m
        BY <2>8 DEF Port!TakeItem, PortLines
      <3>2. PortTypes' /\ PortLines'
        BY <2>8, <3>1 DEF Port!TakeItem, PortTypes, PortLines
      <3>3. PortPhases'
        BY <2>8 DEF Port!TakeItem, PortPhases
      <3>4. PortTimestamp'
        BY <2>8, <3>1 DEF Port!TakeItem, PortTimestamp
      <3>. QED
        BY <3>2, <3>3, <3>4
    <2>9. CASE Port!WriteItem
      <3>1. down' \in Seq(Downwards)
        <4>1. writing # "flush" => writing \in Downwards
          BY <2>9 DEF Port!WriteItem, PortTypes, Downwards
        <4>. QED
          BY <2>9, <4>1, Writes DEF Port!WriteItem, PortLines
      <3>2. PortTypes' /\ PortLines'
        BY <2>9, <3>1 DEF Port!WriteItem, PortTypes, PortLines
      <3>. QED
        BY <2>9, <3>2 DEF Port!WriteItem, PortPhases, PortTimestamp
    <2>10. CASE Port!WatchdogTests \/ Port!WatchdogOffers \/ Port!WatchdogThrows
      <3>1. PortTypes'
        BY <2>10 DEF Port!WatchdogTests, Port!WatchdogOffers, Port!WatchdogThrows,
           Port!OfferHand, PortTypes
      <3>2. down' \in Seq(Downwards)
        BY <2>10, <2>a, Writes
           DEF Port!WatchdogTests, Port!WatchdogOffers, Port!WatchdogThrows, Port!OfferHand,
              PortLines
      <3>3. PortPhases'
        BY <2>10 DEF Port!WatchdogTests, Port!WatchdogOffers, Port!WatchdogThrows, PortPhases
      <3>4. PortLines' /\ PortTimestamp'
        BY <2>10, <3>2 DEF Port!WatchdogTests, Port!WatchdogOffers, Port!WatchdogThrows,
           PortLines, PortTimestamp
      <3>. QED
        BY <3>1, <3>3, <3>4
    <2>11. CASE Port!DeviceReads \/ Port!DeviceSends \/ Port!DeviceStops \/ Port!LosePacket
      <3> USE DEF Port!DeviceReads, Port!DeviceSends, Port!DeviceStops, Port!LosePacket
      <3>1. UNCHANGED <<Port!state, Port!port, Port!receiver, Port!writer, Port!watch, late>>
        BY <2>11
      <3>2. down' \in Seq(Downwards)
        <4>1. UNCHANGED down \/ (down # <<>> /\ down' = Tail(down))
          BY <2>11
        <4>2. down \in Seq(Downwards)
          BY DEF PortLines
        <4>. QED
          BY <4>1, <4>2
      <3>3. peer' \in {"idle", "synced", "connected"}
        BY <2>11 DEF PortTypes
      <3>4. ASSUME NEW ms \in Seq(Port!Received), Port!Answer(ms)
            PROVE  up' \in Seq(Port!Received)
        BY <3>4 DEF Port!Answer, PortLines
      <3>5. up' \in Seq(Port!Received)
        <4>1. <<"sync", "ack">> \in Seq(Port!Received) /\ <<"disconnect">> \in Seq(Port!Received)
          BY DEF Port!Received
        <4>2. \A m \in {"heartbeat", "respond", "unit"} : <<m>> \in Seq(Port!Received)
          BY DEF Port!Received
        <4>3. \/ \E ms \in Seq(Port!Received) : Port!Answer(ms)
              \/ UNCHANGED up \/ (up # <<>> /\ up' = Tail(up))
          <5>1. CASE Port!DeviceReads
            BY <4>1, <5>1
          <5>2. CASE Port!DeviceSends
            BY <4>2, <5>2
          <5>3. CASE Port!DeviceStops
            BY <4>1, <5>3
          <5>4. CASE Port!LosePacket
            BY <5>4
          <5>. QED
            BY <2>11, <5>1, <5>2, <5>3, <5>4
        <4>. QED
          BY <3>4, <4>3 DEF PortLines
      <3>. QED
        BY <3>1, <3>2, <3>3, <3>5 DEF PortTypes, PortLines, PortPhases, PortTimestamp
    <2>. QED
      BY <2>0, <2>1, <2>2, <2>3, <2>4, <2>5, <2>6, <2>7, <2>8, <2>9, <2>10, <2>11
         DEF Port!Next, Port!OpenStep, Port!CloseStep, Port!Host, Port!Receiver, Port!Faulty
  <1>. QED
    BY <1>1, <1>2, PTL DEF Port!Spec

\* The variables of the serial port keep their types: the queue of its dispatcher has one
\* place, and the handlers of the receive thread are those of onConnected() and the
\* heartbeat.
THEOREM PortTypeCorrect == Port!Spec => []Port!TypeOK
  <1>1. PortInv => Port!TypeOK
    <2> SUFFICES ASSUME PortInv
                 PROVE  Port!TypeOK
      OBVIOUS
    <2>1. todo \in Seq(Port!Sends \cup {"watchdog", "kick"})
      BY HandlersTyped DEF PortInv, PortLines
    <2>2. write_queue \in Seq(Port!Sends \cup {"flush"}) /\ Len(write_queue) <= 1
      <3>1. CASE write_queue = <<>>
        BY <3>1
      <3>2. ASSUME NEW m \in Port!Sends \cup {"flush"}, write_queue = <<m>>
            PROVE  write_queue \in Seq(Port!Sends \cup {"flush"}) /\ Len(write_queue) <= 1
        BY <3>2
      <3>. QED
        BY <3>1, <3>2 DEF PortInv, PortLines
    <2>. QED
      BY <2>1, <2>2 DEF PortInv, PortTypes, PortLines, Downwards, Port!TypeOK, Port!NoItem
  <1>. QED
    BY <1>1, PortInvariant, PTL

\* The lambda that sends the timestamp reads a local of onConnected() through a pointer,
\* in the dispatcher's thread: the local is still there (gemini_serial_port.cc:192-208,
\* 358-363), for any limits of retries, line and faults.
THEOREM PortTimestampAlive == Port!Spec => []TimestampAlive
  <1>1. PortInv => TimestampAlive
    <2> SUFFICES ASSUME PortInv, "timestamp" \in Port!ToSet(write_queue) \cup {writing}
                 PROVE  todo # <<>>
      BY DEF TimestampAlive, Port!TimestampAlive
    <2>1. write_queue = <<"timestamp">> \/ writing = "timestamp"
      BY DEF PortInv, PortLines, Port!ToSet
    <2>. QED
      BY <2>1 DEF PortInv, PortTimestamp, AfterTimestamp, AfterIntrinsics
  <1>. QED
    BY <1>1, PortInvariant, PTL

\* When close() has returned no thread of the port is left, and the watchdog is, only if
\* an ack of the device was handled after close() stopped it
\* (gemini_serial_port.cc:167-182, 353).
THEOREM PortClosedIsQuiet == Port!Spec => []ClosedIsQuiet
  <1>1. PortInv => ClosedIsQuiet
    BY DEF PortInv, PortPhases, PortTypes, ClosedIsQuiet, Port!ClosedIsQuiet, Port!NoItem
  <1>. QED
    BY <1>1, PortInvariant, PTL

----------------------------------------------------------------------------
(* Pipeline *)

\* Where a call of a thread is that has begun to stop or to start.
InCall == {"stop_streams", "stop_reset", "resolve", "open", "context_start"}

Places == InCall \cup {"idle", "stop_lock", "restart", "call"}
Operations == {"", "start", "stop", "restart", "wait"}

PipeThreads ==
    /\ mutex \in PipelineUsers \cup {None}
    /\ thread_pc \in [Pipe!Threads -> Places] /\ op \in [Pipe!Threads -> Operations]

PipeDevices ==
    /\ profile \in [Pipe!Threads -> Pipe!Plugs] /\ cached \in Pipe!Plugs
    /\ active \in Pipe!Plugs /\ plugged \in Pipe!Plugs /\ pluggings \in Pipe!Plugs
    /\ plugged = 0 => pluggings < Pluggings
    /\ sensors \in [Pipe!Plugs -> {"closed", "opened", "streaming"}] /\ sensors[0] # "streaming"

PipeCounts ==
    /\ starts \in 0..Starts /\ registered \in 0..starts /\ left \in 0..registered
    /\ restarts \in Nat

\* mutex_ is held by the threads in a call, but not by those that restart; which call goes
\* through which places; and the device that is opened was found.
PipeMutex ==
    /\ \A t \in Pipe!Threads : thread_pc[t] \in InCall /\ op[t] # "restart" => mutex = t
    /\ mutex # None => thread_pc[mutex] \in InCall /\ op[mutex] # "restart"
    /\ \A t \in Pipe!Threads : op[t] = "stop" => thread_pc[t] \notin {"resolve", "open", "context_start"}
    /\ \A t \in Pipe!Threads : thread_pc[t] = "context_start" => op[t] = "start"
    /\ \A t \in Pipe!Threads : thread_pc[t] = "stop_lock" => op[t] = "stop" /\ t # Watcher
    /\ \A t \in Pipe!Threads : thread_pc[t] = "open" => profile[t] # 0

\* The active device streams, unless a thread is about to reset it.
PipeStreams ==
    active = 0 \/ sensors[active] = "streaming" \/ \E t \in Pipe!Threads : thread_pc[t] = "stop_reset"

\* Without restarts a call has the pipeline to itself: nothing else streams, nothing is
\* active while it starts, and it is no call after stop().
PipeExclusive ==
    Pipe!NoRestart =>
        /\ \A t \in Pipe!Threads : thread_pc[t] # "restart" /\ (thread_pc[t] \in InCall => op[t] # "restart")
        /\ \A p \in Pipe!Plugs : sensors[p] = "streaming" => p = active
        /\ \A t \in Pipe!Threads : thread_pc[t] = "stop_reset" => active = 0 \/ sensors[active] # "streaming"
        /\ \A t \in Pipe!Threads : thread_pc[t] \in {"resolve", "open"} => active = 0
        /\ \A t \in Pipe!Threads : thread_pc[t] \in InCall /\ op[t] # "stop" => ~stopped
        /\ stopped => active = 0

PipeInv == PipeThreads /\ PipeDevices /\ PipeCounts /\ PipeMutex /\ PipeStreams /\ PipeExclusive
LEMMA PipeInvariant == Pipe!Spec => []PipeInv
  <1> USE PipeAssumed DEF Pipe!PipelineAssumption
  <1>1. Pipe!Init => PipeInv
    <2> SUFFICES ASSUME Pipe!Init
                 PROVE  PipeInv
      OBVIOUS
    <2>0. PipeDevices
      <3>1. 0 \in Pipe!Plugs /\ 1 \in Pipe!Plugs
        BY DEF Pipe!Plugs
      <3>2. /\ cached = 0 /\ active = 0 /\ plugged = 1 /\ pluggings = 1
            /\ profile = [t \in Pipe!Threads |-> 0] /\ sensors = [p \in Pipe!Plugs |-> "closed"]
        BY DEF Pipe!Init
      <3>. QED
        BY <3>1, <3>2 DEF PipeDevices
    <2>4. PipeCounts
      <3>1. starts = 0 /\ registered = 0 /\ left = 0 /\ restarts = 0
        BY DEF Pipe!Init
      <3>. QED
        BY <3>1 DEF PipeCounts
    <2>1. PipeThreads
      BY DEF Pipe!Init, PipeThreads, Places, Operations
    <2>2. PipeMutex
      BY DEF Pipe!Init, PipeMutex, InCall, Pipe!Threads
    <2>3. PipeStreams /\ PipeExclusive
      BY DEF Pipe!Init, PipeStreams, PipeExclusive, InCall
    <2>. QED
      BY <2>0, <2>1, <2>2, <2>3, <2>4 DEF PipeInv
  <1>2. PipeInv /\ [Pipe!Next]_(Pipe!vars) => PipeInv'
    <2> SUFFICES ASSUME PipeInv, [Pipe!Next]_(Pipe!vars)
                 PROVE  PipeInv'
      OBVIOUS
    <2> USE DEF PipeInv, Pipe!config, Pipe!members, Pipe!device, Pipe!watcher, Pipe!history,
                Pipe!At, Pipe!Goto, Pipe!Finish, Pipe!Unlock, Pipe!Lock
    <2>a. PipelineUsers \subseteq Pipe!Threads /\ Watcher \in Pipe!Threads /\ None \notin Pipe!Threads
      BY DEF Pipe!Threads
    <2>0. CASE UNCHANGED Pipe!vars
      BY <2>0 DEF Pipe!vars, PipeThreads, PipeDevices, PipeCounts, PipeMutex, PipeStreams,
                  PipeExclusive, Pipe!NoRestart
    <2>1. ASSUME NEW t \in Pipe!Threads, Pipe!StopStreams(t)
          PROVE  PipeInv'
      <3>1. PipeThreads'
        BY <2>1, <2>a DEF Pipe!StopStreams, PipeThreads, Places, InCall, Operations
      <3>2. PipeDevices'
        BY <2>1 DEF Pipe!StopStreams, Pipe!StopAndClose, PipeDevices
      <3>3. PipeCounts'
        BY <2>1 DEF Pipe!StopStreams, PipeCounts
      <3>4. PipeMutex'
        BY <2>1, <2>a DEF Pipe!StopStreams, PipeThreads, PipeMutex, InCall
      <3>5. PipeStreams'
        BY <2>1, <2>a DEF Pipe!StopStreams, PipeThreads, PipeStreams
      <3>6. PipeExclusive'
        <4>1. \A p \in Pipe!Plugs : sensors'[p] = "streaming" => sensors[p] = "streaming"
          BY <2>1 DEF Pipe!StopStreams, Pipe!StopAndClose, PipeDevices
        <4>2. active # 0 => sensors'[active] # "streaming"
          BY <2>1 DEF Pipe!StopStreams, Pipe!StopAndClose, PipeDevices
        <4>. QED
          BY <2>1, <2>a, <4>1, <4>2 DEF Pipe!StopStreams, PipeThreads, PipeExclusive, InCall,
             Pipe!NoRestart
      <3>. QED
        BY <3>1, <3>2, <3>3, <3>4, <3>5, <3>6
    <2>2. ASSUME NEW t \in Pipe!Threads, Pipe!StopReset(t)
          PROVE  PipeInv'
      <3>1. PipeThreads'
        BY <2>2, <2>a DEF Pipe!StopReset, PipeThreads, Places, InCall, Operations
      <3>2. PipeDevices'
        BY <2>2 DEF Pipe!StopReset, PipeDevices, Pipe!Plugs
      <3>3. PipeCounts'
        BY <2>2 DEF Pipe!StopReset, PipeCounts
      <3>4. PipeMutex'
        BY <2>2, <2>a DEF Pipe!StopReset, PipeThreads, PipeMutex, InCall
      <3>5. PipeStreams'
        BY <2>2, <2>a DEF Pipe!StopReset, PipeThreads, PipeDevices, PipeStreams
      <3>6. PipeExclusive'
        BY <2>2, <2>a DEF Pipe!StopReset, PipeThreads, PipeDevices, PipeMutex, PipeExclusive,
           InCall, Pipe!NoRestart
      <3>. QED
        BY <3>1, <3>2, <3>3, <3>4, <3>5, <3>6
    <2>3. ASSUME NEW t \in Pipe!Threads, Pipe!Resolve(t)
          PROVE  PipeInv'
      <3>1. PipeThreads'
        BY <2>3, <2>a DEF Pipe!Resolve, PipeThreads, Places, InCall, Operations
      <3>2. PipeDevices'
        BY <2>3 DEF Pipe!Resolve, PipeDevices
      <3>3. PipeCounts'
        BY <2>3 DEF Pipe!Resolve, PipeCounts
      <3>4. PipeMutex'
        BY <2>3, <2>a DEF Pipe!Resolve, PipeThreads, PipeDevices, PipeMutex, InCall
      <3>5. PipeStreams'
        BY <2>3, <2>a DEF Pipe!Resolve, PipeThreads, PipeDevices, PipeStreams
      <3>6. PipeExclusive'
        BY <2>3, <2>a DEF Pipe!Resolve, PipeThreads, PipeDevices, PipeMutex, PipeExclusive,
           InCall, Pipe!NoRestart
      <3>. QED
        BY <3>1, <3>2, <3>3, <3>4, <3>5, <3>6
    <2>4. ASSUME NEW t \in Pipe!Threads, Pipe!OpenStreams(t)
          PROVE  PipeInv'
      <3>1. PipeThreads'
        BY <2>4, <2>a DEF Pipe!OpenStreams, PipeThreads, Places, InCall, Operations
      <3>2. PipeDevices'
        <4>1. profile[t] \in Pipe!Plugs /\ profile[t] # 0 /\ 0 \in Pipe!Plugs
          BY <2>4 DEF Pipe!OpenStreams, PipeDevices, PipeMutex, Pipe!Plugs
        <4>2. /\ sensors' \in [Pipe!Plugs -> {"closed", "opened", "streaming"}]
              /\ sensors'[0] # "streaming" /\ active' \in Pipe!Plugs
          BY <2>4, <4>1 DEF Pipe!OpenStreams, Pipe!OpenAndStart, PipeDevices
        <4>. QED
          BY <2>4, <4>2 DEF Pipe!OpenStreams, PipeDevices
      <3>3. PipeCounts'
        BY <2>4 DEF Pipe!OpenStreams, PipeCounts
      <3>4. PipeMutex'
        BY <2>4, <2>a DEF Pipe!OpenStreams, PipeThreads, PipeMutex, InCall
      <3>5. PipeStreams'
        BY <2>4, <2>a DEF Pipe!OpenStreams, Pipe!OpenAndStart, PipeThreads, PipeDevices, PipeStreams
      <3>6. PipeExclusive'
        <4> SUFFICES ASSUME Pipe!NoRestart
                     PROVE  PipeExclusive'
          BY <2>4 DEF Pipe!OpenStreams, PipeExclusive, Pipe!NoRestart
        <4>0. mutex = t /\ op[t] # "stop" /\ op[t] # "restart" /\ active = 0 /\ ~stopped
          BY <2>4 DEF Pipe!OpenStreams, PipeMutex, PipeExclusive, InCall
        <4>1. \A v \in Pipe!Threads \ {t} : thread_pc[v] \notin InCall /\ thread_pc'[v] = thread_pc[v]
          BY <2>4, <4>0 DEF Pipe!OpenStreams, PipeThreads, PipeMutex, PipeExclusive
        <4>2. thread_pc'[t] \in {"call", "idle", "context_start"}
          BY <2>4 DEF Pipe!OpenStreams, PipeThreads
        <4>3. \A p \in Pipe!Plugs : sensors'[p] = "streaming" => p = active'
          BY <2>4, <4>0 DEF Pipe!OpenStreams, Pipe!OpenAndStart, PipeDevices, PipeExclusive
        <4>. QED
          BY <2>4, <4>0, <4>1, <4>2, <4>3 DEF Pipe!OpenStreams, PipeExclusive, InCall
      <3>. QED
        BY <3>1, <3>2, <3>3, <3>4, <3>5, <3>6
    <2>5. ASSUME NEW u \in PipelineUsers, NEW c, NEW b, Pipe!Start(u, c, b)
          PROVE  PipeInv'
      <3>1. PipeThreads'
        BY <2>5, <2>a DEF Pipe!Start, PipeThreads, Places, InCall, Operations
      <3>2. PipeDevices'
        BY <2>5 DEF Pipe!Start, PipeDevices
      <3>3. PipeCounts'
        BY <2>5 DEF Pipe!Start, Pipe!RegisterCallback, PipeCounts
      <3>4. PipeMutex'
        BY <2>5, <2>a DEF Pipe!Start, PipeThreads, PipeMutex, InCall
      <3>5. PipeStreams'
        BY <2>5, <2>a DEF Pipe!Start, PipeThreads, PipeDevices, PipeStreams
      <3>6. PipeExclusive'
        BY <2>5, <2>a DEF Pipe!Start, Pipe!RegisterCallback, PipeThreads, PipeCounts, PipeMutex,
                          PipeExclusive, InCall, Pipe!NoRestart
      <3>. QED
        BY <3>1, <3>2, <3>3, <3>4, <3>5, <3>6
    <2>6. ASSUME NEW u \in PipelineUsers, Pipe!ContextStart(u)
          PROVE  PipeInv'
      <3>1. PipeThreads'
        BY <2>6, <2>a DEF Pipe!ContextStart, PipeThreads, Places, InCall, Operations
      <3>2. PipeDevices'
        BY <2>6 DEF Pipe!ContextStart, PipeDevices
      <3>3. PipeCounts'
        BY <2>6 DEF Pipe!ContextStart, PipeCounts
      <3>4. PipeMutex'
        BY <2>6, <2>a DEF Pipe!ContextStart, PipeThreads, PipeMutex, InCall
      <3>5. PipeStreams'
        BY <2>6, <2>a DEF Pipe!ContextStart, PipeThreads, PipeDevices, PipeStreams
      <3>6. PipeExclusive'
        BY <2>6, <2>a DEF Pipe!ContextStart, PipeThreads, PipeDevices, PipeMutex,
           PipeExclusive, InCall, Pipe!NoRestart
      <3>. QED
        BY <3>1, <3>2, <3>3, <3>4, <3>5, <3>6
    <2>7. ASSUME NEW u \in PipelineUsers, NEW force, Pipe!Stop(u, force)
          PROVE  PipeInv'
      <3>1. PipeThreads'
        BY <2>7, <2>a DEF Pipe!Stop, PipeThreads, Places, InCall, Operations
      <3>2. PipeDevices'
        BY <2>7 DEF Pipe!Stop, PipeDevices
      <3>3. PipeCounts'
        BY <2>7 DEF Pipe!Stop, PipeCounts
      <3>4. PipeMutex'
        BY <2>7, <2>a DEF Pipe!Stop, PipeThreads, PipeMutex, InCall
      <3>5. PipeStreams'
        BY <2>7, <2>a DEF Pipe!Stop, PipeThreads, PipeDevices, PipeStreams
      <3>6. PipeExclusive'
        BY <2>7, <2>a DEF Pipe!Stop, PipeThreads, PipeDevices, PipeMutex, PipeExclusive,
           InCall, Pipe!NoRestart
      <3>. QED
        BY <3>1, <3>2, <3>3, <3>4, <3>5, <3>6
    <2>8. ASSUME NEW u \in PipelineUsers, Pipe!StopLock(u)
          PROVE  PipeInv'
      <3>1. PipeThreads'
        BY <2>8, <2>a DEF Pipe!StopLock, PipeThreads, Places, InCall, Operations
      <3>2. PipeDevices'
        BY <2>8 DEF Pipe!StopLock, PipeDevices
      <3>3. PipeCounts'
        BY <2>8 DEF Pipe!StopLock, PipeCounts
      <3>4. PipeMutex'
        BY <2>8, <2>a DEF Pipe!StopLock, PipeThreads, PipeMutex, InCall
      <3>5. PipeStreams'
        BY <2>8, <2>a DEF Pipe!StopLock, PipeThreads, PipeDevices, PipeStreams
      <3>6. PipeExclusive'
        BY <2>8, <2>a DEF Pipe!StopLock, PipeThreads, PipeDevices, PipeMutex, PipeExclusive,
           InCall, Pipe!NoRestart
      <3>. QED
        BY <3>1, <3>2, <3>3, <3>4, <3>5, <3>6
    <2>9. ASSUME NEW u \in PipelineUsers, Pipe!CallRestart(u)
          PROVE  PipeInv'
      <3>1. PipeThreads'
        BY <2>9, <2>a DEF Pipe!CallRestart, PipeThreads, Places, InCall, Operations
      <3>2. PipeDevices'
        BY <2>9 DEF Pipe!CallRestart, PipeDevices
      <3>3. PipeCounts'
        BY <2>9 DEF Pipe!CallRestart, PipeCounts
      <3>4. PipeMutex'
        BY <2>9, <2>a DEF Pipe!CallRestart, PipeThreads, PipeMutex, InCall
      <3>5. PipeStreams'
        BY <2>9, <2>a DEF Pipe!CallRestart, PipeThreads, PipeDevices, PipeStreams
      <3>6. PipeExclusive'
        BY <2>9 DEF Pipe!CallRestart, PipeCounts, PipeExclusive, Pipe!NoRestart
      <3>. QED
        BY <3>1, <3>2, <3>3, <3>4, <3>5, <3>6
    <2>10. ASSUME NEW t \in Pipe!Threads, Pipe!Restart(t)
           PROVE  PipeInv'
      <3>1. PipeThreads'
        BY <2>10, <2>a DEF Pipe!Restart, PipeThreads, Places, InCall, Operations
      <3>2. PipeDevices'
        BY <2>10 DEF Pipe!Restart, PipeDevices
      <3>3. PipeCounts'
        BY <2>10 DEF Pipe!Restart, PipeCounts
      <3>4. PipeMutex'
        BY <2>10, <2>a DEF Pipe!Restart, PipeThreads, PipeMutex, InCall
      <3>5. PipeStreams'
        BY <2>10, <2>a DEF Pipe!Restart, PipeThreads, PipeDevices, PipeStreams
      <3>6. PipeExclusive'
        BY <2>10, <2>a DEF Pipe!Restart, PipeThreads, PipeDevices, PipeMutex, PipeExclusive,
           InCall, Pipe!NoRestart
      <3>. QED
        BY <3>1, <3>2, <3>3, <3>4, <3>5, <3>6
    <2>11. ASSUME NEW u \in PipelineUsers, Pipe!WaitForFrames(u)
           PROVE  PipeInv'
      <3>1. PipeThreads'
        BY <2>11, <2>a DEF Pipe!WaitForFrames, PipeThreads, Places, InCall, Operations
      <3>2. PipeDevices'
        BY <2>11 DEF Pipe!WaitForFrames, PipeDevices
      <3>3. PipeCounts'
        BY <2>11 DEF Pipe!WaitForFrames, PipeCounts
      <3>4. PipeMutex'
        BY <2>11, <2>a DEF Pipe!WaitForFrames, PipeThreads, PipeMutex, InCall
      <3>5. PipeStreams'
        BY <2>11, <2>a DEF Pipe!WaitForFrames, PipeThreads, PipeDevices, PipeStreams
      <3>6. PipeExclusive'
        BY <2>11, <2>a DEF Pipe!WaitForFrames, PipeThreads, PipeDevices, PipeMutex,
           PipeExclusive, InCall, Pipe!NoRestart
      <3>. QED
        BY <3>1, <3>2, <3>3, <3>4, <3>5, <3>6
    <2>12. ASSUME Pipe!Poll
           PROVE  PipeInv'
      <3>1. PipeThreads'
        BY <2>12, <2>a DEF Pipe!Poll, PipeThreads, Places, InCall, Operations
      <3>2. PipeDevices'
        BY <2>12 DEF Pipe!Poll, PipeDevices
      <3>3. PipeCounts'
        BY <2>12 DEF Pipe!Poll, PipeCounts
      <3>4. PipeMutex'
        BY <2>12, <2>a DEF Pipe!Poll, PipeThreads, PipeMutex, InCall
      <3>5. PipeStreams'
        BY <2>12, <2>a DEF Pipe!Poll, PipeThreads, PipeDevices, PipeStreams
      <3>6. PipeExclusive'
        BY <2>12, <2>a DEF Pipe!Poll, PipeThreads, PipeDevices, PipeMutex, PipeExclusive,
           InCall, Pipe!NoRestart
      <3>. QED
        BY <3>1, <3>2, <3>3, <3>4, <3>5, <3>6
    <2>13. ASSUME Pipe!Callback
           PROVE  PipeInv'
      <3>1. PipeThreads'
        BY <2>13, <2>a DEF Pipe!Callback, PipeThreads, Places, InCall, Operations
      <3>2. PipeDevices'
        BY <2>13 DEF Pipe!Callback, PipeDevices
      <3>3. PipeCounts'
        BY <2>13 DEF Pipe!Callback, PipeCounts
      <3>4. PipeMutex'
        BY <2>13, <2>a DEF Pipe!Callback, PipeThreads, PipeMutex, InCall
      <3>5. PipeStreams'
        BY <2>13, <2>a DEF Pipe!Callback, PipeThreads, PipeDevices, PipeStreams
      <3>6. PipeExclusive'
        BY <2>13, <2>a DEF Pipe!Callback, PipeCounts, PipeExclusive, Pipe!NoRestart
      <3>. QED
        BY <3>1, <3>2, <3>3, <3>4, <3>5, <3>6
    <2>14. ASSUME Pipe!Polled
           PROVE  PipeInv'
      <3>1. PipeThreads'
        BY <2>14, <2>a DEF Pipe!Polled, PipeThreads, Places, InCall, Operations
      <3>2. PipeDevices'
        BY <2>14 DEF Pipe!Polled, PipeDevices
      <3>3. PipeCounts'
        BY <2>14 DEF Pipe!Polled, PipeCounts
      <3>4. PipeMutex'
        BY <2>14, <2>a DEF Pipe!Polled, PipeThreads, PipeMutex, InCall
      <3>5. PipeStreams'
        BY <2>14, <2>a DEF Pipe!Polled, PipeThreads, PipeDevices, PipeStreams
      <3>6. PipeExclusive'
        BY <2>14, <2>a DEF Pipe!Polled, PipeThreads, PipeDevices, PipeMutex, PipeExclusive,
           InCall, Pipe!NoRestart
      <3>. QED
        BY <3>1, <3>2, <3>3, <3>4, <3>5, <3>6
    <2>15. ASSUME Pipe!Unplug
           PROVE  PipeInv'
      <3>1. PipeThreads'
        BY <2>15, <2>a DEF Pipe!Unplug, PipeThreads, Places, InCall, Operations
      <3>2. PipeDevices'
        BY <2>15 DEF Pipe!Unplug, PipeDevices, Pipe!Plugs
      <3>3. PipeCounts'
        BY <2>15 DEF Pipe!Unplug, PipeCounts
      <3>4. PipeMutex'
        BY <2>15, <2>a DEF Pipe!Unplug, PipeThreads, PipeMutex, InCall
      <3>5. PipeStreams'
        BY <2>15, <2>a DEF Pipe!Unplug, PipeThreads, PipeDevices, PipeStreams
      <3>6. PipeExclusive'
        BY <2>15, <2>a DEF Pipe!Unplug, PipeThreads, PipeDevices, PipeMutex, PipeExclusive,
           InCall, Pipe!NoRestart
      <3>. QED
        BY <3>1, <3>2, <3>3, <3>4, <3>5, <3>6
    <2>16. ASSUME Pipe!Plug
           PROVE  PipeInv'
      <3>1. PipeThreads'
        BY <2>16, <2>a DEF Pipe!Plug, PipeThreads, Places, InCall, Operations
      <3>2. PipeDevices'
        BY <2>16 DEF Pipe!Plug, PipeDevices, Pipe!Plugs
      <3>3. PipeCounts'
        BY <2>16 DEF Pipe!Plug, PipeCounts
      <3>4. PipeMutex'
        BY <2>16, <2>a DEF Pipe!Plug, PipeThreads, PipeMutex, InCall
      <3>5. PipeStreams'
        BY <2>16, <2>a DEF Pipe!Plug, PipeThreads, PipeDevices, PipeStreams
      <3>6. PipeExclusive'
        BY <2>16, <2>a DEF Pipe!Plug, PipeThreads, PipeDevices, PipeMutex, PipeExclusive,
           InCall, Pipe!NoRestart
      <3>. QED
        BY <3>1, <3>2, <3>3, <3>4, <3>5, <3>6
    <2>17. ASSUME Pipe!Notice
           PROVE  PipeInv'
      <3>1. PipeThreads'
        BY <2>17, <2>a DEF Pipe!Notice, PipeThreads, Places, InCall, Operations
      <3>2. PipeDevices'
        BY <2>17 DEF Pipe!Notice, PipeDevices
      <3>3. PipeCounts'
        BY <2>17 DEF Pipe!Notice, PipeCounts
      <3>4. PipeMutex'
        BY <2>17, <2>a DEF Pipe!Notice, PipeThreads, PipeMutex, InCall
      <3>5. PipeStreams'
        BY <2>17, <2>a DEF Pipe!Notice, PipeThreads, PipeDevices, PipeStreams
      <3>6. PipeExclusive'
        BY <2>17, <2>a DEF Pipe!Notice, PipeThreads, PipeDevices, PipeMutex, PipeExclusive,
           InCall, Pipe!NoRestart
      <3>. QED
        BY <3>1, <3>2, <3>3, <3>4, <3>5, <3>6
    <2>. QED
      BY <2>a, <2>0, <2>1, <2>2, <2>3, <2>4, <2>5, <2>6, <2>7, <2>8, <2>9, <2>10, <2>11, <2>12,
         <2>13, <2>14, <2>15, <2>16, <2>17
         DEF Pipe!Next, Pipe!Continues, Pipe!UserContinues, Pipe!WatcherContinues
  <1>. QED
    BY <1>1, <1>2, PTL DEF Pipe!Spec

\* The variables of the pipeline keep their types, and mutex_ is held by a user in a call.
THEOREM PipeTypeCorrect == Pipe!Spec => []Pipe!TypeOK
  <1>1. PipeInv => Pipe!TypeOK
    <2> SUFFICES ASSUME PipeInv
                 PROVE  Pipe!TypeOK
      OBVIOUS
    <2>1. registered \in 0..Starts /\ left \in 0..registered
      BY PipeAssumed DEF PipeInv, PipeCounts, Pipe!PipelineAssumption
    <2>2. mutex # None => thread_pc[mutex] \notin {"idle", "stop_lock"}
      BY DEF PipeInv, PipeMutex, InCall
    <2>. QED
      BY <2>1, <2>2 DEF PipeInv, PipeThreads, PipeDevices, Pipe!TypeOK
  <1>. QED
    BY <1>1, PipeInvariant, PTL

\* Between calls the active device streams, whatever threw and whatever was restarted
\* without mutex_ by however many threads; nothing else streams, unless there was a restart
\* (pipeline.cc:98-105, 236-288).
THEOREM PipeOnlyActiveStreams == Pipe!Spec => []OnlyActiveStreams
  <1>1. PipeInv => OnlyActiveStreams
    BY DEF PipeInv, PipeDevices, PipeStreams, PipeExclusive, OnlyActiveStreams,
       Pipe!OnlyActiveStreams,
           Pipe!Quiescent, Pipe!At
  <1>. QED
    BY <1>1, PipeInvariant, PTL

\* After stop() returned and before the next start() there is no active profile, even if
\* another thread was reconnecting, unless there was a restart (pipeline.cc:84-105,
\* 139-151).
THEOREM PipeStopStops == Pipe!Spec => []StopStops
  <1>1. PipeInv => StopStops
    BY DEF PipeInv, PipeExclusive, StopStops, Pipe!StopStops
  <1>. QED
    BY <1>1, PipeInvariant, PTL

\* The active profile is replaced under mutex_ and by way of none, and what is let go has
\* stopped to stream.
HandsOver ==
    Pipe!NoRestart /\ active' # active =>
        /\ mutex # None
        /\ active # 0 => active' = 0 /\ sensors[active] # "streaming"

\* Without restarts, whatever start, stop and the waits of other threads do between its
\* steps, no call puts a device in the place of one that is active or forgets one that
\* streams, and none does so beside the owner of mutex_ (pipeline.cc:84-105, 139-156,
\* 236-288).
THEOREM PipeHandsOver == Pipe!Spec => [][HandsOver]_(Pipe!vars)
  <1> USE PipeAssumed DEF Pipe!PipelineAssumption
  <1>1. PipeInv /\ [Pipe!Next]_(Pipe!vars) => [HandsOver]_(Pipe!vars)
    <2> SUFFICES ASSUME PipeThreads, PipeMutex, PipeExclusive, Pipe!Next, Pipe!NoRestart,
                        active' # active
                 PROVE  mutex # None /\ (active # 0 => active' = 0 /\ sensors[active] # "streaming")
      BY DEF PipeInv, HandsOver
    <2>1. ASSUME NEW t \in Pipe!Threads, Pipe!StopReset(t)
          PROVE  mutex # None /\ (active # 0 => active' = 0 /\ sensors[active] # "streaming")
      <3>1. thread_pc[t] = "stop_reset" /\ active' = 0
        BY <2>1 DEF Pipe!StopReset, Pipe!At
      <3>2. mutex = t /\ t # None
        BY <3>1 DEF PipeMutex, PipeExclusive, InCall, Pipe!Threads
      <3>3. active # 0 => sensors[active] # "streaming"
        BY <3>1 DEF PipeExclusive
      <3>. QED
        BY <3>1, <3>2, <3>3
    <2>2. ASSUME NEW t \in Pipe!Threads, Pipe!OpenStreams(t)
          PROVE  mutex # None /\ (active # 0 => active' = 0 /\ sensors[active] # "streaming")
      <3>1. thread_pc[t] = "open"
        BY <2>2 DEF Pipe!OpenStreams, Pipe!At
      <3>2. mutex = t /\ t # None
        BY <3>1 DEF PipeMutex, PipeExclusive, InCall, Pipe!Threads
      <3>3. active = 0
        BY <3>1 DEF PipeExclusive
      <3>. QED
        BY <3>2, <3>3
    \* The other steps leave active_profile_ alone.
    <2>3. ASSUME NEW t \in Pipe!Threads,
                 Pipe!StopStreams(t) \/ Pipe!Resolve(t) \/ Pipe!Restart(t)
          PROVE  active' = active
      BY <2>3 DEF Pipe!StopStreams, Pipe!Resolve, Pipe!Restart, Pipe!members
    <2>4. ASSUME NEW u \in PipelineUsers,
                 \/ \E c \in Pipe!Configurations, b \in Callbacks : Pipe!Start(u, c, b)
                 \/ \E force \in BOOLEAN : Pipe!Stop(u, force)
                 \/ Pipe!CallRestart(u)
          PROVE  active' = active
      BY <2>4 DEF Pipe!Start, Pipe!Stop, Pipe!CallRestart, Pipe!members
    <2>5. ASSUME NEW u \in PipelineUsers,
                 Pipe!ContextStart(u) \/ Pipe!StopLock(u) \/ Pipe!WaitForFrames(u)
          PROVE  active' = active
      BY <2>5 DEF Pipe!ContextStart, Pipe!StopLock, Pipe!WaitForFrames, Pipe!members
    <2>6. ASSUME Pipe!Poll \/ Pipe!Callback \/ Pipe!Polled \/ Pipe!Unplug \/ Pipe!Plug \/ Pipe!Notice
          PROVE  active' = active
      BY <2>6 DEF Pipe!Poll, Pipe!Callback, Pipe!Polled, Pipe!Unplug, Pipe!Plug, Pipe!Notice,
                  Pipe!members
    <2>7. PipelineUsers \subseteq Pipe!Threads /\ Watcher \in Pipe!Threads
      BY DEF Pipe!Threads
    <2>8. \/ \E t \in Pipe!Threads : Pipe!Continues(t) \/ Pipe!Restart(t)
          \/ \E u \in PipelineUsers :
                \/ \E c \in Pipe!Configurations, b \in Callbacks : Pipe!Start(u, c, b)
                \/ \E force \in BOOLEAN : Pipe!Stop(u, force)
                \/ Pipe!CallRestart(u)
          \/ \E u \in PipelineUsers :
                Pipe!ContextStart(u) \/ Pipe!StopLock(u) \/ Pipe!WaitForFrames(u)
          \/ Pipe!Poll \/ Pipe!Callback \/ Pipe!Polled \/ Pipe!Unplug \/ Pipe!Plug \/ Pipe!Notice
      BY <2>7 DEF Pipe!Next, Pipe!UserContinues, Pipe!WatcherContinues
    <2>. QED
      BY <2>1, <2>2, <2>3, <2>4, <2>5, <2>6, <2>8 DEF Pipe!Continues
  <1>. QED
    BY <1>1, PipeInvariant, PTL DEF Pipe!Spec

----------------------------------------------------------------------------
(* StreamRead *)

\* What the device sends and the endpoint holds: consecutive bytes of one frame.
FrameIn(s) == s[1][1]
Start(s) == s[1][2]
End(s) == Start(s) + Len(s) - 1
Chunks ==
    {s \in Seq(Read!Bytes) :
        /\ s # <<>> /\ FrameIn(s) \in 0..2 /\ Start(s) \in 1..FrameLen /\ End(s) <= FrameLen
        /\ \A i \in 1..Len(s) : s[i] = <<FrameIn(s), Start(s) + i - 1>>}

\* A chunk that does not end its frame is followed by the rest of the frame.
Follows(s, f, place) == FrameIn(s) = f /\ Start(s) = place
Chained(q) ==
    \A i \in 1..Len(q) :
        End(q[i]) = FrameLen \/ (i < Len(q) /\ Follows(q[i + 1], FrameIn(q[i]), End(q[i]) + 1))

ReadTypes ==
    /\ read_pc \in {"idle", "head", "check_size", "check_magic", "rest_size", "rest", "terminated"}
    /\ transferred \in 0..FrameLen /\ offset \in 0..FrameLen /\ read_size \in 0..Wrap - 1
    /\ last \in Read!Status /\ frame \in 0..2

ReadBuffer == buffer \in [1..FrameLen -> Read!Bytes] /\ ~overrun
ReadEndpoint == endpoint \in Seq(Chunks) /\ Chained(endpoint)

\* The buffer begins with n bytes of frame f from place a on, and what follows them in the
\* frame is the next on the endpoint.
Holds(f, a, n) ==
    /\ \A i \in 1..n : buffer[i] = <<f, a + i - 1>>
    /\ a + n = FrameLen + 1 \/ (endpoint # <<>> /\ Follows(endpoint[1], f, a + n))

HeadHeld ==
    /\ transferred \in 1..FirstMax
    /\ \E f \in 0..2, a \in 1..FrameLen : a + transferred - 1 <= FrameLen /\ Holds(f, a, transferred)

\* A call that goes on after a reset finds the endpoint empty to its end.
ReadPhases ==
    /\ read_pc = "check_size" => HeadHeld
    /\ read_pc = "check_magic" => endpoint = <<>> \/ (HeadHeld /\ transferred >= HeadSize)
    /\ read_pc = "rest_size" =>
        endpoint = <<>> \/ (HeadHeld /\ transferred >= HeadSize /\ buffer[1][2] = 1)
    /\ read_pc = "rest" =>
        \/ endpoint = <<>>
        \/ /\ offset \in 1..FrameLen - 1 /\ read_size = FrameLen - offset
           /\ \E f \in 0..2 : Holds(f, 1, offset)
    /\ read_pc = "idle" /\ last = "SUCCESS" => Read!Whole

ReadInv ==
    /\ ReadTypes /\ read_faults \in 0..ReadFaults /\ ReadBuffer /\ ReadEndpoint /\ ReadPhases

LEMMA WholeFrame ==
    ASSUME NEW f \in 0..2
    PROVE  /\ Read!FrameOf(f) \in Chunks /\ Len(Read!FrameOf(f)) = FrameLen
           /\ FrameIn(Read!FrameOf(f)) = f /\ Start(Read!FrameOf(f)) = 1
           /\ End(Read!FrameOf(f)) = FrameLen
  <1> USE ReadAssumed DEF Read!StreamReadAssumption
  <1> DEFINE s == Read!FrameOf(f)
  <1>1. s \in Seq(Read!Bytes) /\ Len(s) = FrameLen
    BY DEF Read!FrameOf, Read!Bytes
  <1>2. \A i \in 1..FrameLen : s[i] = <<f, i>>
    BY DEF Read!FrameOf
  <1>3. s[1] = <<f, 1>>
    BY <1>2
  <1>4. FrameIn(s) = f /\ Start(s) = 1 /\ End(s) = FrameLen
    BY <1>1, <1>3 DEF FrameIn, Start, End
  <1>5. s # <<>>
    BY <1>1
  <1>6. \A i \in 1..Len(s) : s[i] = <<FrameIn(s), Start(s) + i - 1>>
    BY <1>1, <1>2, <1>4
  <1>. QED
    BY <1>1, <1>4, <1>5, <1>6 DEF Chunks

LEMMA NotEmpty == ASSUME NEW s, Len(s) >= 1 PROVE s # <<>>
  <1>1. Len(<<>>) = 0
    OBVIOUS
  <1>2. s = <<>> => Len(s) = Len(<<>>)
    OBVIOUS
  <1>. QED
    BY <1>1, <1>2

LEMMA SubChunk ==
    ASSUME NEW s \in Chunks, NEW m \in 1..Len(s), NEW n \in m..Len(s)
    PROVE  /\ SubSeq(s, m, n) \in Chunks /\ Len(SubSeq(s, m, n)) = n - m + 1
           /\ FrameIn(SubSeq(s, m, n)) = FrameIn(s) /\ Start(SubSeq(s, m, n)) = Start(s) + m - 1
           /\ End(SubSeq(s, m, n)) = Start(s) + n - 1
           /\ \A i \in 1..n - m + 1 : SubSeq(s, m, n)[i] = <<FrameIn(s), Start(s) + m - 1 + i - 1>>
  <1> DEFINE t == SubSeq(s, m, n)
  <1>0. /\ s \in Seq(Read!Bytes) /\ Len(s) \in Nat /\ m \in Nat /\ n \in Nat /\ m <= n /\ n <= Len(s)
        /\ \A i \in 1..Len(s) : s[i] = <<FrameIn(s), Start(s) + i - 1>>
        /\ FrameIn(s) \in 0..2 /\ Start(s) \in 1..FrameLen /\ End(s) <= FrameLen
    BY DEF Chunks
  <1>1. \A i \in m..n : s[i] \in Read!Bytes
    BY <1>0
  <1>2. /\ t \in Seq(Read!Bytes) /\ Len(t) = n - m + 1
        /\ \A i \in 1..n - m + 1 : t[i] = s[m + i - 1]
    BY <1>0, <1>1, SubSeqProperties
  <1>3. \A i \in 1..n - m + 1 : t[i] = <<FrameIn(s), Start(s) + m - 1 + i - 1>>
    <2> SUFFICES ASSUME NEW i \in 1..n - m + 1
                 PROVE  t[i] = <<FrameIn(s), Start(s) + m - 1 + i - 1>>
      OBVIOUS
    <2>1. m + i - 1 \in 1..Len(s) /\ Start(s) \in Int /\ i \in Int
      BY <1>0
    <2>2. s[m + i - 1] = <<FrameIn(s), Start(s) + (m + i - 1) - 1>>
      BY <1>0, <2>1
    <2>3. Start(s) + (m + i - 1) - 1 = Start(s) + m - 1 + i - 1
      BY <1>0, <2>1
    <2>4. t[i] = s[m + i - 1]
      BY <1>2
    <2>. QED
      BY <2>2, <2>3, <2>4
  <1>4. t[1] = <<FrameIn(s), Start(s) + m - 1>>
    BY <1>0, <1>3
  <1>5. FrameIn(t) = FrameIn(s) /\ Start(t) = Start(s) + m - 1
    BY <1>4 DEF FrameIn, Start
  <1>6. End(t) = Start(s) + n - 1 /\ End(t) <= FrameLen /\ Start(t) \in 1..FrameLen
    BY <1>0, <1>2, <1>5, ReadAssumed DEF End, Read!StreamReadAssumption
  <1>7. t # <<>>
    <2>1. Len(t) >= 1
      BY <1>0, <1>2
    <2>. QED
      BY <2>1, NotEmpty
  <1>8. \A i \in 1..Len(t) : t[i] = <<FrameIn(t), Start(t) + i - 1>>
    BY <1>2, <1>3, <1>5
  <1>9. t \in Chunks
    BY <1>0, <1>2, <1>5, <1>6, <1>7, <1>8 DEF Chunks
  <1>. QED
    BY <1>2, <1>3, <1>5, <1>6, <1>9

\* Bytes are read from the first chunk: the rest of it, or the next chunk, comes first now.
LEMMA ChunkRead ==
    ASSUME ReadEndpoint, endpoint # <<>>, NEW k \in 1..Len(Head(endpoint)), NEW q,
           q = LET remains == SubSeq(Head(endpoint), k + 1, Len(Head(endpoint))) IN
               IF remains = <<>> THEN Tail(endpoint) ELSE <<remains>> \o Tail(endpoint)
    PROVE  /\ q \in Seq(Chunks) /\ Chained(q)
           /\ LET f == FrameIn(Head(endpoint))
                  place == Start(Head(endpoint)) + k
              IN  place = FrameLen + 1 \/ (q # <<>> /\ Follows(q[1], f, place))
  <1> DEFINE h == Head(endpoint)
             remains == SubSeq(h, k + 1, Len(h))
             t == Tail(endpoint)
  <1>1. /\ h = endpoint[1] /\ h \in Chunks /\ Len(endpoint) \in Nat /\ Len(endpoint) >= 1
        /\ t \in Seq(Chunks) /\ Len(t) = Len(endpoint) - 1
        /\ \A i \in 1..Len(t) : t[i] = endpoint[i + 1]
    BY HeadTailProperties DEF ReadEndpoint
  <1>2. /\ Len(h) \in Nat /\ Start(h) \in Nat /\ End(h) = Start(h) + Len(h) - 1 /\ k \in Nat /\ k <= Len(h)
        /\ FrameLen \in Nat
    BY <1>1, ReadAssumed DEF Chunks, End, Read!StreamReadAssumption
  <1>3. Chained(t)
    <2> SUFFICES ASSUME NEW i \in 1..Len(t)
                 PROVE  \/ End(t[i]) = FrameLen
                        \/ i < Len(t) /\ Follows(t[i + 1], FrameIn(t[i]), End(t[i]) + 1)
      BY DEF Chained
    <2>1. i + 1 \in 1..Len(endpoint) /\ t[i] = endpoint[i + 1]
      BY <1>1
    <2>2. \/ End(endpoint[i + 1]) = FrameLen
          \/ i + 1 < Len(endpoint)
             /\ Follows(endpoint[i + 1 + 1], FrameIn(endpoint[i + 1]), End(endpoint[i + 1]) + 1)
      BY <2>1 DEF ReadEndpoint, Chained
    <2>3. i + 1 < Len(endpoint) => i < Len(t) /\ t[i + 1] = endpoint[i + 1 + 1]
      BY <1>1
    <2>. QED
      BY <2>1, <2>2, <2>3
  <1>4. End(h) = FrameLen \/ (t # <<>> /\ Follows(t[1], FrameIn(h), End(h) + 1))
    <2>1. \/ End(endpoint[1]) = FrameLen
          \/ 1 < Len(endpoint) /\ Follows(endpoint[1 + 1], FrameIn(endpoint[1]), End(endpoint[1]) + 1)
      BY <1>1 DEF ReadEndpoint, Chained
    <2>2. 1 < Len(endpoint) => Len(t) >= 1 /\ t[1] = endpoint[1 + 1]
      BY <1>1
    <2>3. Len(t) >= 1 => t # <<>>
      BY NotEmpty
    <2>. QED
      BY <1>1, <2>1, <2>2, <2>3
  <1>5. CASE k = Len(h)
    <2>1. remains = <<>>
      BY <1>2, <1>5, SubSeqEmpty
    <2>2. q = t
      BY <2>1
    <2> HIDE DEF h, t
    <2>3. End(h) + 1 = Start(h) + k /\ (End(h) = FrameLen => Start(h) + k = FrameLen + 1)
      BY <1>2, <1>5
    <2>4. Start(h) + k = FrameLen + 1 \/ (q # <<>> /\ Follows(q[1], FrameIn(h), Start(h) + k))
      BY <1>4, <2>2, <2>3
    <2>5. q \in Seq(Chunks) /\ Chained(q)
      BY <1>1, <1>3, <2>2
    <2>. QED
      BY <2>4, <2>5 DEF h
  <1>6. CASE k < Len(h)
    <2>1. k + 1 \in 1..Len(h) /\ Len(h) \in (k + 1)..Len(h)
      BY <1>2, <1>6
    <2>2. /\ remains \in Chunks /\ FrameIn(remains) = FrameIn(h) /\ Start(remains) = Start(h) + (k + 1) - 1
          /\ End(remains) = Start(h) + Len(h) - 1
      BY <1>1, <2>1, SubChunk
    <2>3. remains # <<>>
      BY <2>2 DEF Chunks
    <2> DEFINE one == <<remains>>
    <2>4. q = one \o t
      BY <2>3
    <2>5. one \in Seq(Chunks) /\ Len(one) = 1 /\ one[1] = remains
      BY <2>2
    <2> HIDE DEF remains, t, h, one
    <2>6. /\ q \in Seq(Chunks) /\ Len(q) = 1 + Len(t)
          /\ \A i \in 1..1 + Len(t) : q[i] = IF i <= 1 THEN remains ELSE t[i - 1]
      <3>0. t \in Seq(Chunks) /\ Len(t) \in Nat
        BY <1>1
      <3>1. /\ one \o t \in Seq(Chunks) /\ Len(one \o t) = Len(one) + Len(t)
            /\ \A i \in 1..Len(one) + Len(t) :
                 (one \o t)[i] = IF i <= Len(one) THEN one[i] ELSE t[i - Len(one)]
        BY <2>5, <3>0, ConcatProperties
      <3>2. \A i \in 1..1 + Len(t) : i <= 1 => i = 1
        BY <3>0
      <3>3. ASSUME NEW i \in 1..1 + Len(t)
            PROVE  (one \o t)[i] = IF i <= 1 THEN remains ELSE t[i - 1]
        <4>1. i \in 1..Len(one) + Len(t)
          BY <2>5
        <4>2. (one \o t)[i] = IF i <= Len(one) THEN one[i] ELSE t[i - Len(one)]
          BY <3>1, <4>1
        <4>. QED
          BY <2>5, <3>2, <4>2
      <3>4. one \o t \in Seq(Chunks) /\ Len(one \o t) = 1 + Len(t)
        BY <2>5, <3>1
      <3>. QED
        BY <2>4, <3>3, <3>4, Zenon
    <2>7. q[1] = remains /\ q # <<>> /\ \A i \in 2..1 + Len(t) : q[i] = t[i - 1]
      <3>0. Len(t) \in Nat
        BY <1>1
      <3>1. q # <<>>
        <4>1. Len(q) >= 1
          BY <2>6, <3>0
        <4>. QED
          BY <4>1, NotEmpty
      <3>2. 1 \in 1..1 + Len(t) /\ 1 <= 1
        BY <3>0
      <3>3. q[1] = remains
        BY <2>6, <3>2
      <3>4. \A i \in 2..1 + Len(t) : q[i] = t[i - 1]
        BY <2>6, <3>0
      <3>. QED
        BY <3>1, <3>3, <3>4
    <2>8. Chained(q)
      <3> SUFFICES ASSUME NEW i \in 1..Len(q)
                   PROVE  \/ End(q[i]) = FrameLen
                          \/ i < Len(q) /\ Follows(q[i + 1], FrameIn(q[i]), End(q[i]) + 1)
        BY DEF Chained
      <3>1. CASE i = 1
        <4>1. End(remains) = FrameLen \/ (t # <<>> /\ Follows(t[1], FrameIn(remains), End(remains) + 1))
          BY <1>2, <1>4, <2>2
        <4>2. t # <<>> => Len(t) >= 1
          BY <1>1
        <4>3. t # <<>> => 1 < Len(q) /\ q[1 + 1] = t[1]
          <5>1. t # <<>> => 1 < Len(q) /\ 2 \in 2..1 + Len(t)
            BY <1>1, <2>6, <4>2
          <5>. QED
            BY <2>7, <5>1
        <4>. QED
          BY <2>7, <3>1, <4>1, <4>3
      <3>2. CASE i > 1
        <4>1. i - 1 \in 1..Len(t) /\ q[i] = t[i - 1]
          <5>1. Len(t) \in Nat /\ Len(q) = 1 + Len(t)
            BY <1>1, <2>6
          <5>2. i \in 2..1 + Len(t) /\ i - 1 \in 1..Len(t)
            BY <3>2, <5>1
          <5>. QED
            BY <2>7, <5>2
        <4>2. \/ End(t[i - 1]) = FrameLen
              \/ i - 1 < Len(t) /\ Follows(t[i - 1 + 1], FrameIn(t[i - 1]), End(t[i - 1]) + 1)
          BY <1>3, <4>1 DEF Chained
        <4>3. i - 1 < Len(t) => i < Len(q) /\ q[i + 1] = t[i - 1 + 1]
          <5>1. Len(t) \in Nat /\ Len(q) = 1 + Len(t)
            BY <1>1, <2>6
          <5>2. i - 1 < Len(t) =>
                  i < Len(q) /\ i + 1 \in 2..1 + Len(t) /\ i + 1 - 1 = i - 1 + 1
            BY <3>2, <5>1
          <5>3. ASSUME NEW j, j = i + 1, j \in 2..1 + Len(t)
                PROVE  q[j] = t[j - 1]
            BY <2>7, <5>3
          <5>4. i - 1 < Len(t) => q[i + 1] = t[i - 1 + 1]
            <6>1. PICK j : j = i + 1
              OBVIOUS
            <6>2. j \in 2..1 + Len(t) => q[j] = t[j - 1]
              BY <5>3, <6>1
            <6>3. i - 1 < Len(t) => j \in 2..1 + Len(t) /\ j - 1 = i - 1 + 1
              BY <5>2, <6>1
            <6>4. i - 1 < Len(t) => q[j] = t[i - 1 + 1]
              BY <6>2, <6>3, Zenon
            <6>. QED
              BY <6>1, <6>4, Zenon
          <5>. QED
            BY <5>2, <5>4, Zenon
        <4>. QED
          BY <4>1, <4>2, <4>3
      <3>3. i = 1 \/ i > 1
        BY <1>1, <2>6
      <3>. QED
        BY <3>1, <3>2, <3>3
    <2>9. Follows(q[1], FrameIn(h), Start(h) + k)
      <3>1. Start(remains) = Start(h) + k
        BY <1>2, <2>2
      <3>. QED
        BY <2>2, <2>7, <3>1 DEF Follows
    <2>. QED
      BY <2>6, <2>7, <2>8, <2>9 DEF h
  <1>7. k = Len(h) \/ k < Len(h)
    BY <1>2
  <1>. QED
    BY <1>5, <1>6, <1>7

\* A frame is sent, whole or in two chunks.
LEMMA ChunkSent ==
    ASSUME NEW q \in Seq(Chunks), Chained(q), NEW s \in Chunks, End(s) = FrameLen
    PROVE  Append(q, s) \in Seq(Chunks) /\ Chained(Append(q, s))
  <1> DEFINE r == Append(q, s)
  <1>1. /\ r \in Seq(Chunks) /\ Len(r) = Len(q) + 1 /\ r[Len(q) + 1] = s /\ Len(q) \in Nat
        /\ \A i \in 1..Len(q) : r[i] = q[i]
    BY AppendProperties
  <1> HIDE DEF r
  <1>2. ASSUME NEW i \in 1..Len(r)
        PROVE  End(r[i]) = FrameLen \/ (i < Len(r) /\ Follows(r[i + 1], FrameIn(r[i]), End(r[i]) + 1))
    <2>1. CASE i = Len(q) + 1
      BY <1>1, <2>1
    <2>2. CASE i \in 1..Len(q)
      <3>1. End(q[i]) = FrameLen \/ (i < Len(q) /\ Follows(q[i + 1], FrameIn(q[i]), End(q[i]) + 1))
        BY <2>2 DEF Chained
      <3>2. i < Len(q) => i + 1 \in 1..Len(q) /\ i < Len(r)
        BY <1>1, <2>2
      <3>. QED
        BY <1>1, <2>2, <3>1, <3>2
    <2>. QED
      BY <1>1, <2>1, <2>2
  <1>. QED
    BY <1>1, <1>2 DEF Chained, r

LEMMA ChunksSent ==
    ASSUME NEW q \in Seq(Chunks), Chained(q), NEW s \in Chunks, NEW t \in Chunks,
           Follows(t, FrameIn(s), End(s) + 1), End(t) = FrameLen
    PROVE  q \o <<s, t>> \in Seq(Chunks) /\ Chained(q \o <<s, t>>)
  <1> DEFINE r == q \o <<s, t>>
  <1>0. <<s, t>> \in Seq(Chunks) /\ Len(<<s, t>>) = 2 /\ <<s, t>>[1] = s /\ <<s, t>>[2] = t
    OBVIOUS
  <1>1. /\ r \in Seq(Chunks) /\ Len(r) = Len(q) + 2 /\ Len(q) \in Nat
        /\ \A i \in 1..Len(q) + 2 : r[i] = IF i <= Len(q) THEN q[i] ELSE <<s, t>>[i - Len(q)]
    BY <1>0, ConcatProperties
  <1> HIDE DEF r
  <1>2. r[Len(q) + 1] = s /\ r[Len(q) + 2] = t /\ \A i \in 1..Len(q) : r[i] = q[i]
    <2>1. r[Len(q) + 1] = <<s, t>>[1] /\ r[Len(q) + 2] = <<s, t>>[2]
      BY <1>1
    <2>. QED
      BY <1>0, <1>1, <2>1
  <1>3. ASSUME NEW i \in 1..Len(r)
        PROVE  End(r[i]) = FrameLen \/ (i < Len(r) /\ Follows(r[i + 1], FrameIn(r[i]), End(r[i]) + 1))
    <2>1. CASE i = Len(q) + 2
      BY <1>2, <2>1
    <2>2. CASE i = Len(q) + 1
      <3>1. i < Len(r) /\ r[i + 1] = t /\ r[i] = s
        BY <1>1, <1>2, <2>2
      <3>. QED
        BY <3>1
    <2>3. CASE i \in 1..Len(q)
      <3>1. End(q[i]) = FrameLen \/ (i < Len(q) /\ Follows(q[i + 1], FrameIn(q[i]), End(q[i]) + 1))
        BY <2>3 DEF Chained
      <3>2. i < Len(q) => i + 1 \in 1..Len(q) /\ i < Len(r)
        BY <1>1, <2>3
      <3>. QED
        BY <1>2, <2>3, <3>1, <3>2
    <2>. QED
      BY <1>1, <2>1, <2>2, <2>3
  <1>. QED
    BY <1>1, <1>3 DEF Chained, r

\* A read of count bytes into the buffer from place at on, which has room for them.
LEMMA BulkReads ==
    ASSUME ReadInv, endpoint # <<>>, NEW at0 \in 0..FrameLen, NEW count \in Nat \ {0},
           at0 + (IF count < Len(Head(endpoint)) THEN count ELSE Len(Head(endpoint))) <= FrameLen,
           Read!BulkIn(at0, count)
    PROVE  /\ ReadBuffer' /\ ReadEndpoint'
           /\ LET h == Head(endpoint)
                  n == IF count < Len(h) THEN count ELSE Len(h)
              IN  /\ h \in Chunks /\ Len(h) \in Nat \ {0} /\ n \in 1..Len(h) /\ n <= count
                  /\ Len(Read!Taken(count)) = n
                  /\ \A i \in 1..n : buffer'[at0 + i] = <<FrameIn(h), Start(h) + i - 1>>
                  /\ \A i \in 1..at0 : buffer'[i] = buffer[i]
                  /\ \/ Start(h) + n = FrameLen + 1
                     \/ endpoint' # <<>> /\ Follows(endpoint'[1], FrameIn(h), Start(h) + n)
  <1> USE ReadAssumed DEF Read!StreamReadAssumption
  <1> DEFINE h == Head(endpoint)
             n == IF count < Len(h) THEN count ELSE Len(h)
             bytes == Read!Taken(count)
             remains == SubSeq(h, Len(bytes) + 1, Len(h))
  <1>1. h \in Chunks
    BY HeadTailProperties DEF ReadInv, ReadEndpoint
  <1>2. Len(h) \in Nat \ {0}
    BY <1>1 DEF Chunks
  <1>3. n \in 1..Len(h) /\ n <= count /\ n \in Nat
    BY <1>2
  <1>4. bytes = SubSeq(h, 1, n)
    BY DEF Read!Taken
  <1>5. 1 \in 1..Len(h) /\ n \in 1..Len(h)
    BY <1>2, <1>3
  <1>12. at0 + n <= FrameLen
    OBVIOUS
  <1> HIDE DEF n, h
  <1>6. bytes \in Chunks /\ Len(bytes) = n
        /\ \A i \in 1..n : bytes[i] = <<FrameIn(h), Start(h) + i - 1>>
    <2>1. LET b == SubSeq(h, 1, n) IN
             /\ b \in Chunks /\ Len(b) = n - 1 + 1
             /\ \A i \in 1..n - 1 + 1 : b[i] = <<FrameIn(h), Start(h) + 1 - 1 + i - 1>>
      BY <1>1, <1>5, SubChunk
    <2>2. Start(h) \in Nat
      BY <1>1 DEF Chunks
    <2>3. n - 1 + 1 = n /\ \A i \in 1..n : Start(h) + 1 - 1 + i - 1 = Start(h) + i - 1
      BY <1>3, <2>2
    <2> HIDE DEF bytes
    <2>4. bytes \in Chunks /\ Len(bytes) = n
      BY <1>4, <2>1, <2>3
    <2>5. \A i \in 1..n : bytes[i] = <<FrameIn(h), Start(h) + 1 - 1 + i - 1>>
      BY <1>4, <2>1, <2>3
    <2>. QED
      BY <2>3, <2>4, <2>5
  <1>7. /\ endpoint' = IF remains = <<>> THEN Tail(endpoint) ELSE <<remains>> \o Tail(endpoint)
        /\ buffer' = [i \in 1..FrameLen |->
                         IF i - at0 \in 1..Len(bytes) THEN bytes[i - at0] ELSE buffer[i]]
        /\ overrun' = (overrun \/ (at0 + Len(bytes) > FrameLen))
    BY DEF Read!BulkIn, h
  <1> HIDE DEF bytes
  <1>8. /\ endpoint' \in Seq(Chunks) /\ Chained(endpoint')
        /\ Start(h) + n = FrameLen + 1 \/ (endpoint' # <<>> /\ Follows(endpoint'[1], FrameIn(h), Start(h) + n))
    <2>1. endpoint' = LET rest == SubSeq(Head(endpoint), n + 1, Len(Head(endpoint))) IN
                      IF rest = <<>> THEN Tail(endpoint) ELSE <<rest>> \o Tail(endpoint)
      BY <1>6, <1>7 DEF h
    <2>2. n \in 1..Len(Head(endpoint)) /\ ReadEndpoint
      BY <1>3 DEF ReadInv, h
    <2>. QED
      BY <2>1, <2>2, ChunkRead DEF h
  <1>9. ReadBuffer'
    <2>1. \A i \in 1..n : bytes[i] \in Read!Bytes
      BY <1>6 DEF Chunks
    <2>2. buffer' \in [1..FrameLen -> Read!Bytes]
      BY <1>6, <1>7, <2>1 DEF ReadInv, ReadBuffer
    <2>3. ~(at0 + Len(bytes) > FrameLen)
      BY <1>3, <1>6, <1>12
    <2>4. ~overrun'
      BY <1>7, <2>3, Zenon DEF ReadInv, ReadBuffer
    <2>. QED
      BY <2>2, <2>4 DEF ReadBuffer
  <1>10. \A i \in 1..n : buffer'[at0 + i] = <<FrameIn(h), Start(h) + i - 1>>
    <2> SUFFICES ASSUME NEW i \in 1..n
                 PROVE  buffer'[at0 + i] = <<FrameIn(h), Start(h) + i - 1>>
      OBVIOUS
    <2>1. at0 + i \in 1..FrameLen /\ at0 + i - at0 = i /\ i \in 1..Len(bytes)
      BY <1>3, <1>6, <1>12
    <2>2. buffer'[at0 + i] = bytes[at0 + i - at0]
      BY <1>7, <2>1
    <2>. QED
      BY <1>6, <2>1, <2>2
  <1>11. \A i \in 1..at0 : buffer'[i] = buffer[i]
    <2> SUFFICES ASSUME NEW i \in 1..at0
                 PROVE  buffer'[i] = buffer[i]
      OBVIOUS
    <2>1. i \in 1..FrameLen /\ ~(i - at0 \in 1..Len(bytes))
      BY <1>3, <1>6, <1>12
    <2>. QED
      BY <1>7, <2>1
  <1>. QED
    BY <1>1, <1>2, <1>3, <1>6, <1>8, <1>9, <1>10, <1>11 DEF ReadEndpoint, bytes, n, h

LEMMA ReadInvariant == Read!Spec => []ReadInv
  <1> USE ReadAssumed DEF Read!StreamReadAssumption
  <1>1. Read!Init => ReadInv
    <2> SUFFICES ASSUME Read!Init
                 PROVE  ReadInv
      OBVIOUS
    <2>1. ReadTypes /\ read_faults \in 0..ReadFaults
      BY DEF Read!Init, ReadTypes, Read!Status
    <2>2. ReadBuffer
      BY DEF Read!Init, ReadBuffer, Read!Bytes
    <2>3. ReadEndpoint
      BY DEF Read!Init, ReadEndpoint, Chained
    <2>4. ReadPhases
      BY DEF Read!Init, ReadPhases
    <2>. QED
      BY <2>1, <2>2, <2>3, <2>4 DEF ReadInv
  <1>2. ReadInv /\ [Read!Next]_(Read!vars) => ReadInv'
    <2> SUFFICES ASSUME ReadInv, [Read!Next]_(Read!vars)
                 PROVE  ReadInv'
      OBVIOUS
    <2> USE DEF ReadInv, Read!local, Read!device
    <2>a. ASSUME Read!Fault PROVE read_faults' \in 0..ReadFaults
      BY <2>a DEF Read!Fault
    <2>b. ASSUME UNCHANGED <<buffer, overrun>> PROVE ReadBuffer'
      BY <2>b DEF ReadBuffer
    <2>c. ASSUME UNCHANGED endpoint PROVE ReadEndpoint'
      BY <2>c DEF ReadEndpoint
    <2>d. ASSUME UNCHANGED <<endpoint, buffer>>
          PROVE  /\ \A f, a, n : Holds(f, a, n)' <=> Holds(f, a, n)
                 /\ transferred' = transferred => (HeadHeld' <=> HeadHeld)
      BY <2>d DEF Holds, HeadHeld
    <2>0. CASE UNCHANGED Read!vars
      BY <2>0, <2>b, <2>c, <2>d DEF Read!vars, ReadTypes, ReadPhases, Read!Whole
    <2>1. CASE Read!GetFrame
      <3>1. ReadTypes'
        BY <2>1 DEF Read!GetFrame, ReadTypes
      <3>2. read_faults' \in 0..ReadFaults
        BY <2>1, <2>a DEF Read!GetFrame, Read!Sends
      <3>3. ReadEndpoint'
        <4>0. frame' \in 0..2
          BY <3>1 DEF ReadTypes
        <4> DEFINE s == Read!FrameOf(frame')
        <4>1. s \in Chunks /\ Len(s) = FrameLen /\ FrameIn(s) = frame' /\ Start(s) = 1 /\ End(s) = FrameLen
          BY <4>0, WholeFrame
        <4>2. \/ UNCHANGED endpoint \/ endpoint' = Append(endpoint, s)
              \/ \E k \in 1..FrameLen - 1 :
                    endpoint' = endpoint \o <<SubSeq(s, 1, k), SubSeq(s, k + 1, FrameLen)>>
          BY <2>1 DEF Read!GetFrame, Read!Sends
        <4> HIDE DEF s
        <4>3. CASE endpoint' = Append(endpoint, s)
          BY <4>1, <4>3, ChunkSent DEF ReadEndpoint
        <4>4. ASSUME NEW k \in 1..FrameLen - 1,
                     endpoint' = endpoint \o <<SubSeq(s, 1, k), SubSeq(s, k + 1, FrameLen)>>
              PROVE  ReadEndpoint'
          <5>1. 1 \in 1..Len(s) /\ k \in 1..Len(s) /\ k + 1 \in 1..Len(s) /\ FrameLen \in (k + 1)..Len(s)
            BY <4>1
          <5>2. /\ SubSeq(s, 1, k) \in Chunks /\ FrameIn(SubSeq(s, 1, k)) = FrameIn(s)
                /\ End(SubSeq(s, 1, k)) = Start(s) + k - 1
            BY <4>1, <5>1, SubChunk
          <5>3. /\ SubSeq(s, k + 1, FrameLen) \in Chunks /\ FrameIn(SubSeq(s, k + 1, FrameLen)) = FrameIn(s)
                /\ Start(SubSeq(s, k + 1, FrameLen)) = Start(s) + (k + 1) - 1
                /\ End(SubSeq(s, k + 1, FrameLen)) = Start(s) + FrameLen - 1
            BY <4>1, <5>1, SubChunk
          <5>4. Follows(SubSeq(s, k + 1, FrameLen), FrameIn(SubSeq(s, 1, k)), End(SubSeq(s, 1, k)) + 1)
            BY <4>1, <5>2, <5>3 DEF Follows
          <5>5. End(SubSeq(s, k + 1, FrameLen)) = FrameLen
            BY <4>1, <5>3
          <5>. QED
            BY <4>4, <5>2, <5>3, <5>4, <5>5, ChunksSent DEF ReadEndpoint
        <4>. QED
          BY <2>c, <4>2, <4>3, <4>4
      <3>4. ReadPhases'
        BY <2>1 DEF Read!GetFrame, ReadPhases
      <3>. QED
        BY <2>1, <2>b, <3>1, <3>2, <3>3, <3>4 DEF Read!GetFrame
    <2>2. CASE Read!GetFrameFails
      <3>1. ReadTypes'
        BY <2>2 DEF Read!GetFrameFails, Read!Fails, ReadTypes, Read!Status
      <3>2. ReadPhases'
        BY <2>2 DEF Read!GetFrameFails, Read!Fails, ReadPhases
      <3>. QED
        BY <2>2, <2>a, <2>b, <2>c, <3>1, <3>2 DEF Read!GetFrameFails
    \* A failing read, with room for what it takes.
    <2>e. ASSUME NEW at0 \in 0..FrameLen, NEW count \in Nat \ {0}, Read!BulkFails(at0, count),
                 endpoint # <<>> =>
                    at0 + (IF count < Len(Head(endpoint)) THEN count ELSE Len(Head(endpoint))) <= FrameLen
          PROVE  /\ read_faults' \in 0..ReadFaults /\ ReadBuffer' /\ ReadEndpoint'
                 /\ last' \in {"ERROR", "thrown"} /\ read_pc' \in {"idle", "terminated"}
      <3>1. last' \in {"ERROR", "thrown"} /\ read_pc' \in {"idle", "terminated"}
        BY <2>e DEF Read!BulkFails, Read!Fails
      <3>2. CASE UNCHANGED <<endpoint, buffer, overrun>>
        BY <2>a, <2>b, <2>c, <2>e, <3>1, <3>2 DEF Read!BulkFails
      <3>3. CASE endpoint # <<>> /\ Read!Fault /\ Read!BulkIn(at0, count)
        <4>1. ReadBuffer' /\ ReadEndpoint'
          BY <2>e, <3>3, BulkReads
        <4>. QED
          BY <2>a, <3>1, <3>3, <4>1
      <3>. QED
        BY <2>e, <3>2, <3>3 DEF Read!BulkFails
    <2>3. CASE Read!ReadHead
      <3> DEFINE h == Head(endpoint)
                 n == IF FirstMax < Len(h) THEN FirstMax ELSE Len(h)
      <3>0. endpoint # <<>> => 0 + n <= FrameLen
        BY HeadTailProperties DEF ReadEndpoint, Chunks
      <3>1. CASE /\ endpoint # <<>> /\ read_pc' = "check_size" /\ transferred' = Len(Read!Taken(FirstMax))
                 /\ Read!BulkIn(0, FirstMax) /\ UNCHANGED <<last, read_faults>>
        <4>0. 0 \in 0..FrameLen /\ FirstMax \in Nat \ {0}
          OBVIOUS
        <4>1. ReadBuffer' /\ ReadEndpoint'
          BY <3>0, <3>1, <4>0, BulkReads
        <4>2. /\ h \in Chunks /\ n \in 1..Len(h) /\ n <= FirstMax /\ transferred' = n
              /\ \A i \in 1..n : buffer'[0 + i] = <<FrameIn(h), Start(h) + i - 1>>
              /\ \/ Start(h) + n = FrameLen + 1
                 \/ endpoint' # <<>> /\ Follows(endpoint'[1], FrameIn(h), Start(h) + n)
          BY <3>0, <3>1, <4>0, BulkReads
        <4> HIDE DEF h, n
        <4>3. /\ FrameIn(h) \in 0..2 /\ Start(h) \in 1..FrameLen /\ Start(h) + n - 1 <= FrameLen
              /\ n \in 1..FirstMax
          BY <4>2 DEF Chunks, End
        <4>4. HeadHeld'
          <5>0. PICK f \in 0..2, a \in 1..FrameLen : f = FrameIn(h) /\ a = Start(h)
            BY <4>3
          <5>1. \A i \in 1..n : buffer'[i] = <<f, a + i - 1>>
            BY <4>2, <5>0
          <5>2. Holds(f, a, transferred)'
            BY <4>2, <5>0, <5>1 DEF Holds
          <5>3. transferred' \in 1..FirstMax /\ a + transferred' - 1 <= FrameLen
            BY <4>2, <4>3, <5>0
          <5>. QED
            BY <5>2, <5>3 DEF HeadHeld
        <4>5. ReadTypes'
          BY <2>3, <3>1, <4>2, <4>3 DEF Read!ReadHead, ReadTypes
        <4>. QED
          BY <3>1, <4>1, <4>4, <4>5 DEF ReadPhases
      <3>2. CASE Read!BulkFails(0, FirstMax) /\ UNCHANGED transferred
        <4>1. /\ read_faults' \in 0..ReadFaults /\ ReadBuffer' /\ ReadEndpoint'
              /\ last' \in {"ERROR", "thrown"} /\ read_pc' \in {"idle", "terminated"}
          BY <2>e, <3>0, <3>2
        <4>2. ReadTypes'
          BY <2>3, <3>2, <4>1 DEF Read!ReadHead, ReadTypes, Read!Status
        <4>. QED
          BY <4>1, <4>2 DEF ReadPhases
      <3>. QED
        BY <2>3, <3>1, <3>2 DEF Read!ReadHead
    \* A reset, which empties the endpoint or ends the call.
    <2>f. ASSUME NEW l, Read!ResetEndpoint(l)
          PROVE  /\ read_faults' \in 0..ReadFaults /\ ReadEndpoint'
                 /\ \/ read_pc' = l /\ endpoint' = <<>> /\ last' = last
                    \/ read_pc' = "idle" /\ last' = "ERROR"
      <3>1. endpoint' = <<>> => ReadEndpoint'
        BY DEF ReadEndpoint, Chained
      <3>. QED
        BY <2>a, <2>c, <2>f, <3>1 DEF Read!ResetEndpoint
    <2>4. CASE Read!CheckSize
      <3>0. UNCHANGED <<frame, buffer, transferred, offset, read_size, overrun>>
        BY <2>4 DEF Read!CheckSize
      <3>1. CASE Read!ResetEndpoint("check_magic")
        <4>1. ReadTypes'
          BY <2>f, <3>0, <3>1 DEF ReadTypes, Read!Status
        <4>2. ReadPhases'
          BY <2>f, <3>0, <3>1 DEF ReadPhases
        <4>. QED
          BY <2>b, <2>f, <3>0, <3>1, <4>1, <4>2
      <3>2. CASE ~(transferred < HeadSize)
        <4>0. read_pc' = "check_magic" /\ UNCHANGED <<endpoint, last, read_faults>>
          BY <2>4, <3>2 DEF Read!CheckSize
        <4>1. ReadTypes'
          BY <3>0, <4>0 DEF ReadTypes
        <4>2. transferred >= HeadSize
          BY <3>2 DEF ReadTypes
        <4>3. ReadPhases'
          BY <2>4, <2>d, <3>0, <4>0, <4>2 DEF ReadPhases, Read!CheckSize
        <4>. QED
          BY <2>b, <2>c, <3>0, <4>0, <4>1, <4>3
      <3>. QED
        BY <2>4, <3>1, <3>2 DEF Read!CheckSize
    <2>5. CASE Read!CheckMagic
      <3>0. UNCHANGED <<frame, buffer, transferred, offset, read_size, overrun>>
        BY <2>5 DEF Read!CheckMagic
      <3>1. CASE Read!ResetEndpoint("rest_size")
        <4>1. ReadTypes'
          BY <2>f, <3>0, <3>1 DEF ReadTypes, Read!Status
        <4>2. ReadPhases'
          BY <2>f, <3>0, <3>1 DEF ReadPhases
        <4>. QED
          BY <2>b, <2>f, <3>0, <3>1, <4>1, <4>2
      <3>2. CASE buffer[1][2] = 1
        <4>0. read_pc' = "rest_size" /\ UNCHANGED <<endpoint, last, read_faults>>
          BY <2>5, <3>2 DEF Read!CheckMagic
        <4>1. ReadTypes'
          BY <3>0, <4>0 DEF ReadTypes
        <4>2. ReadPhases'
          BY <2>5, <2>d, <3>0, <3>2, <4>0 DEF ReadPhases, Read!CheckMagic
        <4>. QED
          BY <2>b, <2>c, <3>0, <4>0, <4>1, <4>2
      <3>. QED
        BY <2>5, <3>1, <3>2 DEF Read!CheckMagic
    <2>6. CASE Read!RestSize
      <3>0. /\ read_pc = "rest_size" /\ read_pc' = "rest" /\ offset' = transferred
            /\ UNCHANGED <<endpoint, frame, buffer, transferred, last, overrun, read_faults>>
        BY <2>6 DEF Read!RestSize
      <3>1. PICK pack_length \in (IF buffer[2][2] = 2 THEN {FrameLen} ELSE 0..Wrap - 1) :
                read_size' = (pack_length - transferred) % Wrap
        BY <2>6 DEF Read!RestSize
      <3>2. pack_length \in Int /\ transferred \in 0..FrameLen
        BY <3>1 DEF ReadTypes
      <3>3. read_size' \in 0..Wrap - 1
        BY <3>1, <3>2
      <3>4. ReadTypes'
        BY <3>0, <3>3 DEF ReadTypes
      <3>5. CASE endpoint = <<>>
        BY <2>b, <2>c, <3>0, <3>4, <3>5 DEF ReadPhases
      <3>6. CASE HeadHeld /\ transferred >= HeadSize /\ buffer[1][2] = 1
        <4>1. PICK f \in 0..2, a \in 1..FrameLen : a + transferred - 1 <= FrameLen /\ Holds(f, a, transferred)
          BY <3>6 DEF HeadHeld
        <4>2. transferred \in 2..FirstMax
          BY <3>2, <3>6 DEF HeadHeld
        <4>3. buffer[1] = <<f, a + 1 - 1>> /\ buffer[2] = <<f, a + 2 - 1>>
          BY <4>1, <4>2 DEF Holds
        <4>4. a = 1
          BY <3>6, <4>3
        <4>5. pack_length = FrameLen
          BY <3>1, <4>3, <4>4
        <4>6. read_size' = FrameLen - transferred
          <5>1. FrameLen - transferred \in 0..Wrap - 1
            BY <4>2
          <5>2. \A x \in 0..Wrap - 1 : x % Wrap = x
            OBVIOUS
          <5>. QED
            BY <3>1, <4>5, <5>1, <5>2
        <4>7. Holds(f, 1, offset)'
          BY <3>0, <4>1, <4>4 DEF Holds
        <4>8. offset' \in 1..FrameLen - 1 /\ read_size' = FrameLen - offset'
          BY <3>0, <4>2, <4>6
        <4>9. ReadPhases'
          BY <3>0, <4>7, <4>8 DEF ReadPhases
        <4>. QED
          BY <2>b, <2>c, <3>0, <3>4, <4>9
      <3>. QED
        BY <3>0, <3>5, <3>6 DEF ReadPhases
    <2>7. CASE Read!ReadRest
      <3>1. CASE endpoint = <<>>
        <4>1. /\ UNCHANGED <<frame, transferred, offset, read_size, endpoint, buffer, overrun, read_faults>>
              /\ last' \in {"ERROR", "thrown"} /\ read_pc' \in {"idle", "terminated"}
          BY <2>7, <3>1 DEF Read!ReadRest, Read!BulkFails, Read!Fails
        <4>2. ReadTypes'
          BY <4>1 DEF ReadTypes, Read!Status
        <4>. QED
          BY <2>b, <2>c, <4>1, <4>2 DEF ReadPhases
      <3>2. CASE endpoint # <<>>
        <4> DEFINE h == Head(endpoint)
                   n == IF read_size < Len(h) THEN read_size ELSE Len(h)
        <4>0. offset \in 1..FrameLen - 1 /\ read_size = FrameLen - offset
          BY <2>7, <3>2 DEF Read!ReadRest, ReadPhases
        <4>1. PICK f \in 0..2 : Holds(f, 1, offset)
          BY <2>7, <3>2 DEF Read!ReadRest, ReadPhases
        <4>2. /\ h = endpoint[1] /\ h \in Chunks /\ FrameIn(h) = f /\ Start(h) = offset + 1
          <5>1. h = endpoint[1] /\ h \in Chunks
            BY <3>2, HeadTailProperties DEF ReadEndpoint
          <5>. QED
            BY <4>0, <4>1, <5>1 DEF Holds, Follows
        <4>3. Len(h) \in Nat /\ offset + Len(h) <= FrameLen
          BY <4>0, <4>2 DEF Chunks, End
        <4>4. n = Len(h) /\ offset + n <= FrameLen /\ read_size \in Nat \ {0} /\ offset \in 0..FrameLen
          BY <4>0, <4>3
        <4>5. CASE Read!BulkFails(offset, read_size) /\ UNCHANGED <<transferred, offset, read_size>>
          <5>1. /\ read_faults' \in 0..ReadFaults /\ ReadBuffer' /\ ReadEndpoint'
                /\ last' \in {"ERROR", "thrown"} /\ read_pc' \in {"idle", "terminated"}
            BY <2>e, <4>4, <4>5
          <5>2. ReadTypes'
            BY <2>7, <4>5, <5>1 DEF Read!ReadRest, ReadTypes, Read!Status
          <5>. QED
            BY <5>1, <5>2 DEF ReadPhases
        <4>6. CASE /\ Read!BulkIn(offset, read_size) /\ transferred' = Len(Read!Taken(read_size))
                   /\ IF transferred' < read_size
                      THEN /\ offset' = offset + transferred' /\ read_size' = read_size - transferred'
                           /\ UNCHANGED <<read_pc, last>>
                      ELSE read_pc' = "idle" /\ last' = "SUCCESS" /\ UNCHANGED <<offset, read_size>>
                   /\ UNCHANGED read_faults
          <5>1. ReadBuffer' /\ ReadEndpoint'
            BY <3>2, <4>4, <4>6, BulkReads
          <5>2. /\ n \in 1..Len(h) /\ transferred' = n
                /\ \A i \in 1..n : buffer'[offset + i] = <<FrameIn(h), Start(h) + i - 1>>
                /\ \A i \in 1..offset : buffer'[i] = buffer[i]
                /\ \/ Start(h) + n = FrameLen + 1
                   \/ endpoint' # <<>> /\ Follows(endpoint'[1], FrameIn(h), Start(h) + n)
            BY <3>2, <4>4, <4>6, BulkReads
          <5> HIDE DEF h, n
          <5>3. \A i \in 1..offset + n : buffer'[i] = <<f, i>>
            <6> SUFFICES ASSUME NEW i \in 1..offset + n
                         PROVE  buffer'[i] = <<f, i>>
              OBVIOUS
            <6>1. CASE i <= offset
              <7>1. i \in 1..offset /\ 1 + i - 1 = i
                BY <4>0, <6>1
              <7>. QED
                BY <4>1, <5>2, <7>1 DEF Holds
            <6>2. CASE i > offset
              <7>1. i - offset \in 1..n /\ offset + (i - offset) = i /\ offset + 1 + (i - offset) - 1 = i
                BY <4>0, <4>3, <4>4, <6>2
              <7>2. buffer'[offset + (i - offset)] = <<FrameIn(h), Start(h) + (i - offset) - 1>>
                BY <5>2, <7>1
              <7>. QED
                BY <4>2, <7>1, <7>2
            <6>. QED
              BY <4>0, <6>1, <6>2
          <5>4. CASE transferred' < read_size
            <6>1. offset' = offset + n /\ read_size' = read_size - n /\ UNCHANGED <<read_pc, last, frame>>
              BY <2>7, <4>6, <5>2, <5>4 DEF Read!ReadRest
            <6>2. offset' \in 1..FrameLen - 1 /\ read_size' = FrameLen - offset' /\ transferred' \in 0..FrameLen
              <7>1. FrameLen \in Nat /\ offset \in Int /\ n \in Int /\ n >= 1 /\ n < read_size
                BY <4>0, <4>3, <5>2, <5>4, ReadAssumed DEF Read!StreamReadAssumption
              <7>. QED
                BY <4>0, <5>2, <6>1, <7>1
            <6>3. ReadTypes'
              BY <6>1, <6>2 DEF ReadTypes
            <6>4. Holds(f, 1, offset)'
              <7>0. offset' = offset + n /\ offset' \in Nat /\ Start(h) + n = 1 + offset'
                <8>1. offset \in Nat /\ n \in Nat
                  BY <4>0, <4>3, <4>4
                <8>2. Start(h) = offset + 1 /\ offset' = offset + n
                  BY <4>2, <6>1
                <8>. QED
                  BY <8>1, <8>2
              <7>1. \A i \in 1..offset' : buffer'[i] = <<f, 1 + i - 1>>
                BY <5>3, <7>0
              <7>2. 1 + offset' = FrameLen + 1 \/ (endpoint' # <<>> /\ Follows(endpoint'[1], f, 1 + offset'))
                BY <4>2, <5>2, <7>0
              <7>. QED
                BY <7>1, <7>2 DEF Holds
            <6>5. ReadPhases'
              BY <2>7, <6>1, <6>2, <6>4 DEF ReadPhases, Read!ReadRest
            <6>. QED
              BY <4>6, <5>1, <6>3, <6>5
          <5>5. CASE ~(transferred' < read_size)
            <6>1. read_pc' = "idle" /\ last' = "SUCCESS" /\ UNCHANGED <<offset, read_size, frame>>
              BY <2>7, <4>6, <5>5 DEF Read!ReadRest
            <6>2. offset + n = FrameLen /\ transferred' \in 0..FrameLen
              BY <4>0, <4>3, <4>4, <5>2, <5>5
            <6>3. ReadTypes'
              BY <6>1, <6>2 DEF ReadTypes, Read!Status
            <6>4. Read!Whole'
              <7>1. \A i \in 1..FrameLen : buffer'[i] = <<f, i>>
                BY <5>3, <6>2
              <7>2. buffer' = Read!FrameOf(f)
                BY <5>1, <7>1 DEF ReadBuffer, Read!FrameOf
              <7>. QED
                BY <7>2 DEF Read!Whole, Read!FrameOf
            <6>. QED
              BY <4>6, <5>1, <6>1, <6>3, <6>4 DEF ReadPhases
          <5>. QED
            BY <5>4, <5>5
        <4>. QED
          BY <2>7, <4>5, <4>6 DEF Read!ReadRest
      <3>. QED
        BY <3>1, <3>2
    <2>. QED
      BY <2>0, <2>1, <2>2, <2>3, <2>4, <2>5, <2>6, <2>7 DEF Read!Next
  <1>. QED
    BY <1>1, <1>2, PTL DEF Read!Spec

\* The variables of stream_read keep their types: no length wraps around, and no chunk of
\* the endpoint is empty.
THEOREM ReadTypeCorrect == Read!Spec => []Read!TypeOK
  <1>1. ReadInv => Read!TypeOK
    <2> SUFFICES ASSUME ReadInv
                 PROVE  Read!TypeOK
      OBVIOUS
    <2>1. \A i \in 1..Len(endpoint) : endpoint[i] # <<>>
      BY DEF ReadInv, ReadEndpoint, Chunks
    <2>2. \A i \in 1..FrameLen : buffer[i] \in Read!Bytes
      BY DEF ReadInv, ReadBuffer
    <2>. QED
      BY <2>1, <2>2 DEF ReadInv, ReadTypes, Read!TypeOK
  <1>. QED
    BY <1>1, ReadInvariant, PTL

\* A call of stream_read that succeeds leaves one whole frame in the buffer, whatever
\* earlier calls left on the endpoint, and no call writes behind the buffer
\* (gemini_device.cc:209-250), for every size of frame, head and first read.
THEOREM ReadSuccessIsWhole == Read!Spec => []SuccessIsWhole
  <1>1. ReadInv => SuccessIsWhole
    BY DEF ReadInv, ReadBuffer, ReadPhases, SuccessIsWhole, Read!SuccessIsWhole
  <1>. QED
    BY <1>1, ReadInvariant, PTL

----------------------------------------------------------------------------

\* The parts side by side: each keeps its types, whatever the others do.
THEOREM TypesCorrect ==
    Port!Spec /\ Read!Spec /\ Sensor!Spec /\ Pipe!Spec /\ Hub!Spec => []TypesOK
  <1>1. Port!TypeOK /\ Read!TypeOK /\ Sensor!TypeOK /\ Pipe!TypeOK /\ Hub!TypeOK => TypesOK
    BY DEF TypesOK
  <1>. QED
    BY <1>1, PortTypeCorrect, ReadTypeCorrect, SensorTypeCorrect, PipeTypeCorrect,
       HubTypeCorrect, PTL
=============================================================================
