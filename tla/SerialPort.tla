----------------------------- MODULE SerialPort -----------------------------
(***************************************************************************)
(* GeminiSerialPort (gemini/gemini_serial_port.cc): the connection between *)
(* host and device.  Its threads are the caller of open() and close(), the *)
(* receive thread, the worker of write_dispatcher_ (one place) and the     *)
(* watchdog; the device and the line, which may lose a packet, are         *)
(* external.  Packets are whole: SerialReceiver is about their bytes, and  *)
(* the watchdog's loop is that of module Watchdog.                         *)
(***************************************************************************)
EXTENDS Integers, Sequences, SequencesExt

CONSTANTS
    RetryLimit,     \* the timeouts a handshake is given (5)
    UpSize,         \* bound: packets on the line from the device
    DownSize,       \* bound: packets on the line to the device
    MaxFaults,      \* bound: packets lost, restarts, writes that throw
    MaxOpens,       \* bound: calls of open()
    Patient         \* TRUE: no timer runs out while an answer is on its way

SerialPortAssumption ==
    RetryLimit \in Nat /\ UpSize \in Nat /\ DownSize \in Nat \ {0} /\ MaxFaults \in Nat /\ MaxOpens \in Nat
    /\ Patient \in BOOLEAN

Sends == {"ack", "heartbeat", "disconnect", "timestamp", "intrinsics", "extrinsics", "files"}
Received == {"sync", "ack", "heartbeat", "disconnect", "respond", "unit"}
NoItem == "none"

VARIABLES
    working_state, retry_times,
    serial, serial_running,     \* is serial_ set and open?
    cpc, opens,                 \* where open() and close() are
    rpc, todo,                  \* the receive thread, and the rest of its handler
    queue, writing, accepting,  \* write_dispatcher_
    watchdog, kicked, wpc,      \* its loop, kicked_, its handler
    up, down, device,           \* the line and the device
    faults, late                \* late: the watchdog was started after close() stopped it

state == <<working_state, retry_times>>
port == <<serial, serial_running, cpc, opens>>
receiver == <<rpc, todo>>
writer == <<queue, writing, accepting>>
watch == <<watchdog, kicked, wpc>>
vars == <<state, port, receiver, writer, watch, up, down, device, faults, late>>

Init ==
    /\ working_state = "Disconnected" /\ retry_times = 0
    /\ serial = FALSE /\ serial_running = FALSE /\ cpc = "closed" /\ opens = 0
    /\ rpc = "done" /\ todo = <<>>
    /\ queue = <<>> /\ writing = NoItem /\ accepting = FALSE
    /\ watchdog = "off" /\ kicked = FALSE /\ wpc = "idle"
    /\ up = <<>> /\ down = <<>> /\ device = "idle"
    /\ faults = 0 /\ late = FALSE

\* serial_->write().
Write(m) == Len(down) < DownSize /\ down' = Append(down, m)

\* offerHand(): handshake 1.
OfferHand == working_state' = "Syncing" /\ Write("sync")

\* Is the device silent, or is an answer of it on the way?
Silent ==
    /\ up = <<>> /\ device # "connected"
    /\ {"sync", "ack"} \cap (ToSet(todo \o queue \o down) \cup {writing}) = {}
\* Has the host nothing to write?
Written == queue = <<>> /\ writing = NoItem /\ down = <<>> /\ wpc = "idle"

----------------------------------------------------------------------------
(* open() and close() *)

\* open(): the port, the dispatcher, and the thread of connect().
Open ==
    /\ cpc = "closed" /\ opens < MaxOpens /\ cpc' = "connect" /\ opens' = opens + 1
    /\ serial' = TRUE /\ serial_running' = TRUE /\ accepting' = TRUE
    /\ rpc' = "loop"
    /\ UNCHANGED <<state, todo, queue, writing, watch, up, down, device, faults, late>>

\* The end of connect().
Connect ==
    /\ cpc = "connect" /\ cpc' = "open" /\ OfferHand
    /\ UNCHANGED <<retry_times, serial, serial_running, opens, receiver,
                   writer, watch, up, device, faults, late>>

\* A blocking invoke on write_dispatcher_; a stopped dispatcher drops the item.
Send(m) == IF accepting THEN queue = <<>> /\ queue' = <<m>> ELSE UNCHANGED queue

CloseDisconnect ==
    /\ cpc = "open" /\ cpc' = "watchdog" /\ Send("disconnect")
    /\ UNCHANGED <<state, serial, serial_running, opens, receiver, writing, accepting, watch,
                   up, down, device, faults, late>>

\* Mutant: the watchdog is left alone.
CloseNoWatchdog ==
    /\ cpc = "watchdog" /\ cpc' = "running"
    /\ UNCHANGED <<state, serial, serial_running, opens, receiver, writer, watch, up, down,
                   device, faults, late>>

\* watchdog_->stop() waits for a handler that is running.
CloseWatchdog ==
    /\ cpc = "watchdog" /\ cpc' = "running" /\ wpc = "idle"
    /\ watchdog' = "off"
    /\ UNCHANGED <<state, serial, serial_running, opens, receiver, writer, kicked, wpc, up,
                   down, device, faults, late>>

CloseRunning ==
    /\ cpc = "running" /\ cpc' = "join" /\ serial_running' = FALSE
    /\ UNCHANGED <<state, serial, opens, receiver, writer, watch, up, down, device, faults, late>>

\* Mutant: the item of flush() is pushed into a full queue.
CloseJoinBlocking ==
    /\ cpc = "join" /\ cpc' = "flush" /\ rpc = "done"
    /\ queue' = Append(queue, "flush")
    /\ UNCHANGED <<state, serial, serial_running, opens, receiver, writing, accepting, watch,
                   up, down, device, faults, late>>

\* The join, and the invoke of flush(), which drops what is still queued.
CloseJoin ==
    /\ cpc = "join" /\ cpc' = "flush" /\ rpc = "done"
    /\ queue' = <<"flush">>
    /\ UNCHANGED <<state, serial, serial_running, opens, receiver, writing, accepting, watch,
                   up, down, device, faults, late>>

\* flush() and stop() of the dispatcher return; the port is closed.
CloseReset ==
    /\ cpc = "flush" /\ cpc' = "closed" /\ queue = <<>> /\ writing = NoItem
    /\ accepting' = FALSE /\ serial' = FALSE
    /\ UNCHANGED <<state, serial_running, opens, receiver, queue, writing, watch, up, down,
                   device, faults, late>>

OpenStep == Open \/ Connect
CloseStep == CloseDisconnect \/ CloseWatchdog \/ CloseRunning \/ CloseJoin \/ CloseReset

----------------------------------------------------------------------------
(* The receive thread *)

\* Mutant: the timestamp is sent last.
OnConnectedTimestampLast ==
    IF working_state = "Connected"
    THEN UNCHANGED <<working_state, todo>>
    ELSE /\ working_state' = "Connected"
         /\ todo' = <<"ack", "watchdog", "intrinsics", "extrinsics", "files", "timestamp">>

\* onConnected(): handshake 3, and the requests that follow it.
OnConnected ==
    IF working_state = "Connected"
    THEN UNCHANGED <<working_state, todo>>
    ELSE /\ working_state' = "Connected"
         /\ todo' = <<"ack", "watchdog", "timestamp", "intrinsics", "extrinsics", "files">>

\* handleConnection; onSyncing only logs.
HandleConnection(type) ==
    \/ type = "sync" /\ UNCHANGED <<working_state, todo>>
    \/ type = "ack" /\ OnConnected
    \/ type = "heartbeat" /\ todo' = <<"heartbeat", "kick">> /\ UNCHANGED working_state
    \/ type = "disconnect" /\ working_state' = "Disconnected" /\ UNCHANGED todo

\* handleCommand: intrinsics or extrinsics of the right size reach the profiles, which
\* are outside this module.
HandleCommand == UNCHANGED <<working_state, todo>>

\* handleDataUnit: a frame, if the archive has one, goes to the sensor's dispatcher with
\* the speed last received; both are outside this module.
HandleDataUnit == UNCHANGED <<working_state, todo>>

\* handleTlvData while syncing: any other packet makes the host offer its hand again,
\* and is handled all the same; a write that throws ends the handler.
HandleWhileSyncing(type) ==
    /\ working_state = "Syncing" /\ type \notin {"sync", "ack"}
    /\ Write("sync")
    /\ \/ type \in {"heartbeat", "disconnect"} /\ HandleConnection(type)
       \/ type = "respond" /\ HandleCommand
       \/ type = "unit" /\ HandleDataUnit

Handle(type) ==
    /\ working_state # "Syncing" \/ type \in {"sync", "ack"}
    /\ \/ type \in {"sync", "ack", "heartbeat", "disconnect"} /\ HandleConnection(type)
       \/ type = "respond" /\ HandleCommand
       \/ type = "unit" /\ HandleDataUnit
    /\ UNCHANGED down

HandleTlvData ==
    /\ rpc = "loop" /\ todo = <<>> /\ serial_running /\ up # <<>>
    /\ up' = Tail(up)
    /\ HandleWhileSyncing(Head(up)) \/ Handle(Head(up))
    /\ UNCHANGED <<retry_times, port, rpc, writer, watch, device, faults, late>>

\* Mutant: a failed handshake is not offered again.
RetryNoOffer ==
    /\ rpc = "loop" /\ todo = <<>> /\ serial_running /\ up = <<>>
    /\ Patient => Silent /\ Written
    /\ \/ working_state = "Disconnected" /\ UNCHANGED <<working_state, retry_times, todo, down>>
       \/ /\ working_state = "Syncing"
          /\ retry_times' = IF retry_times < RetryLimit THEN retry_times + 1 ELSE 0
          /\ UNCHANGED <<working_state, todo, down>>
       \/ /\ working_state = "Connected" /\ todo' = <<"heartbeat">>
          /\ UNCHANGED <<working_state, retry_times, down>>
    /\ UNCHANGED <<port, rpc, writer, watch, up, device, faults, late>>

\* retry() after a read that timed out.
Retry ==
    /\ rpc = "loop" /\ todo = <<>> /\ serial_running /\ up = <<>>
    /\ Patient => Silent /\ Written
    /\ \/ working_state = "Disconnected" /\ UNCHANGED <<working_state, retry_times, todo, down>>
       \/ /\ working_state = "Syncing"
          /\ \/ /\ retry_times < RetryLimit /\ retry_times' = retry_times + 1
                /\ UNCHANGED <<working_state, down>>
             \/ retry_times >= RetryLimit /\ retry_times' = 0 /\ OfferHand
          /\ UNCHANGED todo
       \/ /\ working_state = "Connected" /\ todo' = <<"heartbeat">>
          /\ UNCHANGED <<working_state, retry_times, down>>
    /\ UNCHANGED <<port, rpc, writer, watch, up, device, faults, late>>

\* The next step of the handler: watchdog_->start(), watchdog_->kick() or send().
HandlerStep ==
    /\ rpc = "loop" /\ todo # <<>> /\ todo' = Tail(todo)
    /\ \/ /\ Head(todo) = "watchdog"
          /\ watchdog' = IF wpc = "handler" THEN "again" ELSE "on"
          /\ late' = (late \/ cpc \in {"running", "join"})
          /\ UNCHANGED <<queue, kicked>>
       \/ Head(todo) = "kick" /\ kicked' = TRUE /\ UNCHANGED <<queue, watchdog, late>>
       \/ Head(todo) \in Sends /\ Send(Head(todo)) /\ UNCHANGED <<watchdog, kicked, late>>
    /\ UNCHANGED <<state, port, rpc, writing, accepting, wpc, up, down, device, faults>>

ReceiverEnds ==
    /\ rpc = "loop" /\ todo = <<>> /\ ~serial_running /\ rpc' = "done"
    /\ UNCHANGED <<state, port, todo, writer, watch, up, down, device, faults, late>>

Receiver == HandleTlvData \/ Retry \/ HandlerStep \/ ReceiverEnds

----------------------------------------------------------------------------
(* The worker of write_dispatcher_, and the watchdog *)

TakeItem ==
    /\ queue # <<>> /\ writing = NoItem
    /\ writing' = Head(queue) /\ queue' = <<>>
    /\ UNCHANGED <<state, port, receiver, accepting, watch, up, down, device, faults, late>>

\* The lambda of send(): it copies the caller's data only now.
WriteItem ==
    /\ writing # NoItem /\ writing' = NoItem
    /\ IF writing = "flush" THEN UNCHANGED down ELSE Write(writing)
    /\ UNCHANGED <<state, port, receiver, queue, accepting, watch, up, device, faults, late>>

\* 5000 ms without a kick, or with one; a handler needs serial_.
WatchdogTests ==
    /\ watchdog = "on" /\ wpc = "idle" /\ (Patient => Silent)
    /\ wpc' = IF kicked THEN "idle" ELSE IF serial THEN "handler" ELSE "crash"
    /\ kicked' = FALSE
    /\ UNCHANGED <<state, port, receiver, writer, watchdog, up, down, device, faults, late>>

\* The handler ends with offerHand(), 100 ms after the camera was opened.
WatchdogOffers ==
    /\ wpc = "handler" /\ wpc' = "idle" /\ OfferHand /\ watchdog' = "on"
    /\ UNCHANGED <<retry_times, port, receiver, writer, kicked, up, device,
                   faults, late>>

Fault == faults < MaxFaults /\ faults' = faults + 1

\* The write throws: the loop of the watchdog ends, unless start() has queued another.
WatchdogThrows ==
    /\ wpc = "handler" /\ wpc' = "idle" /\ Fault
    /\ working_state' = "Syncing"
    /\ watchdog' = IF watchdog = "again" THEN "on" ELSE "off"
    /\ UNCHANGED <<retry_times, port, receiver, writer, kicked, up, down,
                   device, late>>

----------------------------------------------------------------------------
(* The device and the line (external) *)

\* What finds no room in the device's buffer is lost.
Answer(ms) == up' = IF Len(up) + Len(ms) <= UpSize THEN up \o ms ELSE up

DeviceReads ==
    /\ down # <<>> /\ down' = Tail(down)
    /\ \/ Head(down) = "sync" /\ device' = "synced" /\ Answer(<<"sync", "ack">>)
       \/ /\ Head(down) = "ack"
          /\ device' = IF device = "synced" THEN "connected" ELSE device
          /\ UNCHANGED up
       \/ Head(down) = "disconnect" /\ device' = "idle" /\ UNCHANGED up
       \/ Head(down) \notin {"sync", "ack", "disconnect"} /\ UNCHANGED <<device, up>>
    /\ UNCHANGED <<state, port, receiver, writer, watch, faults, late>>

DeviceSends ==
    /\ device = "connected" /\ up = <<>>
    /\ \E m \in {"heartbeat", "respond", "unit"} : Answer(<<m>>)
    /\ UNCHANGED <<state, port, receiver, writer, watch, down, device, faults, late>>

\* The device ends the connection, or restarts and forgets it.
DeviceStops ==
    /\ Fault /\ device # "idle" /\ device' = "idle"
    /\ \/ device = "connected" /\ Answer(<<"disconnect">>)
       \/ UNCHANGED up
    /\ UNCHANGED <<state, port, receiver, writer, watch, down, late>>

LosePacket ==
    /\ Fault
    /\ \/ up # <<>> /\ up' = Tail(up) /\ UNCHANGED down
       \/ down # <<>> /\ down' = Tail(down) /\ UNCHANGED up
    /\ UNCHANGED <<state, port, receiver, writer, watch, device, late>>

Host == Receiver \/ TakeItem \/ WriteItem \/ WatchdogTests \/ WatchdogOffers
Faulty == WatchdogThrows \/ DeviceStops \/ LosePacket
Next == OpenStep \/ CloseStep \/ Host \/ DeviceReads \/ DeviceSends \/ Faulty

Spec == Init /\ [][Next]_vars

\* The threads run, timers expire and the device answers; nobody is obliged to call
\* open() or close(), but a call that has begun goes on.
Fairness ==
    /\ WF_vars(Connect) /\ WF_vars(Receiver)
    /\ WF_vars(CloseWatchdog \/ CloseRunning \/ CloseJoin \/ CloseReset)
    /\ WF_vars(TakeItem) /\ WF_vars(WriteItem)
    /\ WF_vars(WatchdogTests) /\ WF_vars(WatchdogOffers)
    /\ WF_vars(DeviceReads)
FairSpec == Spec /\ Fairness

----------------------------------------------------------------------------
(* Properties *)

\* The variables have their types.
TypeOK ==
    /\ working_state \in {"Disconnected", "Syncing", "Connected"}
    /\ retry_times \in 0..RetryLimit
    /\ serial \in BOOLEAN /\ serial_running \in BOOLEAN
    /\ cpc \in {"closed", "connect", "open", "watchdog", "running", "join", "flush"}
    /\ rpc \in {"loop", "done"} /\ todo \in Seq(Sends \cup {"watchdog", "kick"})
    /\ queue \in Seq(Sends \cup {"flush"}) /\ Len(queue) <= 1
    /\ writing \in Sends \cup {"flush", NoItem}
    /\ watchdog \in {"off", "on", "again"} /\ wpc \in {"idle", "handler", "crash"}
    /\ up \in Seq(Received) /\ down \in Seq(Sends \cup {"sync"})
    /\ device \in {"idle", "synced", "connected"}

\* The lambda that sends the timestamp reads a local of onConnected() through a
\* pointer, in another thread: onConnected() is still there when it does, because
\* the sends that follow wait for the one place of the queue
\* (gemini_serial_port.cc:192-208, 358-363).
TimestampAlive == "timestamp" \in ToSet(queue) \cup {writing} => todo # <<>>

\* When close() has returned no thread of the port is left and nothing is being
\* written; the watchdog can only be alive, and run into the null serial_, if the
\* device's ack was handled while close() waited for the receive thread
\* (gemini_serial_port.cc:167-182, 353).
ClosedIsQuiet ==
    /\ cpc = "closed" => rpc = "done" /\ queue = <<>> /\ writing = NoItem
    /\ ~serial /\ (watchdog # "off" \/ wpc # "idle") => late

\* However packets are lost and the device ends the connection or restarts, host and
\* device are connected again and again until close()
\* (gemini_serial_port.cc:41-50, 221-226, 314-336).
Reconnects ==
    []<>(\/ working_state = "Connected" /\ device = "connected"
         \/ cpc \notin {"connect", "open"})
=============================================================================
