----------------------------- MODULE UsbSession -----------------------------
(***************************************************************************)
(* The life of a GeminiDevice on USB: the enumeration, UsbDevice with a    *)
(* UsbContext of its own, UsbHandle that claims the interfaces and asks    *)
(* the context for the thread that handles events, and all of it taken     *)
(* down again, after a failed constructor too.                             *)
(*                                                                         *)
(* Sessions are the device objects that the process makes, one at a time   *)
(* or several at once; another process may hold interfaces meanwhile.      *)
(***************************************************************************)
EXTENDS Integers, Sequences, FiniteSetsExt

CONSTANTS
    Sessions,       \* device objects
    Foreign,        \* another process
    Nobody,
    Interfaces,     \* the device's interfaces in order: class, subclass, bulk endpoints
    MaxMoves        \* bound: replugs, and what the other process does

UsbSessionAssumption ==
    /\ Foreign \notin Sessions /\ Nobody \notin Sessions \cup {Foreign}
    /\ Len(Interfaces) > 0 /\ MaxMoves \in Nat

Numbers == 0..Len(Interfaces) - 1
Interface(n) == Interfaces[n + 1]

VARIABLES
    address,            \* where the device is on the bus; it changes when it is replugged
    owner,              \* each interface: whose claim it is
    moves,
    pc,                 \* each session
    path,               \* info.id of the device it is made for
    claims,             \* the interfaces its handle claimed
    opened,             \* libusb_open without libusb_close
    handler_requests, kill, thread      \* of the session's UsbContext

bus == <<address, owner, moves>>
handle == <<claims, opened>>
usb_context == <<handler_requests, kill, thread>>
vars == <<bus, pc, path, handle, usb_context>>

Init ==
    /\ address = 0 /\ owner = [n \in Numbers |-> Nobody] /\ moves = 0
    /\ pc = [s \in Sessions |-> "none"] /\ path = [s \in Sessions |-> -1]
    /\ claims = [s \in Sessions |-> {}] /\ opened = [s \in Sessions |-> FALSE]
    /\ handler_requests = [s \in Sessions |-> 0] /\ kill = [s \in Sessions |-> 0]
    /\ thread = [s \in Sessions |-> "none"]

At(s, l) == pc[s] = l
Goto(s, l) == pc' = [pc EXCEPT ![s] = l]
Set(f, s, v) == [f EXCEPT ![s] = v]

----------------------------------------------------------------------------
(* Descriptors *)

\* getSubdevices: neither streaming interfaces nor the application specific class.
Listed(n) == Interface(n).subclass # 2 /\ Interface(n).class # 254

\* UsbDevice: the video streaming interfaces go with the video control interface before
\* them, and are claimed with it.
IsControl(n) == Interface(n).class = 14 /\ Interface(n).subclass = 1
IsStreaming(n) == Interface(n).class = 14 /\ Interface(n).subclass = 2
AssociatedInterfaces(n) ==
    {m \in Numbers : /\ IsControl(n) /\ IsStreaming(m) /\ n < m
                     /\ \A k \in n + 1..m : ~IsControl(k)}

\* The interfaces that a handle for interface 0 claims, in ascending order.
ToClaim == {0} \cup AssociatedInterfaces(0)

\* The bulk endpoints of the vendor specific interfaces.
HasEndpoints ==
    /\ \E n \in Numbers : Interface(n).class = 255 /\ "in" \in Interface(n).bulk
    /\ \E n \in Numbers : Interface(n).class = 255 /\ "out" \in Interface(n).bulk

----------------------------------------------------------------------------
(* Construction *)

\* queryDevicesInfo: the session is made for the device at its address, if it is listed.
Query(s) ==
    /\ At(s, "none") /\ \E n \in Numbers : Listed(n)
    /\ path' = Set(path, s, address) /\ Goto(s, "create")
    /\ UNCHANGED <<bus, handle, usb_context>>

\* createUsbDevcie with a context of its own: a device that was replugged since has
\* another path, and the missing pointer is used.
CreateUsbDevice(s) ==
    /\ At(s, "create")
    /\ IF path[s] = address THEN Goto(s, "open") ELSE Goto(s, "crashed")
    /\ UNCHANGED <<bus, path, handle, usb_context>>

\* UsbDevice::open(0), UsbHandle: libusb_open fails for a device that is gone.
Open(s) ==
    /\ At(s, "open")
    /\ IF path[s] = address
       THEN Goto(s, "claim") /\ opened' = Set(opened, s, TRUE)
       ELSE Goto(s, "device_gone") /\ UNCHANGED opened
    /\ UNCHANGED <<bus, path, claims, usb_context>>

Claimable(s, n) == path[s] = address /\ owner[n] \in {Nobody, s}

\* Mutant: an interface that cannot be claimed is left out.
ClaimInterfaceSkips(s) ==
    /\ At(s, "claim") /\ claims[s] # ToClaim
    /\ LET n == Min(ToClaim \ claims[s]) IN
            /\ claims' = Set(claims, s, claims[s] \cup {n})
            /\ owner' = IF Claimable(s, n) THEN [owner EXCEPT ![n] = s] ELSE owner
    /\ UNCHANGED <<address, moves, pc, path, opened, usb_context>>

\* claim_interface_or_throw: the handle of a constructor that throws stays open, with
\* what it claimed.
ClaimInterface(s) ==
    /\ At(s, "claim") /\ claims[s] # ToClaim
    /\ LET n == Min(ToClaim \ claims[s]) IN
       \/ /\ Claimable(s, n) /\ owner' = [owner EXCEPT ![n] = s]
          /\ claims' = Set(claims, s, claims[s] \cup {n}) /\ UNCHANGED pc
       \/ /\ ~Claimable(s, n) /\ Goto(s, "device_gone")
          /\ UNCHANGED <<owner, claims>>
    /\ UNCHANGED <<address, moves, path, opened, usb_context>>

\* startEventHandler: the first request joins the thread of the time before and starts
\* another.  A context has one handle, so that there is none to join.
StartEventHandler(s) ==
    /\ At(s, "claim") /\ claims[s] = ToClaim /\ Goto(s, "endpoints")
    /\ handler_requests' = Set(handler_requests, s, handler_requests[s] + 1)
    /\ thread' = Set(thread, s, "spawned") /\ UNCHANGED kill
    /\ UNCHANGED <<bus, path, handle>>

\* The thread: it handles events while kill_hendler_thread_num_ is not 0, and then
\* libusb returns at once.
EventThread(s) ==
    /\ thread[s] \in {"spawned", "handling"}
    /\ thread' = Set(thread, s, IF kill[s] # 0 THEN "handling" ELSE "exited")
    /\ thread' # thread
    /\ UNCHANGED <<bus, pc, path, handle, handler_requests, kill>>

\* The endpoints of the constructor of GeminiDevice; without them it throws.
FindEndpoints(s) ==
    /\ At(s, "endpoints")
    /\ IF HasEndpoints THEN Goto(s, "alive")
       ELSE Goto(s, "handle_gone")
    /\ UNCHANGED <<bus, path, handle, usb_context>>

----------------------------------------------------------------------------
(* Destruction *)

Destroy(s) ==
    /\ At(s, "alive") /\ Goto(s, "handle_gone")
    /\ UNCHANGED <<bus, path, handle, usb_context>>

StopEventHandler(s) ==
    /\ handler_requests' = Set(handler_requests, s, handler_requests[s] - 1)
    /\ kill' = Set(kill, s, IF handler_requests'[s] = 0 THEN 1 ELSE kill[s])

\* ~UsbHandle: stopEventHandler, the associated interfaces released, and libusb_close,
\* which gives up the first one too.
DestroyHandle(s) ==
    /\ At(s, "handle_gone") /\ Goto(s, "device_gone")
    /\ StopEventHandler(s)
    /\ owner' = [n \in Numbers |-> IF owner[n] = s THEN Nobody ELSE owner[n]]
    /\ claims' = Set(claims, s, {}) /\ opened' = Set(opened, s, FALSE)
    /\ UNCHANGED <<address, moves, path, thread>>

\* ~UsbDevice and ~UsbContext, which joins the thread.
DestroyContext(s) ==
    /\ At(s, "device_gone") /\ thread[s] \in {"none", "exited"} /\ Goto(s, "gone")
    /\ UNCHANGED <<bus, path, handle, usb_context>>

----------------------------------------------------------------------------
(* Outside the process *)

Replug ==
    /\ moves < MaxMoves /\ moves' = moves + 1 /\ address' = address + 1
    /\ owner' = [n \in Numbers |-> Nobody]
    /\ UNCHANGED <<pc, path, handle, usb_context>>
ForeignMoves(n) ==
    /\ moves < MaxMoves /\ moves' = moves + 1
    /\ \/ owner[n] = Nobody /\ owner' = [owner EXCEPT ![n] = Foreign]
       \/ owner[n] = Foreign /\ owner' = [owner EXCEPT ![n] = Nobody]
    /\ UNCHANGED <<address, pc, path, handle, usb_context>>

Goes(s) ==
    \/ CreateUsbDevice(s) \/ Open(s) \/ ClaimInterface(s) \/ StartEventHandler(s)
    \/ FindEndpoints(s) \/ DestroyHandle(s) \/ DestroyContext(s)

Next ==
    \/ \E s \in Sessions : Query(s) \/ Goes(s) \/ EventThread(s) \/ Destroy(s)
    \/ Replug \/ \E n \in Numbers : ForeignMoves(n)

Spec == Init /\ [][Next]_vars

----------------------------------------------------------------------------
(* Properties *)

\* The variables have their types; a session that goes on without a handle has none of
\* its interfaces in use, and on every way to the end of its context, through each of the
\* constructors that may throw, it gave back its request: "assert(handler_requests_ == 0)"
\* (usb_context.cc:35).
TypeOK ==
    /\ \A n \in Numbers : owner[n] \in Sessions \cup {Foreign, Nobody}
    /\ \A s \in Sessions :
        /\ claims[s] \subseteq ToClaim
        /\ \A n \in claims[s], m \in ToClaim : m < n => m \in claims[s]
        /\ handler_requests[s] \in {0, 1} /\ kill[s] \in {0, 1}
        /\ claims[s] # {} => opened[s]
        /\ pc[s] \in {"device_gone", "gone"} => handler_requests[s] = 0

\* A device that is there has every interface it streams through, and no other device
\* object has one of them, whoever asked for them at the same time; until it is replugged
\* (usb_handle.cc:40-43).
AliveOwns ==
    \A s \in Sessions : At(s, "alive") /\ path[s] = address =>
        \A n \in ToClaim : owner[n] = s

=============================================================================
