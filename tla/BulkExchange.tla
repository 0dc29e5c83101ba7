---------------------------- MODULE BulkExchange ----------------------------
(***************************************************************************)
(* Requests over the bulk endpoints of a camera: GeminiDevice's            *)
(* bulk_request_response and stream_write, under bulk_mutex_, and          *)
(* UsbCommandTransfer::sendReceive, which takes no lock but opens the      *)
(* interface for itself.  The camera (external) answers in the order of    *)
(* the requests and keeps an answer until somebody reads it.               *)
(*                                                                         *)
(* A request and its answer are the number of the call; 0 is a frame that  *)
(* a stream_read (module StreamRead) gave up too early.  An error status   *)
(* and the exception that naming it may throw are one outcome: the lock    *)
(* and the interface are released by destructors in both cases.            *)
(***************************************************************************)
EXTENDS Naturals, Sequences

CONSTANTS
    Threads,
    MaxCalls,   \* bound: calls
    MaxFaults   \* bound: failing transfers, frames left behind

ASSUME BulkExchangeAssumption == MaxCalls \in Nat /\ MaxFaults \in Nat

NoOne == "no one"
Device == "device"
Frame == 0

ASSUME NamesAssumption == NoOne \notin Threads /\ Device \notin Threads

VARIABLES
    bulk_mutex,     \* the thread that holds bulk_mutex_
    claim,          \* who has the interface: the GeminiDevice or a sendReceive
    requests,       \* sent and not answered yet
    answers,        \* what the IN endpoint holds
    call,           \* each thread's call
    result,         \* what each thread's last call returned
    calls, faults,
    unpaired        \* history: calls that ended without their own answer

camera == <<requests, answers>>
vars == <<bulk_mutex, claim, camera, call, result, calls, faults, unpaired>>

Kinds == {"bulk", "write", "command"}
Idle == [at |-> "idle", kind |-> "bulk", id |-> 0]
Nothing == [id |-> 0, status |-> "none", answer |-> 0]

Init ==
    /\ bulk_mutex = NoOne /\ claim = NoOne
    /\ requests = <<>> /\ answers = <<>>
    /\ call = [t \in Threads |-> Idle] /\ result = [t \in Threads |-> Nothing]
    /\ calls = 0 /\ faults = 0 /\ unpaired = {Frame}

Fault == faults < MaxFaults /\ faults' = faults + 1

\* Mutant: A return or an exception that leaves the interface claimed.
ReleaseLeaks(t) ==
    IF call[t].kind = "command"
    THEN UNCHANGED <<claim, bulk_mutex>>
    ELSE bulk_mutex' = NoOne /\ UNCHANGED claim

\* The lock_guard, or the messenger and its handle, at the end of a call.
Release(t) ==
    IF call[t].kind = "command"
    THEN claim' = NoOne /\ UNCHANGED bulk_mutex
    ELSE bulk_mutex' = NoOne /\ UNCHANGED claim

Returns(t, status, answer) ==
    /\ Release(t)
    /\ call' = [call EXCEPT ![t] = Idle]
    /\ result' = [result EXCEPT ![t] =
                      [id |-> call[t].id, status |-> status, answer |-> answer]]
    /\ unpaired' = IF answer = call[t].id THEN unpaired ELSE unpaired \cup {call[t].id}

\* The call goes on.
Moves(t, place) ==
    call' = [call EXCEPT ![t] = [at |-> place, kind |-> call[t].kind, id |-> call[t].id]]

----------------------------------------------------------------------------
(* The device object, and the camera *)

\* A GeminiDevice opens interface 0 and keeps it until it is destroyed, which its
\* users do when none of them is in a call.
CreateDevice ==
    /\ claim = NoOne /\ claim' = Device
    /\ UNCHANGED <<bulk_mutex, camera, call, result, calls, faults, unpaired>>

DestroyDevice ==
    /\ claim = Device /\ \A t \in Threads : call[t].at = "idle"
    /\ claim' = NoOne
    /\ UNCHANGED <<bulk_mutex, camera, call, result, calls, faults, unpaired>>

\* A request is answered; a one-way request may be taken without an answer.
CameraAnswers ==
    /\ requests # <<>> /\ requests' = Tail(requests)
    /\ answers' \in {Append(answers, Head(requests)), answers}
    /\ UNCHANGED <<bulk_mutex, claim, call, result, calls, faults, unpaired>>

\* The frame of a stream_read that timed out arrives.
FrameArrives ==
    /\ claim = Device /\ bulk_mutex = NoOne
    /\ Fault /\ answers' = Append(answers, Frame)
    /\ UNCHANGED <<bulk_mutex, claim, requests, call, result, calls, unpaired>>

----------------------------------------------------------------------------
(* A call *)

\* A request that goes to the GeminiDevice waits for bulk_mutex_.
Begin(t, kind) ==
    /\ call[t].at = "idle" /\ calls < MaxCalls /\ calls' = calls + 1
    /\ kind # "command" /\ claim = Device
    /\ call' = [call EXCEPT ![t] = [at |-> "lock", kind |-> kind, id |-> calls + 1]]
    /\ UNCHANGED <<bulk_mutex, claim, camera, result, faults, unpaired>>

\* Mutant: bulk_mutex_ is not taken.
LockSkipped(t) ==
    /\ call[t].at = "lock" /\ bulk_mutex' = t
    /\ Moves(t, "send")
    /\ UNCHANGED <<claim, camera, result, calls, faults, unpaired>>

Lock(t) ==
    /\ call[t].at = "lock" /\ bulk_mutex = NoOne
    /\ bulk_mutex' = t
    /\ Moves(t, "send")
    /\ UNCHANGED <<claim, camera, result, calls, faults, unpaired>>

\* sendReceive opens the interface; while another handle has it claimed, the open
\* returns null and the call throws.
BeginCommand(t) ==
    /\ call[t].at = "idle" /\ calls < MaxCalls /\ calls' = calls + 1
    /\ UNCHANGED <<bulk_mutex, camera, faults>>
    /\ \/ /\ claim = NoOne /\ claim' = t
          /\ call' = [call EXCEPT ![t] =
                          [at |-> "send", kind |-> "command", id |-> calls + 1]]
          /\ UNCHANGED <<result, unpaired>>
       \/ /\ claim # NoOne
          /\ result' = [result EXCEPT ![t] =
                            [id |-> calls + 1, status |-> "ERROR", answer |-> 0]]
          /\ unpaired' = unpaired \cup {calls + 1}
          /\ UNCHANGED <<claim, call>>

\* bulk_request_response has sent its request, and goes on to the answer.
Send(t) ==
    /\ call[t].at = "send" /\ call[t].kind = "bulk"
    /\ requests' = Append(requests, call[t].id)
    /\ Moves(t, "receive")
    /\ UNCHANGED <<bulk_mutex, claim, answers, result, calls, faults, unpaired>>

\* stream_write is done with that.
StreamWrite(t) ==
    /\ call[t].at = "send" /\ call[t].kind = "write"
    /\ requests' = Append(requests, call[t].id)
    /\ Returns(t, "SUCCESS", Frame)
    /\ UNCHANGED <<answers, calls, faults>>

\* An error, a timeout or fewer bytes than asked for; the camera may have the request.
SendFails(t) ==
    /\ call[t].at = "send" /\ call[t].kind # "command" /\ Fault
    /\ requests' \in {requests, Append(requests, call[t].id)}
    /\ Returns(t, "ERROR", Frame)
    /\ UNCHANGED <<answers, calls>>

\* What the endpoint has is the answer: its cmd is not compared with the request's,
\* and its state only logged.
Receive(t) ==
    /\ call[t].at = "receive" /\ call[t].kind = "bulk" /\ answers # <<>>
    /\ answers' = Tail(answers)
    /\ Returns(t, "SUCCESS", Head(answers))
    /\ UNCHANGED <<requests, calls, faults>>

\* Nothing came in time; or what came is lost with the error, among them a length
\* that is not the header's pack_length.
ReceiveFails(t) ==
    /\ call[t].at = "receive" /\ call[t].kind = "bulk"
    /\ \/ answers = <<>> /\ UNCHANGED <<answers, faults>>
       \/ answers # <<>> /\ Fault /\ answers' = Tail(answers)
    /\ Returns(t, "ERROR", Frame)
    /\ UNCHANGED <<requests, calls>>

\* The two transfers of sendReceive, neither of which checks a length; each may fail.
SendCommand(t) ==
    /\ call[t].at = "send" /\ call[t].kind = "command"
    /\ \/ /\ requests' = Append(requests, call[t].id)
          /\ Moves(t, "receive")
          /\ UNCHANGED <<bulk_mutex, claim, result, unpaired, faults>>
       \/ /\ Fault /\ requests' \in {requests, Append(requests, call[t].id)}
          /\ Returns(t, "ERROR", Frame)
    /\ UNCHANGED <<answers, calls>>

ReceiveCommand(t) ==
    /\ call[t].at = "receive" /\ call[t].kind = "command"
    /\ \/ /\ answers # <<>> /\ answers' = Tail(answers)
          /\ Returns(t, "SUCCESS", Head(answers)) /\ UNCHANGED faults
       \/ answers = <<>> /\ Returns(t, "ERROR", Frame) /\ UNCHANGED <<answers, faults>>
       \/ answers # <<>> /\ Fault /\ answers' = Tail(answers) /\ Returns(t, "ERROR", Frame)
    /\ UNCHANGED <<requests, calls>>

Thread(t) ==
    \/ Lock(t) \/ Send(t) \/ StreamWrite(t) \/ SendFails(t) \/ Receive(t) \/ ReceiveFails(t)
    \/ SendCommand(t) \/ ReceiveCommand(t)

\* All bounded calls are done.
Done ==
    /\ calls = MaxCalls /\ \A t \in Threads : call[t].at = "idle"
    /\ UNCHANGED vars

Next ==
    \/ CreateDevice \/ DestroyDevice \/ CameraAnswers \/ FrameArrives \/ Done
    \/ \E t \in Threads :
          \/ Thread(t) \/ BeginCommand(t)
          \/ \E kind \in Kinds : Begin(t, kind)

\* Transfers have timeouts, and mutexes are given on.
Spec == Init /\ [][Next]_vars /\ \A t \in Threads : WF_vars(Thread(t))

----------------------------------------------------------------------------
(* Properties *)

Sent(t) == call[t].at \in {"send", "receive"}

\* The types; a call that has begun to send holds what protects it: bulk_mutex_ and
\* the device's interface, or an interface of its own.
TypeOK ==
    /\ bulk_mutex \in Threads \cup {NoOne}
    /\ claim \in Threads \cup {NoOne, Device}
    /\ requests \in Seq(Nat) /\ answers \in Seq(Nat)
    /\ call \in [Threads -> [at : {"idle", "lock", "send", "receive"}, kind : Kinds, id : Nat]]
    /\ result \in [Threads -> [id : Nat, status : {"none", "SUCCESS", "ERROR"}, answer : Nat]]
    /\ calls \in Nat /\ faults \in Nat /\ unpaired \subseteq Nat
    /\ \A t \in Threads :
          /\ call[t].at # "idle" /\ call[t].kind # "command" => claim = Device
          /\ call[t].at = "lock" => call[t].kind # "command"
          /\ Sent(t) /\ call[t].kind # "command" <=> bulk_mutex = t
          /\ Sent(t) /\ call[t].kind = "command" <=> claim = t

\* bulk_request_response and sendReceive never compare the answer with the request.
\* Still no call returns the answer of a concurrent one: an answer that is not the
\* call's own belongs to a call that ended without reading it, or is a late frame.
OwnOrLeftover ==
    \A t \in Threads : result[t].status = "SUCCESS" =>
        result[t].answer \in {result[t].id} \cup unpaired

=============================================================================
