----------------------------- MODULE StreamRead -----------------------------
(***************************************************************************)
(* GeminiDevice::stream_read: one frame is requested by a control transfer *)
(* and read from the bulk endpoint, first at most 1024 bytes with the      *)
(* head, then the rest in a loop.  Calls follow one another (bulk_mutex_   *)
(* and the one stream thread).  The device (external) answers with one or  *)
(* two transfers per frame and holds what was not read; transfers may time *)
(* out with or without their bytes.  A byte is the pair of its frame and   *)
(* its place; place 1 is the magic, place 2 the pack_length, and the head  *)
(* is complete with HeadSize bytes.                                        *)
(***************************************************************************)
EXTENDS Integers, Sequences

CONSTANTS
    FrameLen,   \* bytes of a frame with its head; buffer_ has as many
    HeadSize,   \* sizeof(UsbCommonPackHead) + sizeof(uint64_t)
    FirstMax,   \* the first read: 1024
    Wrap,       \* 2^32, for read_size
    Fifo,       \* bound: transfers the device holds
    MaxFaults   \* bound: failing transfers and short heads

StreamReadAssumption ==
    /\ HeadSize \in Nat /\ FirstMax \in Nat /\ FrameLen \in Nat /\ Wrap \in Nat
    /\ 2 <= HeadSize /\ HeadSize <= FirstMax /\ FirstMax < FrameLen /\ FrameLen < Wrap
    /\ Fifo \in Nat /\ MaxFaults \in Nat

VARIABLES
    pc, endpoint,           \* the transfers the bulk endpoint holds, each a sequence
    buffer,                 \* buffer_, never cleared between frames
    transferred, offset, read_size,
    frame,                  \* the last frame the device sent, modulo 3
    last,                   \* "SUCCESS", an error, or "thrown": out_of_range of at(e)
    overrun,                \* history: a byte was written behind the buffer
    faults

local == <<transferred, offset, read_size>>
device == <<endpoint, frame>>
vars == <<pc, device, buffer, local, last, overrun, faults>>

Status == {"none", "SUCCESS", "ERROR", "thrown"}
Bytes == (0..2) \X (0..FrameLen)
FrameOf(f) == [i \in 1..FrameLen |-> <<f, i>>]

Init ==
    /\ pc = "idle" /\ endpoint = <<>> /\ frame = 0
    /\ buffer = [i \in 1..FrameLen |-> <<0, 0>>]
    /\ transferred = 0 /\ offset = 0 /\ read_size = 0
    /\ last = "none" /\ overrun = FALSE /\ faults = 0

Fault == faults < MaxFaults /\ faults' = faults + 1

\* A failing transfer: its status is looked up for the log, and LIBUSB_ERROR_OTHER
\* (-99) is not a key of kUsbStatus2String, whose OTHER is -13.
Fails ==
    \/ last' = "ERROR" /\ pc' = "idle"
    \/ last' = "thrown" /\ pc' = "terminated"

----------------------------------------------------------------------------
(* Transfers: UsbMessenger and the device *)

\* The bytes a read of count bytes takes: a transfer of the device ends a read.
Taken(count) ==
    LET chunk == Head(endpoint) IN
    SubSeq(chunk, 1, IF count < Len(chunk) THEN count ELSE Len(chunk))

\* bulk_transfer(endpoint_bulk_in_, buffer + at, count): the bytes leave the endpoint.
BulkIn(at, count) ==
    LET bytes == Taken(count)
        left == SubSeq(Head(endpoint), Len(bytes) + 1, Len(Head(endpoint)))
    IN  /\ endpoint' = IF left = <<>> THEN Tail(endpoint) ELSE <<left>> \o Tail(endpoint)
        /\ buffer' = [i \in 1..FrameLen |->
                          IF i - at \in 1..Len(bytes) THEN bytes[i - at] ELSE buffer[i]]
        /\ overrun' = (overrun \/ (at + Len(bytes) > FrameLen))

\* A read that fails: nothing came, or what came before the timeout is lost.
BulkFails(at, count) ==
    /\ Fails
    /\ \/ endpoint = <<>> /\ UNCHANGED <<endpoint, buffer, overrun, faults>>
       \/ endpoint # <<>> /\ Fault /\ UNCHANGED <<endpoint, buffer, overrun>>
       \/ endpoint # <<>> /\ Fault /\ BulkIn(at, count)

\* reset_usb_endpoint(): the device drops what it holds; otherwise stream_read returns.
ResetEndpoint(next) ==
    \/ endpoint' = <<>> /\ pc' = next /\ UNCHANGED <<last, faults>>
    \/ Fault /\ last' = "ERROR" /\ pc' = "idle" /\ UNCHANGED endpoint

\* The transfers in which the device sends a frame; a short head and none at all are
\* faults.
Sends(f) ==
    \/ Fault /\ UNCHANGED endpoint
    \/ endpoint' = Append(endpoint, FrameOf(f)) /\ UNCHANGED faults
    \/ \E k \in 1..FrameLen - 1 :
          /\ endpoint' = endpoint \o <<SubSeq(FrameOf(f), 1, k),
                                       SubSeq(FrameOf(f), k + 1, FrameLen)>>
          /\ IF k < HeadSize THEN Fault ELSE UNCHANGED faults

----------------------------------------------------------------------------
(* stream_read *)

\* GET_FRAME: the device sends the next frame if it can hold it.
GetFrame ==
    /\ pc = "idle" /\ pc' = "head"
    /\ frame' = (frame + 1) % 3
    /\ IF Len(endpoint) < Fifo THEN Sends(frame') ELSE UNCHANGED <<endpoint, faults>>
    /\ UNCHANGED <<buffer, local, last, overrun>>

\* The control transfer fails.
GetFrameFails ==
    /\ pc = "idle" /\ Fault /\ Fails
    /\ UNCHANGED <<device, buffer, local, overrun>>

\* The first read, with 80 ms.
ReadHead ==
    /\ pc = "head" /\ UNCHANGED <<frame, offset, read_size>>
    /\ \/ /\ endpoint # <<>> /\ pc' = "check_size"
          /\ transferred' = Len(Taken(FirstMax)) /\ BulkIn(0, FirstMax)
          /\ UNCHANGED <<last, faults>>
       \/ BulkFails(0, FirstMax) /\ UNCHANGED transferred

\* A head that is not complete: after a reset the call goes on.
CheckSize ==
    /\ pc = "check_size"
    /\ IF transferred < HeadSize THEN ResetEndpoint("check_magic")
       ELSE pc' = "check_magic" /\ UNCHANGED <<endpoint, last, faults>>
    /\ UNCHANGED <<frame, buffer, local, overrun>>

\* Mutant: the head is taken for a head whatever its magic.
CheckMagicSkipped ==
    /\ pc = "check_magic" /\ pc' = "rest_size"
    /\ UNCHANGED <<device, buffer, local, last, overrun, faults>>

\* A head without the magic: after a reset the call goes on.
CheckMagic ==
    /\ pc = "check_magic"
    /\ IF buffer[1][2] # 1 THEN ResetEndpoint("rest_size")
       ELSE pc' = "rest_size" /\ UNCHANGED <<endpoint, last, faults>>
    /\ UNCHANGED <<frame, buffer, local, overrun>>

\* Mutant: the bytes of the first read are asked for again.
RestSizeWhole ==
    /\ pc = "rest_size" /\ pc' = "rest"
    /\ \E pack_length \in (IF buffer[2][2] = 2 THEN {FrameLen} ELSE 0..Wrap - 1) :
          read_size' = pack_length
    /\ offset' = transferred
    /\ UNCHANGED <<device, buffer, transferred, last, overrun, faults>>

\* read_size = response.pack_length - transferred, unsigned; what is not a head gives
\* any length.
RestSize ==
    /\ pc = "rest_size" /\ pc' = "rest"
    /\ \E pack_length \in (IF buffer[2][2] = 2 THEN {FrameLen} ELSE 0..Wrap - 1) :
          read_size' = (pack_length - transferred) % Wrap
    /\ offset' = transferred
    /\ UNCHANGED <<device, buffer, transferred, last, overrun, faults>>

\* The rest: read again until everything came.
ReadRest ==
    /\ pc = "rest" /\ UNCHANGED frame
    /\ \/ /\ endpoint # <<>> /\ BulkIn(offset, read_size)
          /\ transferred' = Len(Taken(read_size))
          /\ IF transferred' < read_size
             THEN /\ offset' = offset + transferred' /\ read_size' = read_size - transferred'
                  /\ UNCHANGED <<pc, last>>
             ELSE pc' = "idle" /\ last' = "SUCCESS" /\ UNCHANGED <<offset, read_size>>
          /\ UNCHANGED faults
       \/ BulkFails(offset, read_size) /\ UNCHANGED local

Next ==
    GetFrame \/ GetFrameFails \/ ReadHead \/ CheckSize \/ CheckMagic \/ RestSize \/ ReadRest

Spec == Init /\ [][Next]_vars
\* The stream thread calls stream_read again and again, and libusb returns.
Fairness == WF_vars(Next)
FairSpec == Spec /\ Fairness

----------------------------------------------------------------------------
(* Properties *)

\* The variables have their types.
TypeOK ==
    /\ pc \in {"idle", "head", "check_size", "check_magic", "rest_size", "rest", "terminated"}
    /\ \A i \in 1..Len(endpoint) : endpoint[i] # <<>>
    /\ \A i \in 1..FrameLen : buffer[i] \in Bytes
    /\ transferred \in 0..FrameLen /\ offset \in 0..FrameLen /\ read_size \in 0..Wrap - 1
    /\ last \in Status /\ faults \in 0..MaxFaults

Whole == \E f \in 0..2 : buffer = FrameOf(f)

\* A call that succeeds leaves one whole frame in the buffer, each byte in its place,
\* whatever earlier calls left on the endpoint; a call that goes on after a reset, with
\* a head that is none, does not succeed.  No call writes behind buffer_, not even with
\* the pack_length of what is not a head: the reset before has emptied the endpoint
\* (gemini_device.cc:209-250).
SuccessIsWhole == ~overrun /\ (pc = "idle" /\ last = "SUCCESS" => Whole)

\* After the last fault frames arrive again, unless the thread was terminated by the
\* lookup of a status: what a failed call leaves on the endpoint does not keep every
\* later call from succeeding (gemini_device.cc:193-251).
FramesResume == (<>[](pc # "terminated")) => []<>(pc = "idle" /\ last = "SUCCESS")
=============================================================================
