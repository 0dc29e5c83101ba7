--------------------------- MODULE SerialReceiver ---------------------------
(***************************************************************************)
(* The receive thread of GeminiSerialPort (gemini_serial_port.cc:249-303), *)
(* which puts packets together from a serial line whose reads end early    *)
(* when they time out, and the watchdog's handler, which resets the same   *)
(* members from its own thread without a lock.  The line carries a head of *)
(* HeadSize bytes and a body per packet; a byte is its position on the     *)
(* line.  The members are plain ints: a load and a store are steps of      *)
(* their own, so that the handler's writes can fall between them.          *)
(***************************************************************************)
EXTENDS Integers

CONSTANTS
    HeadSize,   \* sizeof(TLVStruct)
    MaxLen,     \* kMaxTlvDataLength
    Starts,     \* the positions at which the device's packets start
    Length,     \* the length of the packet that starts at each of them
    Total,      \* the bytes the device sends
    MaxFires    \* bound: how often the watchdog fires

ASSUME ReceiverAssumption ==
    /\ HeadSize \in Nat \ {0} /\ MaxLen \in Nat /\ Total \in Nat /\ MaxFires \in Nat
    /\ Starts \subseteq Nat /\ Length \in [Starts -> 0..MaxLen]
    /\ 0 \in Starts \cup {Total}
    /\ \A s \in Starts : s + HeadSize + Length[s] \in Starts \cup {Total}

VARIABLES
    pos,                            \* the bytes taken from the line
    is_head_found, pack_read, pack_lack,    \* the members both threads write
    length, size,                   \* tlv_head.length and recv_buffer.size()
    pc, offset, count, nread, rest, tmp,    \* the read that is under way
    wpc, fires,                     \* the watchdog's handler
    start, body,                    \* history: where the head was, the bytes read since
    slipped, disturbed,             \* history: a head was cut, a reset hit a packet
    expected                        \* history: where the next packet starts

members == <<is_head_found, pack_read, pack_lack>>
reading == <<offset, count, nread, rest, tmp>>
history == <<start, body, slipped, disturbed, expected>>
vars == <<pos, members, length, size, pc, reading, wpc, fires, history>>

Init ==
    /\ pos = 0
    /\ is_head_found = FALSE /\ pack_read = 0 /\ pack_lack = 0
    /\ length = 0 /\ size = 0
    /\ pc = "top" /\ offset = 0 /\ count = 0 /\ nread = 0 /\ rest = FALSE /\ tmp = 0
    /\ wpc = "idle" /\ fires = 0
    /\ start = 0 /\ body = 0 /\ slipped = FALSE /\ disturbed = FALSE
    /\ expected = 0

Goto(p) == pc' = p

----------------------------------------------------------------------------
(* The receive thread *)

TestHead ==
    /\ pc = "top" /\ Goto(IF is_head_found THEN "body" ELSE "head")
    /\ UNCHANGED <<pos, members, length, size, reading, wpc, fires, history>>

\* The read of the head times out with n bytes, which are dropped.
HeadTimeout(n) ==
    /\ pc = "head" /\ Goto("top")
    /\ pos + n <= Total /\ pos' = pos + n
    /\ slipped' = (slipped \/ n > 0)
    /\ UNCHANGED <<members, length, size, reading, wpc, fires, start, body, disturbed,
                   expected>>

\* Eight bytes that are no head: check_head_valid_func fails.
HeadInvalid ==
    /\ pc = "head" /\ Goto("top")
    /\ pos + HeadSize <= Total /\ pos \notin Starts /\ pos' = pos + HeadSize
    /\ UNCHANGED <<members, length, size, reading, wpc, fires, history>>

\* Mutant: the buffer is not resized.
HeadFoundNoResize(len) ==
    /\ pc = "head" /\ Goto("body")
    /\ pos + HeadSize <= Total /\ pos' = pos + HeadSize
    /\ pos \in Starts => len = Length[pos]
    /\ is_head_found' = TRUE /\ length' = len
    /\ start' = pos /\ body' = 0
    /\ UNCHANGED <<size, pack_read, pack_lack, reading, wpc, fires, slipped, disturbed, expected>>

\* A head with its length; bytes from the middle of a packet may look like any head.
HeadFound(len) ==
    /\ pc = "head" /\ Goto("body")
    /\ pos + HeadSize <= Total /\ pos' = pos + HeadSize
    /\ pos \in Starts => len = Length[pos]
    /\ is_head_found' = TRUE /\ length' = len
    /\ size' = IF size < len THEN len ELSE size
    /\ start' = pos /\ body' = 0
    /\ UNCHANGED <<pack_read, pack_lack, reading, wpc, fires, slipped, disturbed, expected>>

\* A read throws serial::IOException, which the loop catches.
ReadThrows ==
    /\ pc \in {"head", "reading"} /\ Goto("top")
    /\ UNCHANGED <<pos, members, length, size, reading, wpc, fires, history>>

TestLack ==
    /\ pc = "body"
    /\ rest' = (pack_lack > 0)
    /\ IF pack_lack > 0
       THEN Goto("rest") /\ UNCHANGED <<offset, count>>
       ELSE Goto("reading") /\ offset' = 0 /\ count' = length
    /\ UNCHANGED <<pos, members, length, size, nread, tmp, wpc, fires, history>>

\* The arguments of the read of the rest.
ReadRest ==
    /\ pc = "rest" /\ Goto("reading")
    /\ offset' = pack_read /\ count' = pack_lack
    /\ UNCHANGED <<pos, members, length, size, nread, rest, tmp, wpc, fires, history>>

\* The read returns n bytes of the count it was asked for.
ReadReturns(n) ==
    /\ pc = "reading"
    /\ n <= count /\ pos + n <= Total
    /\ pos' = pos + n /\ nread' = n /\ body' = body + n
    /\ tmp' = IF rest THEN pack_read + n ELSE n
    /\ Goto(IF rest \/ n < length THEN "store_read" ELSE "check")
    /\ UNCHANGED <<members, length, size, offset, count, rest, wpc, fires, start, slipped,
                   disturbed, expected>>

StoreRead ==
    /\ pc = "store_read" /\ Goto("store_lack")
    /\ pack_read' = tmp
    /\ tmp' = (IF rest THEN pack_lack ELSE length) - nread
    /\ UNCHANGED <<pos, is_head_found, pack_lack, length, size, offset, count, nread, rest,
                   wpc, fires, history>>

StoreLack ==
    /\ pc = "store_lack" /\ Goto("check")
    /\ pack_lack' = tmp
    /\ UNCHANGED <<pos, is_head_found, pack_read, length, size, reading, wpc, fires, history>>

\* Mutant: one byte too few passes.
CheckLackOffByOne ==
    /\ pc = "check" /\ Goto(IF pack_lack > 1 THEN "top" ELSE "ready")
    /\ UNCHANGED <<pos, members, length, size, reading, wpc, fires, history>>

CheckLack ==
    /\ pc = "check" /\ Goto(IF pack_lack > 0 THEN "top" ELSE "ready")
    /\ UNCHANGED <<pos, members, length, size, reading, wpc, fires, history>>

\* The packet goes to handleTlvData, which returns or throws.
PackHandled ==
    /\ pc = "ready" /\ Goto("top")
    /\ pack_read' = 0 /\ is_head_found' = FALSE
    /\ expected' = pos
    /\ UNCHANGED <<pos, pack_lack, length, size, reading, wpc, fires, start, body, slipped,
                   disturbed>>

Receive ==
    \/ TestHead \/ HeadInvalid \/ ReadThrows \/ TestLack \/ ReadRest \/ StoreRead \/ StoreLack
    \/ CheckLack \/ PackHandled
    \/ \E n \in 0..(HeadSize - 1) : HeadTimeout(n)
    \/ \E n \in 0..MaxLen : HeadFound(n) \/ ReadReturns(n)

----------------------------------------------------------------------------
(* The watchdog's handler: three stores *)

\* Does the handler's reset meet a packet that is being received?
InPacket == pc \notin {"top", "head"} \/ is_head_found

ResetHead ==
    /\ wpc = "idle" /\ fires < MaxFires /\ wpc' = "read" /\ fires' = fires + 1
    /\ is_head_found' = FALSE
    /\ disturbed' = (disturbed \/ InPacket)
    /\ UNCHANGED <<pos, pack_read, pack_lack, length, size, pc, reading, start, body, slipped,
                   expected>>

ResetRead ==
    /\ wpc = "read" /\ wpc' = "lack"
    /\ pack_read' = 0
    /\ disturbed' = (disturbed \/ InPacket)
    /\ UNCHANGED <<pos, is_head_found, pack_lack, length, size, pc, reading, fires, start,
                   body, slipped, expected>>

ResetLack ==
    /\ wpc = "lack" /\ wpc' = "idle"
    /\ pack_lack' = 0
    /\ disturbed' = (disturbed \/ InPacket)
    /\ UNCHANGED <<pos, is_head_found, pack_read, length, size, pc, reading, fires, start,
                   body, slipped, expected>>

Watchdog == ResetHead \/ ResetRead \/ ResetLack

Next == Receive \/ Watchdog
Spec == Init /\ [][Next]_vars

----------------------------------------------------------------------------
(* Properties *)

PC == {"top", "head", "body", "rest", "reading", "store_read", "store_lack", "check", "ready"}

\* The variables have their types; what is left of a packet may go below zero only
\* when the watchdog has reset it (gemini_serial_port.cc:44-46, 281-290).
TypeOK ==
    /\ pos \in Nat
    /\ is_head_found \in BOOLEAN /\ pack_read \in Nat /\ pack_lack \in Int
    /\ length \in 0..MaxLen /\ size \in 0..MaxLen
    /\ pc \in PC /\ wpc \in {"idle", "read", "lack"} /\ fires \in Nat
    /\ offset \in Nat /\ count \in Int /\ nread \in 0..MaxLen /\ rest \in BOOLEAN /\ tmp \in Int
    /\ start \in Nat /\ body \in Nat /\ expected \in Nat
    /\ slipped \in BOOLEAN /\ disturbed \in BOOLEAN
    /\ ~disturbed => pack_lack >= 0

\* A read never goes past the end of recv_buffer, not even when the watchdog's
\* handler resets the members between the head and the body or in the middle of
\* an update (gemini_serial_port.cc:41-46, 276-290).
InBounds == pc = "reading" => offset + count <= size

\* A packet is handed on with exactly the bytes its head promised; if moreover no
\* head was cut by a timeout it is the packet the device sent after the last one:
\* none is lost, repeated or cut, however the reads are divided, as long as the
\* watchdog has not reset the members in the middle of a packet
\* (gemini_serial_port.cc:263-298).
PacketsIntact ==
    pc = "ready" /\ ~disturbed =>
        /\ body = length
        /\ ~slipped => start = expected /\ start \in Starts /\ length = Length[start]

\* "pack ready": a packet that is handed on is complete
\* (gemini_serial_port.cc:293-298).
PackReady == pc = "ready" => body >= length

=============================================================================
