------------------------ MODULE SerialReceiverProofs ------------------------
(***************************************************************************)
(* Proofs about SerialReceiver, for packets of any lengths, reads divided  *)
(* in any way and any number of resets by the watchdog: the types, that no *)
(* read goes past the end of recv_buffer, and that packets arrive intact.  *)
(***************************************************************************)
EXTENDS SerialReceiver, TLAPS

\* The types but for the sign of pack_lack, which follows from Reassembly.
Types ==
    /\ pos \in Nat
    /\ is_head_found \in BOOLEAN /\ pack_read \in Nat /\ pack_lack \in Int
    /\ length \in 0..MaxLen /\ size \in 0..MaxLen
    /\ pc \in PC /\ wpc \in {"idle", "read", "lack"} /\ fires \in Nat
    /\ offset \in Nat /\ count \in Int /\ nread \in 0..MaxLen /\ rest \in BOOLEAN /\ tmp \in Int
    /\ start \in Nat /\ body \in Nat /\ expected \in Nat
    /\ slipped \in BOOLEAN /\ disturbed \in BOOLEAN

\* What every read fits into, whatever the handler has reset: between the two stores
\* of an update it is the value still to be stored that is bounded.
Fits ==
    /\ length <= size /\ pack_read <= size
    /\ pc # "store_lack" /\ pack_lack > 0 => pack_read + pack_lack <= size
    /\ pc = "store_lack" /\ tmp > 0 => pack_read + tmp <= size
    /\ pc = "store_read" => tmp \in Nat /\ tmp <= size
    /\ pc = "store_read" /\ rest /\ pack_lack - nread > 0 => tmp + pack_lack - nread <= size
    /\ pc = "store_read" /\ ~rest => tmp = nread /\ nread < length
    /\ pc = "rest" => rest
    /\ pc = "reading" => offset + count <= size
    /\ pc = "reading" /\ rest => pack_read <= offset

\* A packet of which some bytes are there, and one of which none has been asked for.
Partial == pack_lack > 0 /\ body = pack_read /\ pack_read + pack_lack = length
Untouched == pack_lack = 0 /\ body = 0
Complete == pack_lack = 0 /\ body = length

\* What the members mean at each point of the loop, as long as no reset has hit a packet.
Reassembly ==
    /\ pc \notin {"top", "head"} => is_head_found
    /\ pc = "head" => ~is_head_found
    /\ ~is_head_found => pack_lack = 0
    /\ pc \in {"top", "body"} /\ is_head_found => Partial \/ Untouched
    /\ pc = "rest" => Partial
    /\ pc = "reading" /\ rest => Partial /\ count = pack_lack
    /\ pc = "reading" /\ ~rest => Untouched /\ count = length
    /\ pc = "store_read" => pack_lack >= 0 /\ body = tmp
    /\ pc = "store_read" /\ rest => tmp + pack_lack - nread = length /\ nread <= pack_lack
    /\ pc = "store_lack" => pack_lack >= 0 /\ pack_read = body /\ tmp = length - body /\ tmp >= 0
    /\ pc = "check" => Partial \/ Complete
    /\ pc = "ready" => Complete

\* Where on the line the thread is, if moreover no head was cut.
InStep ==
    /\ expected \in Starts \cup {Total}
    /\ ~InPacket => pos = expected
    /\ InPacket => /\ start = expected /\ start \in Starts /\ length = Length[start]
                   /\ pos = start + HeadSize + body

IInv ==
    /\ Types /\ Fits
    /\ ~disturbed => Reassembly
    /\ ~disturbed /\ ~slipped => InStep

----------------------------------------------------------------------------
LEMMA InvInit == Init => IInv
  <1> SUFFICES ASSUME Init PROVE IInv
    OBVIOUS
  <1>1. Types
    <2>1. /\ is_head_found \in BOOLEAN /\ rest \in BOOLEAN /\ slipped \in BOOLEAN
          /\ disturbed \in BOOLEAN
      BY Zenon DEF Init
    <2>2. /\ pos \in Nat /\ pack_read \in Nat /\ pack_lack \in Int /\ length \in 0..MaxLen
          /\ size \in 0..MaxLen /\ fires \in Nat /\ offset \in Nat /\ count \in Int
          /\ nread \in 0..MaxLen /\ tmp \in Int /\ start \in Nat /\ body \in Nat /\ expected \in Nat
      BY ReceiverAssumption DEF Init
    <2> QED
      BY <2>1, <2>2 DEF Init, Types, PC
  <1>2. Fits
    BY DEF Init, Fits
  <1>3. Reassembly
    BY DEF Init, Reassembly
  <1>4. InStep
    BY ReceiverAssumption DEF Init, InStep, InPacket
  <1> QED
    BY <1>1, <1>2, <1>3, <1>4 DEF IInv

LEMMA TypesStep ==
    ASSUME Types, Fits, [Next]_vars
    PROVE  Types'
  <1>1. ASSUME TestHead PROVE Types'
    BY <1>1 DEF TestHead, Goto, members, reading, history, Types, PC
  <1>2. ASSUME NEW n \in 0..(HeadSize - 1), HeadTimeout(n) PROVE Types'
    BY <1>2 DEF HeadTimeout, Goto, members, reading, Types, PC
  <1>3. ASSUME HeadInvalid PROVE Types'
    BY <1>3, ReceiverAssumption DEF HeadInvalid, Goto, members, reading, history, Types, PC
  <1>4. ASSUME NEW n \in 0..MaxLen, HeadFound(n) PROVE Types'
    BY <1>4, ReceiverAssumption DEF HeadFound, Goto, reading, Types, PC
  <1>5. ASSUME ReadThrows PROVE Types'
    BY <1>5 DEF ReadThrows, Goto, members, reading, history, Types, PC
  <1>6. ASSUME TestLack PROVE Types'
    BY <1>6 DEF TestLack, Goto, members, history, Types, PC
  <1>7. ASSUME ReadRest PROVE Types'
    BY <1>7 DEF ReadRest, Goto, members, history, Types, PC
  <1>8. ASSUME NEW n \in 0..MaxLen, ReadReturns(n) PROVE Types'
    BY <1>8 DEF ReadReturns, Goto, members, Types, PC
  <1>9. ASSUME StoreRead PROVE Types'
    BY <1>9 DEF StoreRead, Goto, history, Types, Fits, PC
  <1>10. ASSUME StoreLack PROVE Types'
    BY <1>10 DEF StoreLack, Goto, reading, history, Types, PC
  <1>11. ASSUME CheckLack PROVE Types'
    BY <1>11 DEF CheckLack, Goto, members, reading, history, Types, PC
  <1>12. ASSUME PackHandled PROVE Types'
    BY <1>12 DEF PackHandled, Goto, reading, Types, PC
  <1>13. ASSUME ResetHead PROVE Types'
    <2>1. is_head_found' \in BOOLEAN /\ disturbed' \in BOOLEAN
      BY <1>13, Zenon DEF ResetHead
    <2> QED
      BY <1>13, <2>1 DEF ResetHead, reading, Types
  <1>14. ASSUME ResetRead PROVE Types'
    BY <1>14 DEF ResetRead, reading, Types
  <1>15. ASSUME ResetLack PROVE Types'
    BY <1>15 DEF ResetLack, reading, Types
  <1>16. CASE UNCHANGED vars
    BY <1>16 DEF vars, members, reading, history, Types
  <1> QED
    BY <1>1, <1>2, <1>3, <1>4, <1>5, <1>6, <1>7, <1>8, <1>9, <1>10, <1>11, <1>12, <1>13, <1>14, <1>15, <1>16
       DEF Next, Receive, Watchdog

LEMMA FitsStep ==
    ASSUME Types, Types', Fits, [Next]_vars
    PROVE  Fits'
  <1>1. ASSUME TestHead PROVE Fits'
    BY <1>1 DEF TestHead, Goto, members, Fits
  <1>2. ASSUME NEW n \in 0..(HeadSize - 1), HeadTimeout(n) PROVE Fits'
    BY <1>2 DEF HeadTimeout, Goto, members, Fits
  <1>3. ASSUME HeadInvalid PROVE Fits'
    BY <1>3 DEF HeadInvalid, Goto, members, Fits
  <1>4. ASSUME NEW n \in 0..MaxLen, HeadFound(n) PROVE Fits'
    BY <1>4 DEF HeadFound, Goto, Types, Fits
  <1>5. ASSUME ReadThrows PROVE Fits'
    BY <1>5 DEF ReadThrows, Goto, members, Fits
  <1>6. ASSUME TestLack PROVE Fits'
    <2>1. CASE pack_lack > 0
      <3>1. rest' = TRUE /\ pc' = "rest"
        BY <1>6, <2>1 DEF TestLack, Goto
      <3> QED
        BY <1>6, <3>1 DEF TestLack, members, Fits
    <2>2. CASE ~(pack_lack > 0)
      <3>1. ~rest'
        BY <1>6, <2>2, Zenon DEF TestLack
      <3>2. pc' = "reading" /\ offset' = 0 /\ count' = length
        BY <1>6, <2>2 DEF TestLack, Goto
      <3> QED
        BY <1>6, <3>1, <3>2 DEF TestLack, members, Types, Fits
    <2> QED
      BY <2>1, <2>2
  <1>7. ASSUME ReadRest PROVE Fits'
    BY <1>7 DEF ReadRest, Goto, members, Types, Fits
  <1>8. ASSUME NEW n \in 0..MaxLen, ReadReturns(n) PROVE Fits'
    BY <1>8 DEF ReadReturns, Goto, members, Types, Fits
  <1>9. ASSUME StoreRead PROVE Fits'
    BY <1>9 DEF StoreRead, Goto, Types, Fits
  <1>10. ASSUME StoreLack PROVE Fits'
    BY <1>10 DEF StoreLack, Goto, Fits
  <1>11. ASSUME CheckLack PROVE Fits'
    BY <1>11 DEF CheckLack, Goto, members, Fits
  <1>12. ASSUME PackHandled PROVE Fits'
    BY <1>12 DEF PackHandled, Goto, Types, Fits
  <1>13. ASSUME ResetHead PROVE Fits'
    BY <1>13 DEF ResetHead, reading, Fits
  <1>14. ASSUME ResetRead PROVE Fits'
    BY <1>14 DEF ResetRead, reading, Types, Fits
  <1>15. ASSUME ResetLack PROVE Fits'
    BY <1>15 DEF ResetLack, reading, Types, Fits
  <1>16. CASE UNCHANGED vars
    BY <1>16 DEF vars, members, reading, Fits
  <1> QED
    BY <1>1, <1>2, <1>3, <1>4, <1>5, <1>6, <1>7, <1>8, <1>9, <1>10, <1>11, <1>12, <1>13, <1>14, <1>15, <1>16
       DEF Next, Receive, Watchdog

LEMMA ReassemblyStep ==
    ASSUME Types, Types', Fits, Reassembly, ~disturbed', [Next]_vars
    PROVE  Reassembly'
  <1>1. ASSUME TestHead PROVE Reassembly'
    BY <1>1 DEF TestHead, Goto, members, history, Reassembly, Partial, Untouched
  <1>2. ASSUME NEW n \in 0..(HeadSize - 1), HeadTimeout(n) PROVE Reassembly'
    BY <1>2 DEF HeadTimeout, Goto, members, Reassembly
  <1>3. ASSUME HeadInvalid PROVE Reassembly'
    BY <1>3 DEF HeadInvalid, Goto, members, Reassembly
  <1>4. ASSUME NEW n \in 0..MaxLen, HeadFound(n) PROVE Reassembly'
    BY <1>4 DEF HeadFound, Goto, Reassembly, Untouched
  <1>5. ASSUME ReadThrows PROVE Reassembly'
    BY <1>5 DEF ReadThrows, Goto, members, history, Reassembly, Partial, Untouched
  <1>6. ASSUME TestLack PROVE Reassembly'
    BY <1>6 DEF TestLack, Goto, members, history, Types, Reassembly, Partial, Untouched
  <1>7. ASSUME ReadRest PROVE Reassembly'
    BY <1>7 DEF ReadRest, Fits, Goto, members, history, Reassembly, Partial
  <1>8. ASSUME NEW n \in 0..MaxLen, ReadReturns(n) PROVE Reassembly'
    BY <1>8 DEF ReadReturns, Goto, members, Types, Reassembly, Partial, Untouched, Complete
  <1>9. ASSUME StoreRead PROVE Reassembly'
    BY <1>9 DEF StoreRead, Fits, Goto, history, Types, Reassembly
  <1>10. ASSUME StoreLack PROVE Reassembly'
    BY <1>10 DEF StoreLack, Goto, history, Types, Reassembly, Partial, Complete
  <1>11. ASSUME CheckLack PROVE Reassembly'
    BY <1>11 DEF CheckLack, Goto, members, history, Reassembly, Partial, Complete
  <1>12. ASSUME PackHandled PROVE Reassembly'
    BY <1>12 DEF PackHandled, Goto, Reassembly, Complete
  <1>13. ASSUME ResetHead PROVE Reassembly'
    BY <1>13 DEF ResetHead, Reassembly, InPacket
  <1>14. ASSUME ResetRead PROVE Reassembly'
    BY <1>14 DEF ResetRead, Reassembly, InPacket
  <1>15. ASSUME ResetLack PROVE Reassembly'
    BY <1>15 DEF ResetLack, Reassembly, InPacket
  <1>16. CASE UNCHANGED vars
    BY <1>16 DEF vars, members, reading, history, Reassembly, Partial, Untouched, Complete
  <1> QED
    BY <1>1, <1>2, <1>3, <1>4, <1>5, <1>6, <1>7, <1>8, <1>9, <1>10, <1>11, <1>12, <1>13, <1>14, <1>15, <1>16
       DEF Next, Receive, Watchdog

LEMMA InStepStep ==
    ASSUME Types, Types', Reassembly, InStep, ~disturbed', ~slipped', [Next]_vars
    PROVE  InStep'
  <1>1. ASSUME TestHead PROVE InStep'
    BY <1>1 DEF TestHead, Goto, members, history, InStep, InPacket
  <1>2. ASSUME NEW n \in 0..(HeadSize - 1), HeadTimeout(n) PROVE InStep'
    <2>0. ~(n > 0)
      BY <1>2, Zenon DEF HeadTimeout
    <2>1. n = 0 /\ pos' = pos
      BY <1>2, <2>0 DEF HeadTimeout, Types
    <2> QED
      BY <1>2, <2>1 DEF HeadTimeout, Goto, members, InStep, InPacket
  <1>3. ASSUME HeadInvalid PROVE InStep'
    BY <1>3, ReceiverAssumption DEF HeadInvalid, Reassembly, InStep, InPacket
  <1>4. ASSUME NEW n \in 0..MaxLen, HeadFound(n) PROVE InStep'
    BY <1>4, ReceiverAssumption DEF HeadFound, Reassembly, InStep, InPacket
  <1>5. ASSUME ReadThrows PROVE InStep'
    BY <1>5 DEF ReadThrows, Goto, members, history, Reassembly, InStep, InPacket
  <1>6. ASSUME TestLack PROVE InStep'
    BY <1>6 DEF TestLack, members, history, Reassembly, InStep, InPacket
  <1>7. ASSUME ReadRest PROVE InStep'
    BY <1>7 DEF ReadRest, members, history, Reassembly, InStep, InPacket
  <1>8. ASSUME NEW n \in 0..MaxLen, ReadReturns(n) PROVE InStep'
    BY <1>8, ReceiverAssumption DEF ReadReturns, members, Types, Reassembly, InStep, InPacket
  <1>9. ASSUME StoreRead PROVE InStep'
    BY <1>9 DEF StoreRead, history, Reassembly, InStep, InPacket
  <1>10. ASSUME StoreLack PROVE InStep'
    BY <1>10 DEF StoreLack, history, Reassembly, InStep, InPacket
  <1>11. ASSUME CheckLack PROVE InStep'
    BY <1>11 DEF CheckLack, members, history, Reassembly, InStep, InPacket
  <1>12. ASSUME PackHandled PROVE InStep'
    BY <1>12, ReceiverAssumption DEF PackHandled, Goto, Reassembly, InStep, InPacket, Complete
  <1>13. ASSUME ResetHead PROVE InStep'
    BY <1>13 DEF ResetHead, InStep, InPacket
  <1>14. ASSUME ResetRead PROVE InStep'
    BY <1>14 DEF ResetRead, InStep, InPacket
  <1>15. ASSUME ResetLack PROVE InStep'
    BY <1>15 DEF ResetLack, InStep, InPacket
  <1>16. CASE UNCHANGED vars
    BY <1>16 DEF vars, members, history, InStep, InPacket
  <1> QED
    BY <1>1, <1>2, <1>3, <1>4, <1>5, <1>6, <1>7, <1>8, <1>9, <1>10, <1>11, <1>12, <1>13, <1>14, <1>15, <1>16
       DEF Next, Receive, Watchdog

----------------------------------------------------------------------------
\* What has happened has happened.
LEMMA HistoryStays == [Next]_vars => (disturbed => disturbed') /\ (slipped => slipped')
  <1> SUFFICES ASSUME [Next]_vars PROVE (disturbed => disturbed') /\ (slipped => slipped')
    OBVIOUS
  <1>1. ASSUME TestHead \/ HeadInvalid \/ ReadThrows \/ TestLack \/ ReadRest \/ StoreRead \/ StoreLack
               \/ CheckLack \/ PackHandled
        PROVE  disturbed' = disturbed /\ slipped' = slipped
    BY <1>1 DEF TestHead, HeadInvalid, ReadThrows, TestLack, ReadRest, StoreRead, StoreLack,
                CheckLack, PackHandled, history
  <1>2. ASSUME NEW n, HeadFound(n) \/ ReadReturns(n) PROVE disturbed' = disturbed /\ slipped' = slipped
    BY <1>2 DEF HeadFound, ReadReturns
  <1>3. ASSUME NEW n, HeadTimeout(n) PROVE disturbed' = disturbed /\ (slipped => slipped')
    BY <1>3, Zenon DEF HeadTimeout
  <1>4. ASSUME Watchdog PROVE slipped' = slipped /\ (disturbed => disturbed')
    BY <1>4, Zenon DEF Watchdog, ResetHead, ResetRead, ResetLack
  <1>5. CASE UNCHANGED vars
    BY <1>5 DEF vars, history
  <1>6. ASSUME Receive PROVE (disturbed => disturbed') /\ (slipped => slipped')
    BY <1>1, <1>2, <1>3, <1>6 DEF Receive
  <1> QED
    BY <1>4, <1>5, <1>6 DEF Next

LEMMA InvStep == IInv /\ [Next]_vars => IInv'
  <1> SUFFICES ASSUME IInv, [Next]_vars PROVE IInv'
    OBVIOUS
  <1>1. Types' /\ Fits'
    BY TypesStep, FitsStep DEF IInv
  <1>2. (disturbed => disturbed') /\ (slipped => slipped')
    BY HistoryStays
  <1>3. ~disturbed' => Reassembly'
    BY <1>1, <1>2, ReassemblyStep DEF IInv
  <1>4. ~disturbed' /\ ~slipped' => InStep'
    BY <1>1, <1>2, InStepStep DEF IInv
  <1> QED
    BY <1>1, <1>3, <1>4 DEF IInv

\* The inductive invariant, of the receive thread and the handler together.
THEOREM Invariant == Spec => []IInv
  BY InvInit, InvStep, PTL DEF Spec

\* The types; pack_lack falls below zero only if the watchdog's handler has reset
\* the members in the middle of a packet (gemini_serial_port.cc:44-46, 281-290).
THEOREM TypeCorrect == Spec => []TypeOK
  <1>1. IInv => TypeOK
    <2> SUFFICES ASSUME IInv PROVE TypeOK
      OBVIOUS
    <2>1. ~disturbed => pack_lack >= 0
      BY DEF IInv, Types, PC, Reassembly, Partial, Untouched, Complete
    <2> QED
      BY <2>1 DEF IInv, Types, TypeOK
  <1> QED
    BY <1>1, Invariant, PTL

\* No read goes past the end of recv_buffer, for any packets and any resets by the
\* watchdog's handler (gemini_serial_port.cc:276-290).
THEOREM BufferSafe == Spec => []InBounds
  <1>1. IInv => InBounds
    BY DEF IInv, Fits, InBounds
  <1> QED
    BY <1>1, Invariant, PTL

\* A packet that no reset has hit is handed on with the bytes its head promised; if
\* no head was cut it is the one the device sent next (gemini_serial_port.cc:263-298).
THEOREM PacketsArriveIntact == Spec => []PacketsIntact
  <1>1. IInv => PacketsIntact
    <2> SUFFICES ASSUME IInv, pc = "ready", ~disturbed
                 PROVE  /\ body = length
                        /\ ~slipped => start = expected /\ start \in Starts /\ length = Length[start]
      BY DEF PacketsIntact
    <2>1. body = length
      BY DEF IInv, Reassembly, Complete
    <2>2. InPacket
      BY DEF InPacket
    <2> QED
      BY <2>1, <2>2 DEF IInv, InStep
  <1> QED
    BY <1>1, Invariant, PTL
=============================================================================
