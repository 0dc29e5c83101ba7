---------------------------- MODULE DeviceProofs ----------------------------
(***************************************************************************)
(* Proofs about the parts that Devices puts side by side, for any sets of  *)
(* threads, sessions, users and variables and for every bound.             *)
(*   BulkExchange: the types with the ownership of bulk_mutex_ and of the  *)
(*     interface; no call returns a concurrent call's answer.              *)
(*   UsbSession: a device that is there owns the interfaces it claimed.    *)
(*   PipelineConfig: a cached profile fits the request.                    *)
(*   DeviceHandles: kept sensors are usable; with one camera at a time the *)
(*     holders of a device are told when it goes.                          *)
(***************************************************************************)
EXTENDS Devices, TLAPS, FiniteSetTheorems, SequenceTheorems, WellFoundedInduction

\* Each call's number is its own, and is not larger than the counter.
Numbered ==
    /\ \A t \in Threads : call[t].at # "idle" => call[t].id \in 1 .. calls
    /\ \A t, u \in Threads :
          t # u /\ call[t].at # "idle" /\ call[u].at # "idle" => call[t].id # call[u].id

\* What may be on its way to or from the camera: requests of calls that ended without
\* their answer, late frames, and the request of the call that waits for its answer.
Accounted(n) ==
    n \in unpaired \/ \E t \in Threads : call[t].at = "receive" /\ call[t].id = n

\* A request that is still to be sent is not on its way.
Fresh(n) == \A t \in Threads : call[t].at \in {"lock", "send"} => call[t].id # n

In(n, q) == \E i \in 1 .. Len(q) : q[i] = n
Way(n) == In(n, requests) \/ In(n, answers)
OnItsWay == \A n \in Nat : Way(n) => n <= calls /\ Accounted(n) /\ Fresh(n)

\* No request is on its way twice; late frames may be.
Distinct(q) == \A i, j \in 1 .. Len(q) : q[i] = q[j] => i = j \/ q[i] = Frame
OnceOf(r, a) == Distinct(r) /\ Distinct(a) /\ \A n : In(n, r) /\ In(n, a) => n = Frame
Once == OnceOf(requests, answers)

IInv == TypeOK /\ Numbered /\ OnItsWay /\ Once /\ Frame \in unpaired /\ OwnOrLeftover

----------------------------------------------------------------------------
\* bulk_mutex_ and the claimed interface together admit one transferring call.
LEMMA OneSends ==
    ASSUME TypeOK, NEW t \in Threads, NEW u \in Threads, Sent(t), Sent(u)
    PROVE  t = u
  BY NamesAssumption DEF TypeOK, Sent, Kinds

LEMMA TailIsSeq == ASSUME NEW q \in Seq(Nat), q # <<>> PROVE Tail(q) \in Seq(Nat) /\ Head(q) \in Nat
  OBVIOUS

LEMMA AppendIsSeq == ASSUME NEW q \in Seq(Nat), NEW n \in Nat PROVE Append(q, n) \in Seq(Nat)
  OBVIOUS

\* What Returns does to the call, the mutex and the interface keeps the types.
LEMMA ReturnsType ==
    ASSUME TypeOK, NEW t \in Threads, Sent(t), NEW status \in {"SUCCESS", "ERROR"},
           NEW answer \in Nat, Returns(t, status, answer),
           requests' \in Seq(Nat), answers' \in Seq(Nat), calls' \in Nat, faults' \in Nat
    PROVE  TypeOK'
  <1>1. \A u \in Threads : Sent(u) => u = t
    BY OneSends
  <1>2. call' \in [Threads -> [at : {"idle", "lock", "send", "receive"}, kind : Kinds, id : Nat]]
    BY DEF TypeOK, Returns, Idle, Kinds
  <1>3. result' \in [Threads -> [id : Nat, status : {"none", "SUCCESS", "ERROR"}, answer : Nat]]
    BY DEF TypeOK, Returns
  <1>4. unpaired' \subseteq Nat
    BY DEF TypeOK, Returns
  <1>5. call'[t].at = "idle" /\ \A u \in Threads \ {t} : call'[u] = call[u]
    BY DEF TypeOK, Returns, Idle
  <1>6. CASE call[t].kind = "command"
    <2>1. claim = t /\ claim' = NoOne /\ bulk_mutex' = bulk_mutex
      BY <1>6 DEF TypeOK, Returns, Release
    <2>2. \A u \in Threads \ {t} : call[u].at # "idle" => call[u].kind = "command" /\ ~Sent(u)
      BY <1>1, <2>1, NamesAssumption DEF TypeOK
    <2>3. \A u \in Threads : bulk_mutex # u /\ claim' # u /\ ~Sent(u)'
      BY <1>1, <1>5, <1>6, <2>1, NamesAssumption DEF TypeOK, Sent
    <2>4. \A u \in Threads : call'[u].at # "idle" => call'[u].kind = "command" /\ call'[u].at # "lock"
      BY <1>5, <2>2 DEF TypeOK
    <2> QED
      BY <1>2, <1>3, <1>4, <2>1, <2>3, <2>4 DEF TypeOK
  <1>7. CASE call[t].kind # "command"
    <2>1. bulk_mutex = t /\ bulk_mutex' = NoOne /\ claim' = claim
      BY <1>7 DEF TypeOK, Returns, Release
    <2>2. claim = Device /\ \A u \in Threads : bulk_mutex' # u /\ claim' # u /\ ~Sent(u)'
      BY <1>1, <1>5, <1>7, <2>1, NamesAssumption DEF TypeOK, Sent
    <2>3. \A u \in Threads : call'[u].at = "lock" => call'[u].kind # "command"
      BY <1>5 DEF TypeOK
    <2> QED
      BY <1>2, <1>3, <1>4, <2>1, <2>2, <2>3 DEF TypeOK
  <1> QED
    BY <1>6, <1>7

LEMMA TypeInit == Init => TypeOK
  BY NamesAssumption DEF Init, TypeOK, Sent, Idle, Nothing, Kinds, Frame

LEMMA TypeStep == TypeOK /\ [Next]_vars => TypeOK'
  <1> SUFFICES ASSUME TypeOK, [Next]_vars PROVE TypeOK'
    OBVIOUS
  <1>1. ASSUME CreateDevice PROVE TypeOK'
    BY <1>1, NamesAssumption DEF CreateDevice, TypeOK, Sent, camera
  <1>2. ASSUME DestroyDevice PROVE TypeOK'
    BY <1>2, NamesAssumption DEF DestroyDevice, TypeOK, Sent, camera
  <1>3. ASSUME CameraAnswers PROVE TypeOK'
    <2>1. requests' \in Seq(Nat) /\ answers' \in Seq(Nat)
      BY <1>3, TailIsSeq, AppendIsSeq DEF CameraAnswers, TypeOK
    <2> QED
      BY <1>3, <2>1 DEF CameraAnswers, TypeOK, Sent
  <1>4. ASSUME FrameArrives PROVE TypeOK'
    BY <1>4 DEF FrameArrives, Fault, Frame, TypeOK, Sent
  <1>5. ASSUME NEW t \in Threads, NEW kind \in Kinds, Begin(t, kind) PROVE TypeOK'
    BY <1>5, NamesAssumption DEF Begin, TypeOK, Sent, Kinds, camera
  <1>6. ASSUME NEW t \in Threads, BeginCommand(t) PROVE TypeOK'
    <2>1. CASE claim = NoOne
      <3>1. /\ claim' = t /\ UNCHANGED <<result, unpaired, bulk_mutex, requests, answers, faults>>
            /\ call' = [call EXCEPT ![t] = [at |-> "send", kind |-> "command", id |-> calls + 1]]
            /\ call[t].at = "idle" /\ calls' = calls + 1
        BY <1>6, <2>1 DEF BeginCommand, camera
      <3>2. \A u \in Threads : call[u].at # "idle" => call[u].kind = "command" /\ ~Sent(u)
        BY <2>1, NamesAssumption DEF TypeOK, Sent, NoOne, Device
      <3> QED
        BY <2>1, <3>1, <3>2, NamesAssumption DEF TypeOK, Sent, Kinds
    <2>2. CASE claim # NoOne
      <3>1. /\ UNCHANGED <<claim, call, bulk_mutex, requests, answers, faults>> /\ calls' = calls + 1
            /\ result' = [result EXCEPT ![t] = [id |-> calls + 1, status |-> "ERROR", answer |-> 0]]
            /\ unpaired' = unpaired \cup {calls + 1}
        BY <1>6, <2>2 DEF BeginCommand, camera
      <3>2. result' \in [Threads -> [id : Nat, status : {"none", "SUCCESS", "ERROR"}, answer : Nat]]
        BY <3>1 DEF TypeOK
      <3> QED
        BY <3>1, <3>2 DEF TypeOK, Sent
    <2> QED
      BY <2>1, <2>2
  <1>7. ASSUME NEW t \in Threads, Lock(t) PROVE TypeOK'
    <2>1. call[t].kind # "command" /\ claim = Device
      BY <1>7 DEF Lock, TypeOK
    <2> QED
      BY <1>7, <2>1, NamesAssumption DEF Lock, Moves, TypeOK, Sent, Kinds, camera
  <1>8. ASSUME NEW t \in Threads, Send(t) PROVE TypeOK'
    BY <1>8 DEF Send, Moves, TypeOK, Sent, Kinds
  <1>9. ASSUME NEW t \in Threads, StreamWrite(t) PROVE TypeOK'
    <2>1. /\ requests' \in Seq(Nat) /\ answers' \in Seq(Nat) /\ calls' \in Nat /\ faults' \in Nat
          /\ Sent(t)
      BY <1>9 DEF StreamWrite, TypeOK, Sent
    <2>2. \E status \in {"SUCCESS", "ERROR"}, answer \in Nat : Returns(t, status, answer)
      BY <1>9 DEF StreamWrite, TypeOK, Frame
    <2> QED
      BY <2>1, <2>2, ReturnsType
  <1>10. ASSUME NEW t \in Threads, SendFails(t) PROVE TypeOK'
    <2>1. requests' \in Seq(Nat) /\ answers' \in Seq(Nat)
      <3>1. requests \in Seq(Nat) /\ answers' \in Seq(Nat) /\ call[t].id \in Nat
        BY <1>10 DEF SendFails, TypeOK
      <3>2. Append(requests, call[t].id) \in Seq(Nat)
        BY <3>1, AppendIsSeq
      <3> QED
        BY <1>10, <3>1, <3>2 DEF SendFails
    <2>3. calls' \in Nat /\ faults' \in Nat /\ Sent(t)
      BY <1>10 DEF SendFails, TypeOK, Sent, Fault
    <2>2. \E status \in {"SUCCESS", "ERROR"}, answer \in Nat : Returns(t, status, answer)
      BY <1>10 DEF SendFails, TypeOK, Frame
    <2> QED
      BY <2>1, <2>2, <2>3, ReturnsType
  <1>11. ASSUME NEW t \in Threads, Receive(t) PROVE TypeOK'
    <2>1. /\ requests' \in Seq(Nat) /\ answers' \in Seq(Nat) /\ calls' \in Nat /\ faults' \in Nat
          /\ Sent(t)
      BY <1>11 DEF Receive, TypeOK, Sent
    <2>2. \E status \in {"SUCCESS", "ERROR"}, answer \in Nat : Returns(t, status, answer)
      BY <1>11 DEF Receive, TypeOK, Frame
    <2> QED
      BY <2>1, <2>2, ReturnsType
  <1>12. ASSUME NEW t \in Threads, ReceiveFails(t) PROVE TypeOK'
    <2>1. requests' \in Seq(Nat) /\ answers' \in Seq(Nat)
      BY <1>12, TailIsSeq DEF ReceiveFails, TypeOK
    <2>3. calls' \in Nat /\ faults' \in Nat /\ Sent(t)
      BY <1>12 DEF ReceiveFails, TypeOK, Sent, Fault
    <2>2. \E status \in {"SUCCESS", "ERROR"}, answer \in Nat : Returns(t, status, answer)
      BY <1>12 DEF ReceiveFails, TypeOK, Frame
    <2> QED
      BY <2>1, <2>2, <2>3, ReturnsType
  <1>13. ASSUME NEW t \in Threads, SendCommand(t) PROVE TypeOK'
    <2>1. CASE /\ requests' = Append(requests, call[t].id) /\ Moves(t, "receive")
               /\ UNCHANGED <<bulk_mutex, claim, result, unpaired, faults>>
      BY <1>13, <2>1 DEF SendCommand, Moves, TypeOK, Sent, Kinds
    <2>2. CASE Fault /\ requests' \in {requests, Append(requests, call[t].id)} /\ Returns(t, "ERROR", Frame)
      <3>1. requests' \in Seq(Nat) /\ answers' \in Seq(Nat)
        <4>1. requests \in Seq(Nat) /\ answers' \in Seq(Nat) /\ call[t].id \in Nat
          BY <1>13 DEF SendCommand, TypeOK
        <4>2. Append(requests, call[t].id) \in Seq(Nat)
          BY <4>1, AppendIsSeq
        <4> QED
          BY <2>2, <4>1, <4>2
      <3>2. calls' \in Nat /\ faults' \in Nat /\ Sent(t) /\ Frame \in Nat
        BY <1>13, <2>2 DEF SendCommand, Fault, TypeOK, Sent, Frame
      <3> QED
        BY <2>2, <3>1, <3>2, ReturnsType
    <2> QED
      BY <1>13, <2>1, <2>2 DEF SendCommand
  <1>14. ASSUME NEW t \in Threads, ReceiveCommand(t) PROVE TypeOK'
    <2>1. requests' \in Seq(Nat) /\ answers' \in Seq(Nat)
      BY <1>14, TailIsSeq DEF ReceiveCommand, TypeOK
    <2>3. calls' \in Nat /\ faults' \in Nat /\ Sent(t)
      BY <1>14 DEF ReceiveCommand, TypeOK, Sent, Fault
    <2>2. \E status \in {"SUCCESS", "ERROR"}, answer \in Nat : Returns(t, status, answer)
      BY <1>14 DEF ReceiveCommand, TypeOK, Frame
    <2> QED
      BY <2>1, <2>2, <2>3, ReturnsType
  <1>15. CASE UNCHANGED vars
    BY <1>15 DEF vars, camera, TypeOK, Sent
  <1> QED
    BY <1>1, <1>2, <1>3, <1>4, <1>5, <1>6, <1>7, <1>8, <1>9, <1>10, <1>11, <1>12, <1>13, <1>14,
       <1>15
       DEF Next, Thread, Done

\* The types, and what a transferring call holds: bulk_mutex_ and the device's
\* interface, or an interface of its own (GeminiDevice, UsbCommandTransfer).
THEOREM TypeCorrect == Spec => []TypeOK
  BY TypeInit, TypeStep, PTL DEF Spec

----------------------------------------------------------------------------
(* The queues *)

LEMMA TailElements ==
    ASSUME NEW q \in Seq(Nat), q # <<>>
    PROVE  /\ Len(q) \in Nat /\ Len(q) > 0 /\ Len(Tail(q)) = Len(q) - 1 /\ Head(q) = q[1]
           /\ \A i \in 1 .. Len(Tail(q)) : Tail(q)[i] = q[i + 1]
  OBVIOUS

LEMMA AppendElements ==
    ASSUME NEW q \in Seq(Nat), NEW n \in Nat
    PROVE  /\ Len(q) \in Nat /\ Len(Append(q, n)) = Len(q) + 1
           /\ \A i \in 1 .. Len(q) : Append(q, n)[i] = q[i]
           /\ Append(q, n)[Len(q) + 1] = n
  OBVIOUS

LEMMA InTail ==
    ASSUME NEW q \in Seq(Nat), q # <<>>
    PROVE  In(Head(q), q) /\ \A n : In(n, Tail(q)) => In(n, q)
  BY TailElements DEF In

LEMMA InAppend ==
    ASSUME NEW q \in Seq(Nat), NEW m \in Nat
    PROVE  \A n : In(n, Append(q, m)) => In(n, q) \/ n = m
  BY AppendElements DEF In

LEMMA DistinctTail ==
    ASSUME NEW q \in Seq(Nat), q # <<>>, Distinct(q)
    PROVE  Distinct(Tail(q)) /\ (In(Head(q), Tail(q)) => Head(q) = Frame)
  <1>1. ASSUME NEW i \in 1 .. Len(Tail(q)), NEW j \in 1 .. Len(Tail(q)), Tail(q)[i] = Tail(q)[j]
        PROVE  i = j \/ Tail(q)[i] = Frame
    <2>1. i + 1 \in 1 .. Len(q) /\ j + 1 \in 1 .. Len(q) /\ Tail(q)[i] = q[i + 1] /\ Tail(q)[j] = q[j + 1]
      BY TailElements
    <2> QED
      BY <1>1, <2>1 DEF Distinct
  <1>2. ASSUME NEW i \in 1 .. Len(Tail(q)), Tail(q)[i] = Head(q) PROVE Head(q) = Frame
    <2>1. i + 1 \in 1 .. Len(q) /\ 1 \in 1 .. Len(q) /\ i + 1 # 1 /\ q[i + 1] = q[1] /\ q[1] = Head(q)
      BY <1>2, TailElements
    <2> QED
      BY <2>1 DEF Distinct
  <1> QED
    BY <1>1, <1>2 DEF Distinct, In

LEMMA DistinctAppend ==
    ASSUME NEW q \in Seq(Nat), Distinct(q), NEW n \in Nat, In(n, q) => n = Frame
    PROVE  Distinct(Append(q, n))
  <1> SUFFICES ASSUME NEW i \in 1 .. Len(Append(q, n)), NEW j \in 1 .. Len(Append(q, n)), i # j,
                      Append(q, n)[i] = Append(q, n)[j]
               PROVE  Append(q, n)[i] = Frame
    BY DEF Distinct
  <1>1. CASE i \in 1 .. Len(q) /\ j \in 1 .. Len(q)
    BY <1>1, AppendElements DEF Distinct
  <1>2. CASE i = Len(q) + 1
    BY <1>2, AppendElements DEF In
  <1>3. CASE j = Len(q) + 1
    BY <1>3, AppendElements DEF In
  <1> QED
    BY <1>1, <1>2, <1>3, AppendElements

LEMMA OnceTaken ==
    ASSUME NEW r \in Seq(Nat), NEW a \in Seq(Nat), OnceOf(r, a), r # <<>>
    PROVE  OnceOf(Tail(r), a) /\ OnceOf(Tail(r), Append(a, Head(r)))
  <1>1. Head(r) \in Nat /\ Distinct(Tail(r)) /\ (In(Head(r), a) => Head(r) = Frame)
    BY TailIsSeq, DistinctTail, InTail DEF OnceOf
  <1>2. Distinct(Append(a, Head(r)))
    BY <1>1, DistinctAppend DEF OnceOf
  <1>3. ASSUME NEW n, In(n, Tail(r)), In(n, Append(a, Head(r))) PROVE n = Frame
    <2>1. In(n, r) /\ (In(n, a) \/ n = Head(r))
      BY <1>1, <1>3, InTail, InAppend
    <2> QED
      BY <1>3, <2>1, DistinctTail DEF OnceOf
  <1>4. ASSUME NEW n, In(n, Tail(r)), In(n, a) PROVE n = Frame
    BY <1>4, InTail DEF OnceOf
  <1> QED
    BY <1>1, <1>2, <1>3, <1>4 DEF OnceOf

LEMMA OnceSent ==
    ASSUME NEW r \in Seq(Nat), NEW a \in Seq(Nat), OnceOf(r, a), NEW n \in Nat, ~In(n, r), ~In(n, a)
    PROVE  OnceOf(Append(r, n), a)
  <1>1. Distinct(Append(r, n))
    BY DistinctAppend DEF OnceOf
  <1> QED
    BY <1>1, InAppend DEF OnceOf

LEMMA OnceFrame ==
    ASSUME NEW r \in Seq(Nat), NEW a \in Seq(Nat), OnceOf(r, a)
    PROVE  OnceOf(r, Append(a, Frame))
  <1>1. Frame \in Nat
    BY DEF Frame
  <1>2. Distinct(Append(a, Frame))
    BY <1>1, DistinctAppend DEF OnceOf
  <1> QED
    BY <1>1, <1>2, InAppend DEF OnceOf

LEMMA OnceRead ==
    ASSUME NEW r \in Seq(Nat), NEW a \in Seq(Nat), OnceOf(r, a), a # <<>>
    PROVE  OnceOf(r, Tail(a)) /\ (Head(a) # Frame => ~In(Head(a), Tail(a)) /\ ~In(Head(a), r))
  BY DistinctTail, InTail DEF OnceOf

----------------------------------------------------------------------------
(* A call that ends, for whatever reason *)

\* Its request, if it is on its way, belongs to a call that ended without its answer.
LEMMA ReturnsKeeps ==
    ASSUME IInv, TypeOK', NEW t \in Threads, Sent(t), NEW status, NEW answer \in Nat,
           Returns(t, status, answer), calls' = calls,
           \A n \in Nat : Way(n)' => Way(n) \/ n = call[t].id,
           answer = call[t].id => ~Way(answer)',
           status = "SUCCESS" => answer \in {call[t].id} \cup unpaired
    PROVE  Numbered' /\ OnItsWay' /\ Frame \in unpaired' /\ OwnOrLeftover'
  <1>1. /\ call'[t] = Idle /\ \A u \in Threads \ {t} : call'[u] = call[u]
        /\ unpaired \subseteq unpaired'
        /\ answer # call[t].id => call[t].id \in unpaired'
    BY DEF Returns, IInv, TypeOK
  <1>2. call'[t].at = "idle"
    BY <1>1 DEF Idle
  <1>3. Numbered'
    BY <1>1, <1>2 DEF IInv, Numbered
  <1>4. ASSUME NEW n \in Nat, Way(n)' PROVE n <= calls' /\ Accounted(n)' /\ Fresh(n)'
    <2>0. call[t].at # "idle" /\ call[t].id \in 1 .. calls /\ calls \in Nat
      BY DEF IInv, Numbered, Sent, TypeOK
    <2>1. CASE n = call[t].id
      <3>1. n \in unpaired'
        BY <1>1, <1>4, <2>1
      <3>2. Fresh(n)'
        BY <1>1, <1>2, <2>0, <2>1 DEF IInv, Numbered, Fresh
      <3> QED
        BY <2>0, <2>1, <3>1, <3>2 DEF Accounted
    <2>2. CASE n # call[t].id
      <3>1. n <= calls /\ Accounted(n) /\ Fresh(n)
        BY <1>4, <2>2 DEF IInv, OnItsWay
      <3>2. Accounted(n)'
        BY <1>1, <2>2, <3>1 DEF Accounted
      <3>3. Fresh(n)'
        BY <1>1, <1>2, <3>1 DEF Fresh
      <3> QED
        BY <3>1, <3>2, <3>3
    <2> QED
      BY <2>1, <2>2
  <1>5. OnItsWay'
    BY <1>4 DEF OnItsWay
  <1>6. OwnOrLeftover'
    <2>1. /\ result'[t] = [id |-> call[t].id, status |-> status, answer |-> answer]
          /\ \A u \in Threads \ {t} : result'[u] = result[u]
      BY DEF Returns, IInv, TypeOK
    <2> QED
      BY <1>1, <2>1 DEF IInv, OwnOrLeftover
  <1> QED
    BY <1>1, <1>3, <1>5, <1>6 DEF IInv

\* Without an answer: the number of the call is not that of a frame.
LEMMA NotFrame == ASSUME IInv, NEW t \in Threads, Sent(t) PROVE call[t].id # Frame /\ call[t].id \in Nat
  <1>1. call[t].at # "idle" /\ calls \in Nat
    BY DEF IInv, Sent, TypeOK
  <1>2. call[t].id \in 1 .. calls
    BY <1>1 DEF IInv, Numbered
  <1> QED
    BY <1>1, <1>2 DEF Frame

LEMMA SentIsFresh ==
    ASSUME IInv, NEW t \in Threads, call[t].at = "send"
    PROVE  ~In(call[t].id, requests) /\ ~In(call[t].id, answers)
  <1>1. call[t].id \in Nat
    BY DEF IInv, TypeOK
  <1> QED
    BY <1>1 DEF IInv, OnItsWay, Way, Fresh

\* A call that ends after its request, with no answer: its request may be on its way.
LEMMA EndsAfterRequest ==
    ASSUME IInv, TypeOK', NEW t \in Threads, call[t].at = "send", NEW status,
           Returns(t, status, Frame), calls' = calls, answers' = answers,
           requests' \in {requests, Append(requests, call[t].id)}
    PROVE  IInv'
  <1>1. Sent(t) /\ call[t].id \in Nat /\ Frame \in Nat /\ requests \in Seq(Nat) /\ answers \in Seq(Nat)
    BY DEF Sent, IInv, TypeOK, Frame
  <1>2. \A n \in Nat : Way(n)' => Way(n) \/ n = call[t].id
    BY <1>1, InAppend DEF Way
  <1>3. call[t].id # Frame /\ Frame \in {call[t].id} \cup unpaired
    BY <1>1, NotFrame DEF IInv
  <1>4. Numbered' /\ OnItsWay' /\ Frame \in unpaired' /\ OwnOrLeftover'
    BY <1>1, <1>2, <1>3, ReturnsKeeps
  <1>5. Once'
    BY <1>1, SentIsFresh, OnceSent DEF IInv, Once
  <1> QED
    BY <1>4, <1>5 DEF IInv

\* A call that ends without an answer although one may have been there.
LEMMA EndsWithoutAnswer ==
    ASSUME IInv, TypeOK', NEW t \in Threads, call[t].at = "receive",
           Returns(t, "ERROR", Frame), calls' = calls, requests' = requests,
           answers' = answers \/ (answers # <<>> /\ answers' = Tail(answers))
    PROVE  IInv'
  <1>1. Sent(t) /\ Frame \in Nat /\ requests \in Seq(Nat) /\ answers \in Seq(Nat)
    BY DEF Sent, IInv, TypeOK, Frame
  <1>2. \A n \in Nat : Way(n)' => Way(n) \/ n = call[t].id
    BY <1>1, InTail DEF Way
  <1>3. call[t].id # Frame
    BY <1>1, NotFrame
  <1>4. Numbered' /\ OnItsWay' /\ Frame \in unpaired' /\ OwnOrLeftover'
    BY <1>1, <1>2, <1>3, ReturnsKeeps
  <1>5. Once'
    BY <1>1, OnceRead DEF IInv, Once
  <1> QED
    BY <1>4, <1>5 DEF IInv

\* A call that reads what the endpoint holds: its own answer, whose request is then
\* on its way no more, or one that no other call waits for.
LEMMA EndsWithAnswer ==
    ASSUME IInv, TypeOK', NEW t \in Threads, call[t].at = "receive", answers # <<>>,
           Returns(t, "SUCCESS", Head(answers)), calls' = calls, requests' = requests,
           answers' = Tail(answers)
    PROVE  IInv'
  <1>1. Sent(t) /\ Head(answers) \in Nat /\ requests \in Seq(Nat) /\ answers \in Seq(Nat)
    BY TailIsSeq DEF Sent, IInv, TypeOK
  <1>2. \A n \in Nat : Way(n)' => Way(n) \/ n = call[t].id
    BY <1>1, InTail DEF Way
  <1>. PICK a \in Nat : a = Head(answers)
    BY <1>1
  <1>3. a = call[t].id => ~Way(a)'
    <2>1. call[t].id # Frame
      BY <1>1, NotFrame
    <2>2. OnceOf(requests, answers)
      BY DEF IInv, Once
    <2>3. a # Frame => ~In(a, Tail(answers)) /\ ~In(a, requests)
      BY <1>1, <2>2, OnceRead
    <2> QED
      BY <2>1, <2>3 DEF Way
  <1>4. a \in {call[t].id} \cup unpaired
    <2>1. Accounted(a)
      BY <1>1, InTail DEF IInv, OnItsWay, Way
    <2>2. \A u \in Threads : call[u].at = "receive" => u = t
      BY <1>1, OneSends DEF IInv, Sent
    <2> QED
      BY <2>1, <2>2 DEF Accounted
  <1>5. Numbered' /\ OnItsWay' /\ Frame \in unpaired' /\ OwnOrLeftover'
    <2>1. Returns(t, "SUCCESS", a)
      OBVIOUS
    <2> QED
      BY <1>1, <1>2, <1>3, <1>4, <2>1, ReturnsKeeps
  <1>6. Once'
    BY <1>1, OnceRead DEF IInv, Once
  <1> QED
    BY <1>5, <1>6 DEF IInv

----------------------------------------------------------------------------
(* The other steps *)

\* A step that leaves the calls alone and brings at most late frames.
LEMMA CallsUntouched ==
    ASSUME IInv, TypeOK', UNCHANGED <<call, result, calls, unpaired>>, Once',
           \A n \in Nat : Way(n)' => Way(n) \/ n = Frame
    PROVE  IInv'
  <1>1. Numbered' /\ Frame \in unpaired' /\ OwnOrLeftover'
    BY DEF IInv, Numbered, OwnOrLeftover
  <1>2. ASSUME NEW n \in Nat, Way(n)' PROVE n <= calls' /\ Accounted(n)' /\ Fresh(n)'
    <2>1. n <= calls /\ Accounted(n) /\ Fresh(n)
      <3>1. CASE Way(n)
        BY <3>1 DEF IInv, OnItsWay
      <3>2. CASE n = Frame
        <4>1. Frame \in unpaired /\ calls \in Nat /\ Numbered
          BY DEF IInv, TypeOK
        <4>2. \A t \in Threads : call[t].at # "idle" => call[t].id # Frame
          BY <4>1 DEF Numbered, Frame
        <4>3. n <= calls
          BY <3>2, <4>1 DEF Frame
        <4> QED
          BY <3>2, <4>1, <4>2, <4>3 DEF Accounted, Fresh
      <3> QED
        BY <1>2, <3>1, <3>2
    <2> QED
      BY <2>1 DEF Accounted, Fresh
  <1>3. OnItsWay'
    BY <1>2 DEF OnItsWay
  <1> QED
    BY <1>1, <1>3 DEF IInv

LEMMA BeginKeeps ==
    ASSUME IInv, TypeOK', NEW t \in Threads, NEW place \in {"lock", "send"}, NEW kind,
           call[t].at = "idle", calls' = calls + 1,
           call' = [call EXCEPT ![t] = [at |-> place, kind |-> kind, id |-> calls + 1]],
           UNCHANGED <<requests, answers, result, unpaired>>
    PROVE  IInv'
  <1>1. /\ call'[t].at = place /\ call'[t].id = calls + 1 /\ calls \in Nat
        /\ \A u \in Threads \ {t} : call'[u] = call[u]
    BY DEF IInv, TypeOK
  <1>2. Numbered'
    BY <1>1 DEF IInv, Numbered
  <1>3. ASSUME NEW n \in Nat, Way(n)' PROVE n <= calls' /\ Accounted(n)' /\ Fresh(n)'
    <2>1. n <= calls /\ Accounted(n) /\ Fresh(n)
      BY <1>3 DEF IInv, OnItsWay, Way
    <2>2. Accounted(n)'
      BY <1>1, <2>1 DEF Accounted
    <2>3. Fresh(n)'
      BY <1>1, <2>1 DEF Fresh
    <2> QED
      BY <1>1, <2>1, <2>2, <2>3
  <1>4. OnItsWay'
    BY <1>3 DEF OnItsWay
  <1> QED
    BY <1>2, <1>4 DEF IInv, Once, OwnOrLeftover

LEMMA RefusedKeeps ==
    ASSUME IInv, TypeOK', NEW t \in Threads, calls' = calls + 1,
           result' = [result EXCEPT ![t] = [id |-> calls + 1, status |-> "ERROR", answer |-> 0]],
           unpaired' = unpaired \cup {calls + 1}, UNCHANGED <<requests, answers, call>>
    PROVE  IInv'
  <1>1. calls \in Nat /\ unpaired \subseteq unpaired'
    BY DEF IInv, TypeOK
  <1>2. Numbered' /\ Frame \in unpaired' /\ Once'
    BY <1>1 DEF IInv, Numbered, Once
  <1>3. ASSUME NEW n \in Nat, Way(n)' PROVE n <= calls' /\ Accounted(n)' /\ Fresh(n)'
    <2>1. n <= calls /\ Accounted(n) /\ Fresh(n)
      BY <1>3 DEF IInv, OnItsWay, Way
    <2> QED
      BY <1>1, <2>1 DEF Accounted, Fresh
  <1>4. OnItsWay'
    BY <1>3 DEF OnItsWay
  <1>5. OwnOrLeftover'
    <2>1. result'[t].status = "ERROR" /\ \A u \in Threads \ {t} : result'[u] = result[u]
      BY DEF IInv, TypeOK
    <2> QED
      BY <1>1, <2>1 DEF IInv, OwnOrLeftover
  <1> QED
    BY <1>2, <1>4, <1>5 DEF IInv

LEMMA LockKeeps ==
    ASSUME IInv, TypeOK', NEW t \in Threads, Lock(t)
    PROVE  IInv'
  <1>1. /\ call'[t].at = "send" /\ call'[t].id = call[t].id /\ call[t].at = "lock"
        /\ \A u \in Threads \ {t} : call'[u] = call[u]
        /\ UNCHANGED <<requests, answers, result, calls, unpaired>>
    BY DEF Lock, Moves, camera, IInv, TypeOK
  <1>2. Numbered'
    BY <1>1 DEF IInv, Numbered
  <1>3. ASSUME NEW n \in Nat, Way(n)' PROVE n <= calls' /\ Accounted(n)' /\ Fresh(n)'
    <2>1. n <= calls /\ Accounted(n) /\ Fresh(n)
      BY <1>1, <1>3 DEF IInv, OnItsWay, Way
    <2>2. Accounted(n)'
      BY <1>1, <2>1 DEF Accounted
    <2>3. Fresh(n)'
      BY <1>1, <2>1 DEF Fresh
    <2> QED
      BY <1>1, <2>1, <2>2, <2>3
  <1>4. OnItsWay'
    BY <1>3 DEF OnItsWay
  <1> QED
    BY <1>1, <1>2, <1>4 DEF IInv, Once, OwnOrLeftover

\* The request of the call that will wait for its answer is on its way.
LEMMA SendKeeps ==
    ASSUME IInv, TypeOK', NEW t \in Threads, call[t].at = "send", Moves(t, "receive"),
           requests' = Append(requests, call[t].id),
           UNCHANGED <<answers, result, calls, unpaired>>
    PROVE  IInv'
  <1>1. /\ call'[t].at = "receive" /\ call'[t].id = call[t].id
        /\ \A u \in Threads \ {t} : call'[u] = call[u]
    BY DEF Moves, IInv, TypeOK
  <1>2. call[t].id \in 1 .. calls /\ call[t].id \in Nat /\ calls \in Nat
        /\ requests \in Seq(Nat) /\ answers \in Seq(Nat)
    BY DEF IInv, Numbered, TypeOK
  <1>3. Numbered'
    BY <1>1 DEF IInv, Numbered
  <1>4. ASSUME NEW n \in Nat, Way(n)' PROVE n <= calls' /\ Accounted(n)' /\ Fresh(n)'
    <2>1. Way(n) \/ n = call[t].id
      BY <1>2, <1>4, InAppend DEF Way
    <2>2. CASE n = call[t].id
      <3>1. Accounted(n)'
        BY <1>1, <2>2 DEF Accounted
      <3>2. Fresh(n)'
        BY <1>1, <2>2 DEF IInv, Numbered, Fresh
      <3> QED
        BY <1>2, <2>2, <3>1, <3>2
    <2>3. CASE Way(n)
      <3>1. n <= calls /\ Accounted(n) /\ Fresh(n)
        BY <2>3 DEF IInv, OnItsWay
      <3>2. Accounted(n)'
        BY <1>1, <3>1 DEF Accounted
      <3>3. Fresh(n)'
        BY <1>1, <3>1 DEF Fresh
      <3> QED
        BY <3>1, <3>2, <3>3
    <2> QED
      BY <2>1, <2>2, <2>3
  <1>5. OnItsWay'
    BY <1>4 DEF OnItsWay
  <1>6. Once'
    BY <1>2, SentIsFresh, OnceSent DEF IInv, Once
  <1> QED
    BY <1>3, <1>5, <1>6 DEF IInv, OwnOrLeftover

----------------------------------------------------------------------------
LEMMA InvInit == Init => IInv
  <1> SUFFICES ASSUME Init PROVE IInv
    OBVIOUS
  <1>1. TypeOK
    BY TypeInit
  <1>2. Numbered /\ Frame \in unpaired /\ OwnOrLeftover
    BY DEF Init, Numbered, Idle, Nothing, OwnOrLeftover
  <1>3. \A n : ~In(n, requests) /\ ~In(n, answers)
    BY DEF Init, In
  <1>4. Once
    BY <1>3 DEF Init, Once, OnceOf, Distinct
  <1> QED
    BY <1>1, <1>2, <1>3, <1>4 DEF IInv, OnItsWay, Way

LEMMA InvStep == IInv /\ [Next]_vars => IInv'
  <1> SUFFICES ASSUME IInv, [Next]_vars PROVE IInv'
    OBVIOUS
  <1>0. TypeOK' /\ requests \in Seq(Nat) /\ answers \in Seq(Nat)
    BY TypeStep DEF IInv, TypeOK
  <1>1. ASSUME UNCHANGED <<requests, answers, call, result, calls, unpaired>> PROVE IInv'
    <2>1. Once' /\ \A n \in Nat : Way(n)' => Way(n)
      BY <1>1 DEF IInv, Once, Way
    <2> QED
      BY <1>0, <1>1, <2>1, CallsUntouched
  <1>2. ASSUME CameraAnswers PROVE IInv'
    <2>1. UNCHANGED <<call, result, calls, unpaired>>
      BY <1>2 DEF CameraAnswers
    <2>2. requests # <<>> /\ requests' = Tail(requests)
          /\ (answers' = answers \/ answers' = Append(answers, Head(requests)))
      BY <1>2 DEF CameraAnswers
    <2>3. Once'
      BY <1>0, <2>2, OnceTaken DEF IInv, Once
    <2>4. \A n \in Nat : Way(n)' => Way(n)
      <3>1. \A n : In(n, Tail(requests)) => In(n, requests)
        BY <1>0, <2>2, InTail
      <3>2. \A n : In(n, Append(answers, Head(requests))) => In(n, answers) \/ In(n, requests)
        <4>1. Head(requests) \in Nat /\ In(Head(requests), requests)
          BY <1>0, <2>2, TailIsSeq, InTail
        <4> QED
          BY <1>0, <4>1, InAppend
      <3>3. \A n : In(n, answers') => In(n, answers) \/ In(n, requests)
        BY <2>2, <3>2
      <3>4. \A n : In(n, requests') => In(n, requests)
        BY <2>2, <3>1
      <3>5. \A n : Way(n)' <=> In(n, requests') \/ In(n, answers')
        BY DEF Way, In
      <3> QED
        BY <3>3, <3>4, <3>5 DEF Way
    <2> QED
      BY <1>0, <2>1, <2>3, <2>4, CallsUntouched
  <1>3. ASSUME FrameArrives PROVE IInv'
    <2>1. UNCHANGED <<call, result, calls, unpaired>> /\ requests' = requests
          /\ answers' = Append(answers, Frame) /\ Frame \in Nat
      BY <1>3 DEF FrameArrives, Frame
    <2>2. Once'
      BY <1>0, <2>1, OnceFrame DEF IInv, Once
    <2>3. \A n \in Nat : Way(n)' => Way(n) \/ n = Frame
      BY <1>0, <2>1, InAppend DEF Way
    <2> QED
      BY <1>0, <2>1, <2>2, <2>3, CallsUntouched
  <1>4. ASSUME NEW t \in Threads, NEW kind \in Kinds, Begin(t, kind) PROVE IInv'
    BY <1>0, <1>4, BeginKeeps DEF Begin, camera
  <1>5. ASSUME NEW t \in Threads, BeginCommand(t) PROVE IInv'
    BY <1>0, <1>5, BeginKeeps, RefusedKeeps DEF BeginCommand, camera
  <1>6. ASSUME NEW t \in Threads, Lock(t) PROVE IInv'
    BY <1>0, <1>6, LockKeeps
  <1>7. ASSUME NEW t \in Threads, Send(t) PROVE IInv'
    BY <1>0, <1>7, SendKeeps DEF Send
  <1>8. ASSUME NEW t \in Threads, StreamWrite(t) PROVE IInv'
    BY <1>0, <1>8, EndsAfterRequest DEF StreamWrite
  <1>9. ASSUME NEW t \in Threads, SendFails(t) PROVE IInv'
    BY <1>0, <1>9, EndsAfterRequest DEF SendFails
  <1>10. ASSUME NEW t \in Threads, Receive(t) PROVE IInv'
    BY <1>0, <1>10, EndsWithAnswer DEF Receive
  <1>11. ASSUME NEW t \in Threads, ReceiveFails(t) PROVE IInv'
    BY <1>0, <1>11, EndsWithoutAnswer DEF ReceiveFails
  <1>12. ASSUME NEW t \in Threads, SendCommand(t) PROVE IInv'
    BY <1>0, <1>12, SendKeeps, EndsAfterRequest DEF SendCommand
  <1>13. ASSUME NEW t \in Threads, ReceiveCommand(t) PROVE IInv'
    BY <1>0, <1>13, EndsWithAnswer, EndsWithoutAnswer DEF ReceiveCommand
  <1> QED
    BY <1>1, <1>2, <1>3, <1>4, <1>5, <1>6, <1>7, <1>8, <1>9, <1>10, <1>11, <1>12, <1>13
       DEF Next, Thread, CreateDevice, DestroyDevice, Done, vars, camera

\* The answer that bulk_request_response or sendReceive returns with SUCCESS is the
\* call's own, or was left behind by a call that ended without it: with the check of
\* the answer's cmd missing, bulk_mutex_ and the claimed interface still keep
\* concurrent calls apart.
THEOREM OwnAnswers == Spec => []OwnOrLeftover
  <1>1. IInv => OwnOrLeftover
    BY DEF IInv
  <1> QED
    BY <1>1, InvInit, InvStep, PTL DEF Spec

----------------------------------------------------------------------------
\* A nonempty finite set of numbers has a smallest one.
LEMMA HasMin ==
    ASSUME NEW S, IsFiniteSet(S), S \subseteq Int, S # {}
    PROVE  \E x \in S : \A y \in S : x <= y
  <1> DEFINE Below(x) == {y \in S : y < x}
             T == {Below(x) : x \in S}
  <1>1. T \subseteq FiniteSubsetsOf(S) /\ T # {}
    <2>1. \A x \in S : Below(x) \in SUBSET S
      OBVIOUS
    <2>2. \A x \in S : IsFiniteSet(Below(x))
      BY <2>1, FS_Subset
    <2>3. \A V \in T : V \in FiniteSubsetsOf(S)
      BY <2>1, <2>2 DEF FiniteSubsetsOf
    <2>4. PICK x : x \in S
      OBVIOUS
    <2>5. Below(x) \in T
      BY <2>4
    <2>. QED
      BY <2>3, <2>5
  <1>2. PICK U \in T : \A V \in T : <<V, U>> \notin StrictSubsetOrdering(S)
    BY <1>1, WFMin, FS_StrictSubsetOrderingWellFounded
  <1>3. PICK x \in S : U = Below(x)
    BY <1>2
  <1>4. ASSUME NEW y \in S, y < x
        PROVE  FALSE
    <2>1. Below(y) \subseteq Below(x) /\ Below(y) # Below(x)
      <3>1. x \in Int /\ y \in Int
        BY <1>3
      <3>2. y \in Below(x) /\ y \notin Below(y)
        BY <1>4, <3>1
      <3>3. \A z \in Below(y) : z \in Below(x)
        BY <1>4, <3>1
      <3>. QED
        BY <3>2, <3>3
    <2>2. <<Below(y), Below(x)>> \in StrictSubsetOrdering(S)
      BY <2>1 DEF StrictSubsetOrdering
    <2>. QED
      BY <1>2, <1>3, <2>2
  <1>. QED
    BY <1>4

----------------------------------------------------------------------------
(* UsbSession *)

UsbTypes ==
    /\ address \in Nat /\ owner \in [Usb!Numbers -> Sessions \cup {Foreign, None}]
    /\ session_pc \in [Sessions -> {"none", "create", "open", "claim", "endpoints", "alive",
                                    "handle_gone", "device_gone", "gone", "crashed"}]
    /\ path \in [Sessions -> Int] /\ \A s \in Sessions : path[s] <= address
    /\ claims \in [Sessions -> SUBSET Usb!ToClaim] /\ opened \in [Sessions -> BOOLEAN]
    /\ handler_requests \in [Sessions -> {0, 1}] /\ kill \in [Sessions -> {0, 1}]

\* What a session has, on its way through the constructors and destructors.
UsbPhases ==
    \A s \in Sessions :
        /\ session_pc[s] \in {"none", "create", "open"} => claims[s] = {}
        /\ session_pc[s] \in {"claim", "endpoints", "alive", "handle_gone"} => opened[s]
        /\ session_pc[s] \in {"endpoints", "alive"} => claims[s] = Usb!ToClaim
        /\ (session_pc[s] \in {"endpoints", "alive", "handle_gone"}) <=> (handler_requests[s] = 1)
        /\ claims[s] # {} => opened[s]
        /\ \A n \in claims[s], m \in Usb!ToClaim : m < n => m \in claims[s]

\* A claim lasts until the device is replugged or the handle is closed: nobody takes an
\* interface from its owner.
UsbOwned ==
    \A s \in Sessions : path[s] = address => \A n \in claims[s] : owner[n] = s

UsbInv == UsbTypes /\ UsbPhases /\ UsbOwned

LEMMA ToClaimNumbers ==
    /\ Usb!ToClaim \subseteq Usb!Numbers /\ Usb!ToClaim \subseteq Int
    /\ IsFiniteSet(Usb!ToClaim)
  <1>1. Len(Interfaces) \in Int /\ Len(Interfaces) > 0
    BY UsbAssumed DEF Usb!UsbSessionAssumption
  <1>2. Usb!ToClaim \subseteq Usb!Numbers
    BY <1>1 DEF Usb!ToClaim, Usb!AssociatedInterfaces, Usb!Numbers
  <1>3. Usb!Numbers \subseteq Int /\ IsFiniteSet(Usb!Numbers)
    BY <1>1, FS_Interval DEF Usb!Numbers
  <1>. QED
    BY <1>2, <1>3, FS_Subset

\* The next interface to claim.
LEMMA NextClaim ==
    ASSUME NEW C, C \in SUBSET Usb!ToClaim, C # Usb!ToClaim
    PROVE  /\ Usb!Min(Usb!ToClaim \ C) \in Usb!ToClaim \ C
           /\ \A m \in Usb!ToClaim \ C : Usb!Min(Usb!ToClaim \ C) <= m
  <1> DEFINE S == Usb!ToClaim \ C
  <1>1. S \in SUBSET Usb!ToClaim /\ S # {} /\ S \subseteq Int
    BY ToClaimNumbers
  <1>2. IsFiniteSet(S)
    BY <1>1, ToClaimNumbers, FS_Subset
  <1> HIDE DEF S
  <1>3. \E x \in S : \A y \in S : x <= y
    BY <1>1, <1>2, HasMin
  <1>4. Usb!Min(S) \in S /\ \A m \in S : Usb!Min(S) <= m
    BY <1>3 DEF Usb!Min
  <1>. QED
    BY <1>4 DEF S

LEMMA UsbInvariant == Usb!Spec => []UsbInv
  <1>1. Usb!Init => UsbInv
    BY DEF Usb!Init, UsbInv, UsbTypes, UsbPhases, UsbOwned
  <1>2. UsbInv /\ [Usb!Next]_(Usb!vars) => UsbInv'
    <2> SUFFICES ASSUME UsbTypes, UsbPhases, UsbOwned, [Usb!Next]_(Usb!vars)
                 PROVE  UsbInv'
      BY DEF UsbInv
    <2> USE DEF Usb!At, Usb!Goto, Usb!Set, Usb!bus, Usb!handle, Usb!usb_context
    <2>0. CASE UNCHANGED Usb!vars
      BY <2>0 DEF Usb!vars, UsbInv, UsbTypes, UsbPhases, UsbOwned
    <2>1. ASSUME NEW s \in Sessions, Usb!Query(s)
          PROVE  UsbInv'
      <3> USE <2>1 DEF Usb!Query
      <3>1. UsbTypes'
        BY DEF UsbTypes, UsbPhases
      <3>2. UsbPhases'
        BY DEF UsbTypes, UsbPhases
      <3>3. UsbOwned'
        BY UsbAssumed DEF Usb!UsbSessionAssumption, UsbTypes, UsbPhases, UsbOwned
      <3>. QED
        BY <3>1, <3>2, <3>3 DEF UsbInv
    <2>2. ASSUME NEW s \in Sessions, Usb!CreateUsbDevice(s)
          PROVE  UsbInv'
      <3> USE <2>2 DEF Usb!CreateUsbDevice
      <3>1. UsbTypes'
        BY DEF UsbTypes, UsbPhases
      <3>2. UsbPhases'
        BY DEF UsbTypes, UsbPhases
      <3>3. UsbOwned'
        BY UsbAssumed DEF Usb!UsbSessionAssumption, UsbTypes, UsbPhases, UsbOwned
      <3>. QED
        BY <3>1, <3>2, <3>3 DEF UsbInv
    <2>3. ASSUME NEW s \in Sessions, Usb!Open(s)
          PROVE  UsbInv'
      <3> USE <2>3 DEF Usb!Open
      <3>1. UsbTypes'
        BY DEF UsbTypes, UsbPhases
      <3>2. UsbPhases'
        BY DEF UsbTypes, UsbPhases
      <3>3. UsbOwned'
        BY UsbAssumed DEF Usb!UsbSessionAssumption, UsbTypes, UsbPhases, UsbOwned
      <3>. QED
        BY <3>1, <3>2, <3>3 DEF UsbInv
    <2>4. ASSUME NEW s \in Sessions, Usb!ClaimInterface(s)
          PROVE  UsbInv'
      <3> DEFINE n == Usb!Min(Usb!ToClaim \ claims[s])
      <3>1. /\ claims[s] \in SUBSET Usb!ToClaim /\ claims[s] # Usb!ToClaim
            /\ session_pc[s] = "claim" /\ opened[s]
            /\ UNCHANGED <<address, moves, path, opened, handler_requests, kill, thread>>
        BY <2>4 DEF Usb!ClaimInterface, UsbTypes, UsbPhases
      <3>2. /\ n \in Usb!ToClaim \ claims[s]
            /\ \A m \in Usb!ToClaim \ claims[s] : n <= m
        BY <3>1, NextClaim
      <3>3. n \in Usb!Numbers /\ n \in Int
        BY <3>2, ToClaimNumbers
      <3>4. \/ /\ Usb!Claimable(s, n) /\ owner' = [owner EXCEPT ![n] = s]
               /\ claims' = [claims EXCEPT ![s] = claims[s] \cup {n}]
               /\ UNCHANGED session_pc
            \/ /\ session_pc' = [session_pc EXCEPT ![s] = "device_gone"]
               /\ UNCHANGED <<owner, claims>>
        BY <2>4 DEF Usb!ClaimInterface
      <3> HIDE DEF n
      <3>5. CASE session_pc' = [session_pc EXCEPT ![s] = "device_gone"] /\ UNCHANGED <<owner, claims>>
        <4>1. UsbTypes'
          BY <3>1, <3>5 DEF UsbTypes
        <4>2. UsbPhases'
          BY <3>1, <3>5 DEF UsbTypes, UsbPhases
        <4>3. UsbOwned'
          BY <3>1, <3>5 DEF UsbTypes, UsbOwned
        <4>. QED
          BY <4>1, <4>2, <4>3 DEF UsbInv
      <3>6. CASE /\ Usb!Claimable(s, n) /\ owner' = [owner EXCEPT ![n] = s]
                 /\ claims' = [claims EXCEPT ![s] = claims[s] \cup {n}]
                 /\ UNCHANGED session_pc
        <4>1. UsbTypes'
          BY <3>1, <3>2, <3>3, <3>6 DEF UsbTypes
        <4>2. UsbPhases'
          <5>1. \A k \in claims'[s], m \in Usb!ToClaim : m < k => m \in claims'[s]
            <6> SUFFICES ASSUME NEW k \in claims[s] \cup {n}, NEW m \in Usb!ToClaim, m < k,
                                m \notin claims[s]
                         PROVE  m = n
              BY <3>1, <3>6 DEF UsbTypes
            <6>1. k = n
              BY <3>1 DEF UsbPhases
            <6>2. n <= m /\ m \in Int
              BY <3>2, ToClaimNumbers
            <6>. QED
              BY <6>1, <6>2, <3>3
          <5>2. \A t \in Sessions : t # s => claims'[t] = claims[t]
            BY <3>6 DEF UsbTypes
          <5>3. claims'[s] = claims[s] \cup {n}
            BY <3>6 DEF UsbTypes
          <5>4. session_pc'[s] = "claim" /\ opened'[s] /\ handler_requests'[s] # 1
            BY <3>1, <3>6 DEF UsbTypes, UsbPhases
          <5>. QED
            BY <3>1, <3>6, <5>1, <5>2, <5>3, <5>4 DEF UsbTypes, UsbPhases
        <4>3. UsbOwned'
          <5> SUFFICES ASSUME NEW t \in Sessions, path[t] = address, NEW k \in claims'[t]
                       PROVE  owner'[k] = t
            BY <3>1 DEF UsbOwned
          <5>1. owner[n] \in {None, s} /\ None \notin Sessions
            BY <3>6, UsbAssumed DEF Usb!Claimable, Usb!UsbSessionAssumption
          <5>2. owner'[n] = s /\ \A m \in Usb!Numbers : m # n => owner'[m] = owner[m]
            BY <3>3, <3>6 DEF UsbTypes
          <5>3. CASE k = n
            <6>1. k \notin claims[t] \/ t = s
              BY <5>1, <5>3 DEF UsbOwned
            <6>. QED
              BY <5>2, <5>3, <6>1, <3>6 DEF UsbTypes
          <5>4. CASE k # n
            <6>1. k \in claims[t] /\ k \in Usb!Numbers
              BY <5>4, <3>6, ToClaimNumbers DEF UsbTypes
            <6>. QED
              BY <5>2, <5>4, <6>1 DEF UsbOwned
          <5>. QED
            BY <5>3, <5>4
        <4>. QED
          BY <4>1, <4>2, <4>3 DEF UsbInv
      <3>. QED
        BY <3>4, <3>5, <3>6
    <2>5. ASSUME NEW s \in Sessions, Usb!StartEventHandler(s)
          PROVE  UsbInv'
      <3> USE <2>5 DEF Usb!StartEventHandler
      <3>1. UsbTypes'
        BY DEF UsbTypes, UsbPhases
      <3>2. UsbPhases'
        BY DEF UsbTypes, UsbPhases
      <3>3. UsbOwned'
        BY UsbAssumed DEF Usb!UsbSessionAssumption, UsbTypes, UsbPhases, UsbOwned
      <3>. QED
        BY <3>1, <3>2, <3>3 DEF UsbInv
    <2>6. ASSUME NEW s \in Sessions, Usb!EventThread(s)
          PROVE  UsbInv'
      <3> USE <2>6 DEF Usb!EventThread
      <3>1. UsbTypes'
        BY DEF UsbTypes, UsbPhases
      <3>2. UsbPhases'
        BY DEF UsbTypes, UsbPhases
      <3>3. UsbOwned'
        BY UsbAssumed DEF Usb!UsbSessionAssumption, UsbTypes, UsbPhases, UsbOwned
      <3>. QED
        BY <3>1, <3>2, <3>3 DEF UsbInv
    <2>7. ASSUME NEW s \in Sessions, Usb!FindEndpoints(s)
          PROVE  UsbInv'
      <3> USE <2>7 DEF Usb!FindEndpoints
      <3>1. UsbTypes'
        BY DEF UsbTypes, UsbPhases
      <3>2. UsbPhases'
        BY DEF UsbTypes, UsbPhases
      <3>3. UsbOwned'
        BY UsbAssumed DEF Usb!UsbSessionAssumption, UsbTypes, UsbPhases, UsbOwned
      <3>. QED
        BY <3>1, <3>2, <3>3 DEF UsbInv
    <2>8. ASSUME NEW s \in Sessions, Usb!Destroy(s)
          PROVE  UsbInv'
      <3> USE <2>8 DEF Usb!Destroy
      <3>1. UsbTypes'
        BY DEF UsbTypes, UsbPhases
      <3>2. UsbPhases'
        BY DEF UsbTypes, UsbPhases
      <3>3. UsbOwned'
        BY UsbAssumed DEF Usb!UsbSessionAssumption, UsbTypes, UsbPhases, UsbOwned
      <3>. QED
        BY <3>1, <3>2, <3>3 DEF UsbInv
    <2>9. ASSUME NEW s \in Sessions, Usb!DestroyHandle(s)
          PROVE  UsbInv'
      <3> USE <2>9 DEF Usb!DestroyHandle, Usb!StopEventHandler
      <3>1. UsbTypes'
        BY DEF UsbTypes, UsbPhases
      <3>2. UsbPhases'
        BY DEF UsbTypes, UsbPhases
      <3>3. UsbOwned'
        <4> SUFFICES ASSUME NEW t \in Sessions, path[t] = address, NEW n \in claims'[t]
                     PROVE  owner'[n] = t
          BY DEF UsbOwned
        <4>1. t # s /\ n \in claims[t] /\ n \in Usb!Numbers
          BY ToClaimNumbers DEF UsbTypes
        <4>2. owner[n] = t
          BY <4>1 DEF UsbOwned
        <4>. QED
          BY <4>1, <4>2
      <3>. QED
        BY <3>1, <3>2, <3>3 DEF UsbInv
    <2>10. ASSUME NEW s \in Sessions, Usb!DestroyContext(s)
          PROVE  UsbInv'
      <3> USE <2>10 DEF Usb!DestroyContext
      <3>1. UsbTypes'
        BY DEF UsbTypes, UsbPhases
      <3>2. UsbPhases'
        BY DEF UsbTypes, UsbPhases
      <3>3. UsbOwned'
        BY UsbAssumed DEF Usb!UsbSessionAssumption, UsbTypes, UsbPhases, UsbOwned
      <3>. QED
        BY <3>1, <3>2, <3>3 DEF UsbInv
    <2>11. CASE Usb!Replug
      <3> USE <2>11 DEF Usb!Replug
      <3>1. UsbTypes'
        BY DEF UsbTypes, UsbPhases
      <3>2. UsbPhases'
        BY DEF UsbTypes, UsbPhases
      <3>3. UsbOwned'
        BY UsbAssumed DEF Usb!UsbSessionAssumption, UsbTypes, UsbPhases, UsbOwned
      <3>. QED
        BY <3>1, <3>2, <3>3 DEF UsbInv
    <2>12. ASSUME NEW n \in Usb!Numbers, Usb!ForeignMoves(n)
          PROVE  UsbInv'
      <3> USE <2>12 DEF Usb!ForeignMoves
      <3>1. UsbTypes'
        BY DEF UsbTypes, UsbPhases
      <3>2. UsbPhases'
        BY DEF UsbTypes, UsbPhases
      <3>3. UsbOwned'
        <4> SUFFICES ASSUME NEW t \in Sessions, path[t] = address, NEW m \in claims[t]
                     PROVE  owner'[m] = t
          BY DEF UsbOwned
        <4>1. owner[m] = t /\ m \in Usb!Numbers
          BY ToClaimNumbers DEF UsbTypes, UsbOwned
        <4>2. owner[n] \in {None, Foreign} /\ t \notin {None, Foreign}
          BY UsbAssumed DEF Usb!UsbSessionAssumption
        <4>3. m # n
          BY <4>1, <4>2
        <4>. QED
          BY <4>1, <4>3 DEF UsbTypes
      <3>. QED
        BY <3>1, <3>2, <3>3 DEF UsbInv
    <2>. QED
      BY <2>0, <2>1, <2>2, <2>3, <2>4, <2>5, <2>6, <2>7, <2>8, <2>9, <2>10, <2>11, <2>12
         DEF Usb!Next, Usb!Goes
  <1>. QED
    BY <1>1, <1>2, PTL DEF Usb!Spec

\* The sessions and their handles keep their types, and a session whose handle is gone, by
\* whichever constructor or destructor, has given back its request for the event thread
\* (usb_context.cc:33-64, usb_handle.cc:26-54).
THEOREM UsbTypeCorrect == Usb!Spec => []Usb!TypeOK
  <1>1. UsbInv => Usb!TypeOK
    BY DEF UsbInv, UsbTypes, UsbPhases, Usb!TypeOK
  <1>. QED
    BY <1>1, UsbInvariant, PTL

\* A device that is there has every interface it streams through, whoever asked for them at
\* the same time, until it is replugged (usb_handle.cc:40-43).
THEOREM DeviceOwnsInterfaces == Usb!Spec => []AliveOwns
  <1>1. UsbInv => AliveOwns
    BY DEF UsbInv, UsbTypes, UsbPhases, UsbOwned, AliveOwns, Usb!AliveOwns, Usb!At
  <1>. QED
    BY <1>1, UsbInvariant, PTL

----------------------------------------------------------------------------
(* PipelineConfig *)

\* What can be asked for: the requests for files are always refused.
ConfigTypes ==
    /\ stream_requests \subseteq FrameIds \X Config!Indexes /\ enable_all_streams \in BOOLEAN
    /\ device_request \in [serial : Serials \cup {None}, filename : {None}, record_output : {None}]
    /\ playback_loop = FALSE /\ connected \in Serials \cup {None}

\* The profiles in the cache and in hand.
ConfigProfiles ==
    /\ resolved_profile \in Config!Profiles \cup {None}
    /\ config_pc \in [Users -> {"idle", "drop", "resolve", "copy"}]
    /\ local \in [Users -> Config!Profiles \cup {None}]
    /\ \A u \in Users : config_pc[u] = "copy" => local[u] # None

ConfigInv == ConfigTypes /\ ConfigProfiles /\ CacheFits

\* The device that is found is the connected one, and the one asked for.
LEMMA FoundDeviceFits ==
    ASSUME ConfigTypes, Config!FoundDevice # None
    PROVE  /\ Config!FoundDevice \in Serials
           /\ device_request.serial \in {None, Config!FoundDevice}
  BY DEF ConfigTypes, Config!FoundDevice, Config!ResolveDeviceRequests, Config!PlaybackDevice

LEMMA ResolvedProfile ==
    ASSUME ConfigTypes, NEW d \in Serials
    PROVE  /\ Config!ResolveStreams(d) \in Config!Profiles
           /\ Config!ResolveStreams(d).camera = d
           /\ Config!ResolveStreams(d).for = Config!Request
  BY DEF ConfigTypes, Config!ResolveStreams, Config!StreamsOfDevice, Config!Request, Config!Profiles

LEMMA ResolveStep ==
    ASSUME ConfigInv, NEW u \in Users, NEW then \in {"idle", "drop", "copy"},
           Config!Resolve(u, then)
    PROVE  ConfigInv'
  <1>1. ConfigTypes' /\ Config!Request' = Config!Request
    BY DEF ConfigInv, ConfigTypes, Config!Resolve, Config!requested, Config!Request
  <1>2. CASE /\ Config!FoundDevice # None
             /\ resolved_profile' = Config!ResolveStreams(Config!FoundDevice)
             /\ local' = [local EXCEPT ![u] = resolved_profile']
             /\ config_pc' = [config_pc EXCEPT ![u] = then]
    <2> DEFINE p == Config!ResolveStreams(Config!FoundDevice)
    <2>1. /\ Config!FoundDevice \in Serials
          /\ device_request.serial \in {None, Config!FoundDevice}
      BY <1>2, FoundDeviceFits DEF ConfigInv
    <2>2. /\ p \in Config!Profiles /\ p.camera = Config!FoundDevice
          /\ p.for = Config!Request
      BY <2>1, ResolvedProfile DEF ConfigInv
    <2>3. p # None
      BY <2>2, ConfigAssumed DEF Config!PipelineConfigAssumption
    <2>4. resolved_profile' = p /\ local' = [local EXCEPT ![u] = p]
      BY <1>2
    <2>5. device_request' = device_request
      BY DEF Config!Resolve, Config!requested
    <2> HIDE DEF p
    <2>6. ConfigProfiles'
      BY <1>2, <2>2, <2>3, <2>4 DEF ConfigInv, ConfigProfiles
    <2>7. CacheFits'
      BY <1>1, <2>1, <2>2, <2>4, <2>5 DEF CacheFits, Config!CacheFits
    <2>. QED
      BY <1>1, <2>6, <2>7 DEF ConfigInv
  <1>3. CASE /\ resolved_profile' = None /\ config_pc' = [config_pc EXCEPT ![u] = "idle"]
             /\ local' = [local EXCEPT ![u] = None]
    <2>1. ConfigProfiles'
      BY <1>3 DEF ConfigInv, ConfigProfiles
    <2>2. CacheFits'
      BY <1>3 DEF CacheFits, Config!CacheFits
    <2>. QED
      BY <1>1, <2>1, <2>2 DEF ConfigInv
  <1>. QED
    BY <1>2, <1>3 DEF Config!Resolve, Config!ResetResolved

LEMMA ConfigInvariant == Config!Spec => []ConfigInv
  <1>1. Config!Init => ConfigInv
    <2> SUFFICES ASSUME Config!Init
                 PROVE  ConfigInv
      OBVIOUS
    <2> USE DEF Config!Init
    <2>1. stream_requests \subseteq FrameIds \X Config!Indexes /\ connected \in Serials \cup {None}
      OBVIOUS
    <2>2. device_request \in [serial : Serials \cup {None}, filename : {None},
                               record_output : {None}]
      OBVIOUS
    <2>3. enable_all_streams \in BOOLEAN /\ playback_loop = FALSE
      OBVIOUS
    <2>4. ConfigProfiles
      BY DEF ConfigProfiles
    <2>5. CacheFits
      BY DEF CacheFits, Config!CacheFits
    <2>. QED
      BY <2>1, <2>2, <2>3, <2>4, <2>5 DEF ConfigInv, ConfigTypes
  <1>2. ConfigInv /\ [Config!Next]_(Config!vars) => ConfigInv'
    <2> SUFFICES ASSUME ConfigInv, [Config!Next]_(Config!vars)
                 PROVE  ConfigInv'
      OBVIOUS
    <2> USE DEF ConfigInv
    <2>0. CASE UNCHANGED Config!vars
      BY <2>0 DEF Config!vars, Config!requested, ConfigTypes, ConfigProfiles, CacheFits,
                  Config!CacheFits, Config!Request
    <2>1. ASSUME NEW c \in Serials \cup {None}, Config!CameraChanges(c)
          PROVE  ConfigInv'
      BY <2>1 DEF Config!CameraChanges, Config!requested, ConfigTypes, ConfigProfiles, CacheFits,
                  Config!CacheFits, Config!Request
    <2>2. ASSUME NEW u \in Users, NEW f \in FrameIds, NEW i \in Config!Indexes, Config!EnableStream(u, f, i)
          PROVE  ConfigInv'
      <3> USE <2>2 DEF Config!EnableStream, Config!Begin, Config!Quietly, Config!ResetResolved
      <3>1. ConfigTypes'
        <4>1. <<f, i>> \in FrameIds \X Config!Indexes
          OBVIOUS
        <4>2. stream_requests' \subseteq FrameIds \X Config!Indexes
          BY <4>1 DEF ConfigTypes
        <4>. QED
          BY <4>2 DEF ConfigTypes
      <3>2. ConfigProfiles'
        BY DEF ConfigTypes, ConfigProfiles
      <3>3. CacheFits'
        BY DEF ConfigTypes, CacheFits, Config!CacheFits, Config!Request
      <3>. QED
        BY <3>1, <3>2, <3>3
    <2>3. ASSUME NEW u \in Users, NEW f \in FrameIds, NEW i \in Config!Indexes, Config!DisableStream(u, f, i)
          PROVE  ConfigInv'
      <3> USE <2>3 DEF Config!DisableStream, Config!Begin, Config!Quietly, Config!ResetResolved
      <3>1. ConfigTypes'
        BY DEF ConfigTypes
      <3>2. ConfigProfiles'
        BY DEF ConfigTypes, ConfigProfiles
      <3>3. CacheFits'
        BY DEF ConfigTypes, CacheFits, Config!CacheFits, Config!Request
      <3>. QED
        BY <3>1, <3>2, <3>3
    <2>4. ASSUME NEW u \in Users, Config!EnableAllStreams(u)
          PROVE  ConfigInv'
      <3> USE <2>4 DEF Config!EnableAllStreams, Config!Begin, Config!Quietly, Config!ResetResolved
      <3>1. ConfigTypes'
        BY DEF ConfigTypes
      <3>2. ConfigProfiles'
        BY DEF ConfigTypes, ConfigProfiles
      <3>3. CacheFits'
        BY DEF ConfigTypes, CacheFits, Config!CacheFits, Config!Request
      <3>. QED
        BY <3>1, <3>2, <3>3
    <2>5. ASSUME NEW u \in Users, Config!DisableAllStreams(u)
          PROVE  ConfigInv'
      <3> USE <2>5 DEF Config!DisableAllStreams, Config!Begin, Config!Quietly, Config!ResetResolved
      <3>1. ConfigTypes'
        BY DEF ConfigTypes
      <3>2. ConfigProfiles'
        BY DEF ConfigTypes, ConfigProfiles
      <3>3. CacheFits'
        BY DEF ConfigTypes, CacheFits, Config!CacheFits, Config!Request
      <3>. QED
        BY <3>1, <3>2, <3>3
    <2>6. ASSUME NEW u \in Users, NEW s \in Serials, Config!EnableDevice(u, s)
          PROVE  ConfigInv'
      <3> USE <2>6 DEF Config!EnableDevice, Config!Begin, Config!Quietly, Config!ResetResolved
      <3>1. ConfigTypes'
        BY DEF ConfigTypes
      <3>2. ConfigProfiles'
        BY DEF ConfigTypes, ConfigProfiles
      <3>3. CacheFits'
        BY DEF ConfigTypes, CacheFits, Config!CacheFits, Config!Request
      <3>. QED
        BY <3>1, <3>2, <3>3
    <2>7. ASSUME NEW u \in Users, NEW f, NEW b, Config!EnableFile(u, f, b)
          PROVE  ConfigInv'
      <3> USE <2>7 DEF Config!EnableFile, Config!FileAccepted, Config!Begin
      <3>1. ConfigTypes'
        BY DEF ConfigTypes
      <3>2. ConfigProfiles'
        BY DEF ConfigTypes, ConfigProfiles
      <3>3. CacheFits'
        BY DEF ConfigTypes, CacheFits, Config!CacheFits, Config!Request
      <3>. QED
        BY <3>1, <3>2, <3>3
    <2>8. ASSUME NEW u \in Users, Config!CanResolveDrops(u)
          PROVE  ConfigInv'
      <3> USE <2>8 DEF Config!CanResolveDrops, Config!ResetResolved, Config!requested
      <3>1. ConfigTypes'
        BY DEF ConfigTypes
      <3>2. ConfigProfiles'
        BY DEF ConfigTypes, ConfigProfiles
      <3>3. CacheFits'
        BY DEF ConfigTypes, CacheFits, Config!CacheFits, Config!Request
      <3>. QED
        BY <3>1, <3>2, <3>3
    <2>9. ASSUME NEW u \in Users, Config!StartCached(u)
          PROVE  ConfigInv'
      <3> USE <2>9 DEF Config!StartCached, Config!requested
      <3>1. ConfigTypes'
        BY DEF ConfigTypes
      <3>2. ConfigProfiles'
        BY DEF ConfigTypes, ConfigProfiles
      <3>3. CacheFits'
        BY DEF ConfigTypes, CacheFits, Config!CacheFits, Config!Request
      <3>. QED
        BY <3>1, <3>2, <3>3
    <2>10. ASSUME NEW u \in Users, Config!StartCopies(u)
          PROVE  ConfigInv'
      <3> USE <2>10 DEF Config!StartCopies, Config!requested
      <3>1. ConfigTypes'
        BY DEF ConfigTypes
      <3>2. ConfigProfiles'
        BY DEF ConfigTypes, ConfigProfiles
      <3>3. CacheFits'
        BY DEF ConfigTypes, CacheFits, Config!CacheFits, Config!Request
      <3>. QED
        BY <3>1, <3>2, <3>3
    <2>11. ASSUME NEW u \in Users, Config!ResolveCall(u)
          PROVE  ConfigInv'
      <3>1. Config!Resolve(u, "idle")
        BY <2>11 DEF Config!ResolveCall
      <3>. QED
        BY <3>1, ResolveStep
    <2>12. ASSUME NEW u \in Users, Config!CanResolve(u)
          PROVE  ConfigInv'
      <3>1. Config!Resolve(u, "drop")
        BY <2>12 DEF Config!CanResolve
      <3>. QED
        BY <3>1, ResolveStep
    <2>13. ASSUME NEW u \in Users, Config!StartResolves(u)
          PROVE  ConfigInv'
      <3>1. Config!Resolve(u, "copy")
        BY <2>13 DEF Config!StartResolves
      <3>. QED
        BY <3>1, ResolveStep
    <2>. QED
      BY <2>0, <2>1, <2>2, <2>3, <2>4, <2>5, <2>6, <2>7, <2>8, <2>9, <2>10, <2>11, <2>12, <2>13
         DEF Config!Next, Config!EnableDeviceFromFile, Config!EnableRecordToFile
  <1>. QED
    BY <1>1, <1>2, PTL DEF Config!Spec

\* The request, the cache and what each thread has in hand keep their types, and a start
\* that goes on to its copy has a profile (pipeline.cc:261), because resolve() returns
\* none only by an exception.
THEOREM ConfigTypeCorrect == Config!Spec => []Config!TypeOK
  <1>1. ConfigInv => Config!TypeOK
    BY DEF ConfigInv, ConfigTypes, ConfigProfiles, Config!TypeOK
  <1>. QED
    BY <1>1, ConfigInvariant, PTL

\* A cached profile was resolved for what is asked for now and for the camera asked for,
\* with any number of threads that change and resolve the configuration
\* (pipeline_config.cc:23-105).
THEOREM CacheAlwaysFits == Config!Spec => []CacheFits
  <1>1. ConfigInv => CacheFits
    BY DEF ConfigInv
  <1>. QED
    BY <1>1, ConfigInvariant, PTL

----------------------------------------------------------------------------
(* DeviceHandles *)

\* The cameras, and what is known of them.
HandlesBus ==
    /\ serial \in Seq(Cameras)
    /\ bus \in SUBSET (1 .. Len(serial)) /\ discovered \in SUBSET (1 .. Len(serial))
    /\ list \in Seq(1 .. Len(serial)) /\ Len(list) <= 1
    /\ told \in [DeviceVars -> {"", "connected", "disconnected"}]

\* Pointers lead to objects that were made.
HandlesObjects ==
    /\ made \in Seq(1 .. Len(serial)) /\ wrapped \in Seq(1 .. Len(made))
    /\ profile \in 0 .. Len(made) /\ device \in [DeviceVars -> 0 .. Len(wrapped)]
    /\ sensor \in [SensorVars -> [parent : 0 .. Len(wrapped), sensor : 0 .. Len(made)]]

\* The variables through which a sensor's device is kept have its SeDevice.
Keeps(s, v) ==
    /\ device[v] = sensor[s].parent /\ sensor[s].parent # 0
    /\ sensor[s].sensor = wrapped[sensor[s].parent]
HandlesKept ==
    /\ kept \in [SensorVars -> SUBSET DeviceVars]
    /\ \A s \in SensorVars : \A v \in kept[s] : Keeps(s, v)

HandlesInv == HandlesBus /\ HandlesObjects /\ HandlesKept

LEMMA SeqWidens ==
    ASSUME NEW m \in Nat, NEW n \in Nat, m <= n, NEW q \in Seq(1 .. m)
    PROVE  q \in Seq(1 .. n)
  BY 1 .. m \subseteq 1 .. n

\* What appending to a list of numbers does.
LEMMA AppendNumber ==
    ASSUME NEW m \in Nat, NEW n \in Nat, m <= n, NEW q \in Seq(1 .. m), NEW d \in 1 .. n
    PROVE  /\ Append(q, d) \in Seq(1 .. n) /\ Len(Append(q, d)) = Len(q) + 1
           /\ Append(q, d)[Len(q) + 1] = d
           /\ \A k \in 1 .. Len(q) : Append(q, d)[k] = q[k]
  <1>1. q \in Seq(1 .. n)
    BY SeqWidens
  <1>. QED
    BY <1>1, AppendProperties

\* The first camera of a list is one of it.
LEMMA FirstCamera ==
    ASSUME HandlesBus, NEW D \in SUBSET (1 .. Len(serial)), D # {}
    PROVE  Handles!Min(D) \in D
  <1>1. Len(serial) \in Nat
    BY LenProperties DEF HandlesBus
  <1>2. IsFiniteSet(1 .. Len(serial))
    BY <1>1, FS_Interval
  <1>3. IsFiniteSet(D)
    BY <1>2, FS_Subset
  <1>3a. D \subseteq Int
    BY <1>1
  <1>4. \E x \in D : \A y \in D : x <= y
    BY <1>3, <1>3a, HasMin
  <1>. QED
    BY <1>4 DEF Handles!Min

\* The callback answers each holder, and says "disconnected" when only wasRemoved is so.
LEMMA Answers ==
    ASSUME NEW e, Handles!OnDevicesChanged(e)
    PROVE  /\ told' \in [DeviceVars -> {"", "connected", "disconnected"}]
           /\ \A v \in DeviceVars : ~Handles!WasAdded(v, e) /\ Handles!WasRemoved(v, e)
                 => told'[v] = "disconnected"
  <1> DEFINE A(v) == Handles!WasAdded(v, e)
             R(v) == Handles!WasRemoved(v, e)
             F(v) == CASE A(v) -> "connected" [] ~A(v) /\ R(v) -> "disconnected" [] OTHER -> ""
  <1>1. told' = [v \in DeviceVars |-> F(v)]
    BY DEF Handles!OnDevicesChanged
  <1>2. ASSUME NEW v
        PROVE  /\ F(v) \in {"", "connected", "disconnected"}
               /\ ~A(v) /\ R(v) => F(v) = "disconnected"
    <2> HIDE DEF A, R
    <2>1. CASE A(v)
      <3>1. F(v) = "connected"
        BY <2>1, Zenon
      <3>. QED
        BY <2>1, <3>1, Zenon
    <2>2. CASE ~A(v) /\ R(v)
      <3>1. F(v) = "disconnected"
        BY <2>2, Zenon
      <3>. QED
        BY <3>1, Zenon
    <2>3. CASE ~A(v) /\ ~R(v)
      <3>1. F(v) = ""
        BY <2>3, Zenon
      <3>. QED
        BY <2>3, <3>1, Zenon
    <2>. QED
      BY <2>1, <2>2, <2>3, Zenon
  <1> HIDE DEF F
  <1>3. told' \in [DeviceVars -> {"", "connected", "disconnected"}]
    BY <1>1, <1>2
  <1>4. \A v \in DeviceVars : told'[v] = F(v)
    BY <1>1
  <1>. QED
    BY <1>2, <1>3, <1>4

\* A variable gets a new SeDevice: the sensors that were kept through it are not any more.
LEMMA AssignNew ==
    ASSUME HandlesInv, NEW v \in DeviceVars, NEW d \in 1 .. Len(made)',
           made' \in Seq(1 .. Len(serial)), Len(made) <= Len(made)',
           wrapped' = Append(wrapped, d), Handles!Assign(v, Len(wrapped)'), Handles!Forget(v),
           Handles!Frees
    PROVE  HandlesInv'
  <1> DEFINE k == Len(wrapped) + 1
  <1>1. Len(serial) \in Nat /\ Len(made) \in Nat /\ Len(made') \in Nat /\ Len(wrapped) \in Nat
    BY LenProperties DEF HandlesInv, HandlesBus, HandlesObjects
  <1>2. /\ wrapped' \in Seq(1 .. Len(made')) /\ Len(wrapped') = k
        /\ \A j \in 1 .. Len(wrapped) : wrapped'[j] = wrapped[j]
    BY <1>1, AppendNumber DEF HandlesInv, HandlesObjects
  <1>3. /\ device' = [device EXCEPT ![v] = k]
        /\ kept' = [s \in SensorVars |-> kept[s] \ {v}]
        /\ UNCHANGED <<bus, serial, discovered, told, list, profile, sensor>>
    BY <1>2 DEF Handles!Assign, Handles!Forget, Handles!Frees, Handles!usb, Handles!heard
  <1> HIDE DEF k
  <1>4. HandlesBus'
    BY <1>3 DEF HandlesInv, HandlesBus
  <1>5. k \in Nat /\ k = Len(wrapped) + 1
    BY <1>1 DEF k
  <1>6. HandlesObjects'
    <2>1. device' \in [DeviceVars -> 0 .. Len(wrapped')]
      <3>1. 0 .. Len(wrapped) \subseteq 0 .. k /\ k \in 0 .. k
        BY <1>1, <1>5
      <3>. QED
        BY <1>2, <1>3, <3>1 DEF HandlesInv, HandlesObjects
    <2>2. sensor' \in [SensorVars -> [parent : 0 .. Len(wrapped'), sensor : 0 .. Len(made')]]
      <3>1. 0 .. Len(wrapped) \subseteq 0 .. Len(wrapped') /\ 0 .. Len(made) \subseteq 0 .. Len(made')
        BY <1>1, <1>2, <1>5
      <3>. QED
        BY <1>3, <3>1 DEF HandlesInv, HandlesObjects
    <2>3. profile' \in 0 .. Len(made')
      BY <1>1, <1>3 DEF HandlesInv, HandlesObjects
    <2>4. made' \in Seq(1 .. Len(serial'))
      BY <1>3
    <2>. QED
      BY <2>1, <2>2, <2>3, <2>4, <1>2 DEF HandlesObjects
  <1>7. HandlesKept'
    <2>1. kept' \in [SensorVars -> SUBSET DeviceVars]
      BY <1>3 DEF HandlesInv, HandlesKept
    <2>2. ASSUME NEW s \in SensorVars, NEW w \in kept'[s]
          PROVE  Keeps(s, w)'
      <3>1. w \in kept[s] /\ w # v /\ w \in DeviceVars
        BY <1>3 DEF HandlesInv, HandlesKept
      <3>2. Keeps(s, w)
        BY <3>1 DEF HandlesInv, HandlesKept
      <3>3. device'[w] = device[w]
        BY <1>3, <3>1 DEF HandlesInv, HandlesObjects
      <3>4. sensor[s].parent \in 1 .. Len(wrapped)
        BY <1>1, <3>2 DEF HandlesInv, HandlesObjects, Keeps
      <3>5. wrapped'[sensor[s].parent] = wrapped[sensor[s].parent]
        BY <1>2, <3>4
      <3>. QED
        BY <1>3, <3>2, <3>3, <3>5 DEF Keeps
    <2>. QED
      BY <2>1, <2>2 DEF HandlesKept
  <1>. QED
    BY <1>4, <1>6, <1>7 DEF HandlesInv

LEMMA HandlesInvariant == Handles!Spec => []HandlesInv
  <1>1. Handles!Init => HandlesInv
    <2> SUFFICES ASSUME Handles!Init
                 PROVE  HandlesInv
      OBVIOUS
    <2>1. 0 \in 0 .. 0
      OBVIOUS
    <2>2. \A T : <<>> \in Seq(T) /\ Len(<<>>) = 0
      BY EmptySeq
    <2>3. /\ bus = {} /\ serial = <<>> /\ discovered = {} /\ list = <<>>
          /\ told = [v \in DeviceVars |-> ""]
      BY DEF Handles!Init
    <2>4. /\ profile = 0 /\ made = <<>> /\ wrapped = <<>> /\ device = [v \in DeviceVars |-> 0]
          /\ sensor = [s \in SensorVars |-> [parent |-> 0, sensor |-> 0]]
      BY DEF Handles!Init, Handles!NoSensor
    <2>5. HandlesBus
      <3>0. Len(list) = 0
        BY <2>2, <2>3, Zenon
      <3>1. Len(list) <= 1
        BY <3>0
      <3>. QED
        BY <2>2, <2>3, <3>1 DEF HandlesBus
    <2>6. HandlesObjects
      BY <2>1, <2>2, <2>4 DEF HandlesObjects
    <2>7. HandlesKept
      BY DEF Handles!Init, HandlesKept
    <2>. QED
      BY <2>5, <2>6, <2>7 DEF HandlesInv
  <1>2. HandlesInv /\ [Handles!Next]_(Handles!vars) => HandlesInv'
    <2> SUFFICES ASSUME HandlesInv, HandlesBus, HandlesObjects, HandlesKept,
                        [Handles!Next]_(Handles!vars)
                 PROVE  HandlesInv'
      BY DEF HandlesInv
    <2> USE DEF Handles!usb, Handles!heard, Handles!objects
    <2>a. /\ Len(serial) \in Nat /\ Len(made) \in Nat /\ Len(wrapped) \in Nat
      BY LenProperties DEF HandlesBus, HandlesObjects
    <2>0. CASE UNCHANGED Handles!vars
      BY <2>0 DEF Handles!vars, HandlesInv, HandlesBus, HandlesObjects, HandlesKept, Keeps
    <2>1. ASSUME NEW n \in Cameras, Handles!Plug(n)
          PROVE  HandlesInv'
      <3>1. /\ serial' = Append(serial, n) /\ bus' = bus \cup {Len(serial')}
            /\ UNCHANGED <<discovered, told, list, profile, made, wrapped, device, sensor, kept>>
        BY <2>1 DEF Handles!Plug
      <3>2. serial' \in Seq(Cameras) /\ Len(serial') = Len(serial) + 1
        BY <3>1, AppendProperties DEF HandlesBus
      <3>3. 1 .. Len(serial) \subseteq 1 .. Len(serial') /\ Len(serial') \in 1 .. Len(serial')
        BY <2>a, <3>2
      <3>4. list \in Seq(1 .. Len(serial')) /\ made \in Seq(1 .. Len(serial'))
        <4>1. Len(serial') \in Nat /\ Len(serial) <= Len(serial')
          BY <2>a, <3>2
        <4>2. list \in Seq(1 .. Len(serial)) /\ made \in Seq(1 .. Len(serial))
          BY DEF HandlesBus, HandlesObjects
        <4>. QED
          BY <2>a, <4>1, <4>2, SeqWidens
      <3>5. HandlesBus'
        BY <3>1, <3>2, <3>3, <3>4 DEF HandlesBus
      <3>6. HandlesObjects'
        BY <3>1, <3>4 DEF HandlesObjects
      <3>7. HandlesKept'
        BY <3>1 DEF HandlesKept, Keeps
      <3>. QED
        BY <3>5, <3>6, <3>7 DEF HandlesInv
    <2>2. ASSUME NEW c \in bus, Handles!Unplug(c)
          PROVE  HandlesInv'
      <3> USE <2>2 DEF Handles!Unplug
      <3>1. HandlesBus'
        BY DEF HandlesBus
      <3>2. HandlesObjects'
        BY DEF HandlesObjects
      <3>3. HandlesKept'
        BY DEF HandlesKept, Keeps
      <3>. QED
        BY <3>1, <3>2, <3>3 DEF HandlesInv
    <2>3. CASE Handles!Poll
      <3>1. /\ discovered' = bus
            /\ UNCHANGED <<bus, serial, list, profile, made, wrapped, device, sensor, kept>>
        BY <2>3 DEF Handles!Poll
      <3>2. told' \in [DeviceVars -> {"", "connected", "disconnected"}]
        <4>1. \/ \E e : Handles!OnDevicesChanged(e)
              \/ told' = [v \in DeviceVars |-> ""]
          BY <2>3 DEF Handles!Poll
        <4>. QED
          BY <4>1, Answers
      <3>3. HandlesBus'
        BY <3>1, <3>2 DEF HandlesBus
      <3>4. HandlesObjects'
        BY <3>1 DEF HandlesObjects
      <3>5. HandlesKept'
        BY <3>1 DEF HandlesKept, Keeps
      <3>. QED
        BY <3>3, <3>4, <3>5 DEF HandlesInv
    <2>4. CASE Handles!QueryDevices
      <3>1. /\ list' = Handles!Entries(bus)
            /\ UNCHANGED <<bus, serial, discovered, told, profile, made, wrapped, device, sensor, kept>>
        BY <2>4 DEF Handles!QueryDevices
      <3>2. list' \in Seq(1 .. Len(serial)) /\ Len(list') <= 1
        <4>1. CASE bus = {}
          BY <3>1, <4>1 DEF Handles!Entries, Handles!CreateDevices
        <4>2. CASE bus # {}
          <5>1. Handles!Min(bus) \in 1 .. Len(serial)
            BY <4>2, FirstCamera DEF HandlesBus
          <5>2. list' = <<Handles!Min(bus)>>
            BY <3>1, <4>2 DEF Handles!Entries, Handles!CreateDevices
          <5>. QED
            BY <5>1, <5>2
        <4>. QED
          BY <4>1, <4>2
      <3>3. HandlesBus'
        BY <3>1, <3>2 DEF HandlesBus
      <3>4. HandlesObjects'
        BY <3>1 DEF HandlesObjects
      <3>5. HandlesKept'
        BY <3>1 DEF HandlesKept, Keeps
      <3>. QED
        BY <3>3, <3>4, <3>5 DEF HandlesInv
    <2>5. CASE Handles!StartPipeline
      <3> DEFINE c == Handles!Min(bus)
      <3>1. /\ bus # {} /\ made' = Append(made, c) /\ profile' = Len(made')
            /\ UNCHANGED <<bus, serial, discovered, told, list, wrapped, device, sensor, kept>>
        BY <2>5 DEF Handles!StartPipeline
      <3>2. c \in 1 .. Len(serial)
        BY <3>1, FirstCamera DEF HandlesBus
      <3> HIDE DEF c
      <3>3. made' \in Seq(1 .. Len(serial)) /\ Len(made') = Len(made) + 1
        BY <2>a, <3>1, <3>2, AppendNumber DEF HandlesObjects
      <3>4. wrapped \in Seq(1 .. Len(made'))
        BY <2>a, <3>3, SeqWidens DEF HandlesObjects
      <3>5. HandlesBus'
        BY <3>1 DEF HandlesBus
      <3>6. HandlesObjects'
        <4>1. 0 .. Len(made) \subseteq 0 .. Len(made') /\ Len(made') \in 0 .. Len(made')
          BY <2>a, <3>3
        <4>. QED
          BY <3>1, <3>3, <3>4, <4>1 DEF HandlesObjects
      <3>7. HandlesKept'
        BY <3>1 DEF HandlesKept, Keeps
      <3>. QED
        BY <3>5, <3>6, <3>7 DEF HandlesInv
    <2>6. CASE Handles!StopPipeline
      <3> USE <2>6 DEF Handles!StopPipeline
      <3>1. HandlesBus'
        BY DEF HandlesBus
      <3>2. HandlesObjects'
        BY <2>a DEF HandlesObjects
      <3>3. HandlesKept'
        BY DEF HandlesKept, Keeps
      <3>. QED
        BY <3>1, <3>2, <3>3 DEF HandlesInv
    <2>7. ASSUME NEW v \in DeviceVars, NEW i \in DOMAIN list, Handles!Index(v, i)
          PROVE  HandlesInv'
      <3> DEFINE c == list[i]
      <3>1. c \in 1 .. Len(serial)
        <4>1. list \in Seq(1 .. Len(serial))
          BY DEF HandlesBus
        <4>2. i \in 1 .. Len(list)
          BY <4>1, LenProperties
        <4>. QED
          BY <4>1, <4>2, ElementOfSeq
      <3> HIDE DEF c
      <3>2. CASE UNCHANGED <<made, wrapped, device, kept>>
        <4>1. UNCHANGED <<bus, serial, discovered, told, list, profile, sensor>>
          BY <2>7 DEF Handles!Index, Handles!Frees
        <4>. QED
          BY <3>2, <4>1 DEF HandlesInv, HandlesBus, HandlesObjects, HandlesKept, Keeps
      <3>3. CASE Handles!Wrap(c) /\ Handles!Assign(v, Len(wrapped)') /\ Handles!Forget(v)
        <4>1. made' = Append(made, c) /\ wrapped' = Append(wrapped, Len(made'))
          BY <3>3 DEF Handles!Wrap
        <4>2. made' \in Seq(1 .. Len(serial)) /\ Len(made') = Len(made) + 1
          BY <2>a, <3>1, <4>1, AppendNumber DEF HandlesObjects
        <4>3. Len(made') \in 1 .. Len(made)' /\ Len(made) <= Len(made)'
          BY <2>a, <4>2
        <4>4. Handles!Frees
          BY <2>7 DEF Handles!Index
        <4>. QED
          BY <3>3, <4>1, <4>2, <4>3, <4>4, AssignNew
      <3>. QED
        BY <2>7, <3>2, <3>3 DEF Handles!Index, c
    <2>8. ASSUME NEW v \in DeviceVars, Handles!GetDevice(v)
          PROVE  HandlesInv'
      <3>1. /\ wrapped' = Append(wrapped, profile) /\ UNCHANGED <<made, profile>> /\ profile # 0
            /\ Handles!Assign(v, Len(wrapped)') /\ Handles!Forget(v) /\ Handles!Frees
        BY <2>8 DEF Handles!GetDevice, Handles!Share, Handles!Frees
      <3>2. profile \in 1 .. Len(made)' /\ Len(made) <= Len(made)' /\ made' \in Seq(1 .. Len(serial))
        BY <2>a, <3>1 DEF HandlesObjects
      <3>. QED
        BY <3>1, <3>2, AssignNew
    <2>9. ASSUME NEW v \in DeviceVars, Handles!Drop(v)
          PROVE  HandlesInv'
      <3> USE <2>9 DEF Handles!Drop, Handles!Assign, Handles!Forget, Handles!Frees
      <3>1. HandlesBus'
        BY DEF HandlesBus
      <3>2. HandlesObjects'
        BY <2>a DEF HandlesObjects
      <3>3. HandlesKept'
        BY DEF HandlesObjects, HandlesKept, Keeps
      <3>. QED
        BY <3>1, <3>2, <3>3 DEF HandlesInv
    <2>10. ASSUME NEW v \in DeviceVars, NEW w \in DeviceVars, Handles!Copy(v, w)
          PROVE  HandlesInv'
      <3>1. /\ device' = [device EXCEPT ![v] = device[w]] /\ v # w
            /\ kept' = [s \in SensorVars |-> IF w \in kept[s] THEN kept[s] \cup {v}
                                             ELSE kept[s] \ {v}]
            /\ UNCHANGED <<bus, serial, discovered, told, list, profile, made, wrapped, sensor>>
        BY <2>10 DEF Handles!Copy, Handles!Assign, Handles!Frees
      <3>2. HandlesBus'
        BY <3>1 DEF HandlesBus
      <3>3. HandlesObjects'
        BY <3>1 DEF HandlesObjects
      <3>4. HandlesKept'
        <4>1. kept' \in [SensorVars -> SUBSET DeviceVars]
          BY <3>1 DEF HandlesKept
        <4>2. ASSUME NEW s \in SensorVars, NEW u \in kept'[s]
              PROVE  Keeps(s, u)'
          <5>0. u \in DeviceVars
            BY <4>1
          <5>1. (u # v /\ u \in kept[s]) \/ (u = v /\ w \in kept[s])
            BY <3>1
          <5>2. \/ Keeps(s, u) /\ device'[u] = device[u]
                \/ Keeps(s, w) /\ device'[u] = device[w]
            BY <3>1, <5>0, <5>1 DEF HandlesKept, HandlesObjects
          <5>. QED
            BY <3>1, <5>2 DEF Keeps
        <4>. QED
          BY <4>1, <4>2 DEF HandlesKept
      <3>. QED
        BY <3>2, <3>3, <3>4 DEF HandlesInv
    <2>11. ASSUME NEW v \in DeviceVars, NEW s \in SensorVars, Handles!QuerySensors(v, s)
          PROVE  HandlesInv'
      <3> DEFINE p == [parent |-> device[v], sensor |-> wrapped[device[v]]]
                 K == {w \in DeviceVars : device[w] = device[v]}
      <3>1. /\ device[v] # 0 /\ sensor' = [sensor EXCEPT ![s] = p] /\ kept' = [kept EXCEPT ![s] = K]
            /\ UNCHANGED <<bus, serial, discovered, told, list, profile, made, wrapped, device>>
        BY <2>11 DEF Handles!QuerySensors, Handles!AssignSensor, Handles!SensorOf
      <3>2. device[v] \in 1 .. Len(wrapped)
        BY <2>a, <3>1 DEF HandlesObjects
      <3>3. wrapped[device[v]] \in 0 .. Len(made)
        BY <2>a, <3>2 DEF HandlesObjects
      <3>4. p \in [parent : 0 .. Len(wrapped), sensor : 0 .. Len(made)]
        BY <2>a, <3>2, <3>3
      <3>5. /\ p.parent = device[v] /\ p.sensor = wrapped[device[v]]
            /\ K \in SUBSET DeviceVars /\ \A w \in K : device[w] = device[v]
        OBVIOUS
      <3> HIDE DEF p, K
      <3>6. HandlesBus'
        BY <3>1 DEF HandlesBus
      <3>7. HandlesObjects'
        BY <3>1, <3>4 DEF HandlesObjects
      <3>8. HandlesKept'
        <4>1. kept' \in [SensorVars -> SUBSET DeviceVars]
          BY <3>1, <3>5 DEF HandlesKept
        <4>2. ASSUME NEW t \in SensorVars, NEW w \in kept'[t]
              PROVE  Keeps(t, w)'
          <5>1. CASE t = s
            <6>1. w \in K /\ sensor'[t] = p
              BY <3>1, <5>1 DEF HandlesKept, HandlesObjects
            <6>. QED
              BY <3>1, <3>5, <6>1 DEF Keeps
          <5>2. CASE t # s
            BY <3>1, <5>2 DEF HandlesKept, HandlesObjects, Keeps
          <5>. QED
            BY <5>1, <5>2
        <4>. QED
          BY <4>1, <4>2 DEF HandlesKept
      <3>. QED
        BY <3>6, <3>7, <3>8 DEF HandlesInv
    <2>12. ASSUME NEW v \in DeviceVars, NEW s \in SensorVars, Handles!GetSensorParent(v, s)
          PROVE  HandlesInv'
      <3> DEFINE d == wrapped[sensor[s].parent]
      <3>1. /\ kept[s] # {} /\ wrapped' = Append(wrapped, d) /\ made' = made
            /\ Handles!Assign(v, Len(wrapped)') /\ Handles!Forget(v) /\ Handles!Frees
        BY <2>12 DEF Handles!GetSensorParent, Handles!Share
      <3>2. sensor[s].parent \in 1 .. Len(wrapped)
        <4>1. PICK w \in kept[s] : Keeps(s, w)
          BY <3>1 DEF HandlesKept
        <4>2. sensor[s].parent \in 0 .. Len(wrapped)
          BY DEF HandlesObjects
        <4>. QED
          BY <2>a, <4>1, <4>2 DEF Keeps
      <3>3. d \in 1 .. Len(made)
        BY <3>2 DEF HandlesObjects
      <3> HIDE DEF d
      <3>4. d \in 1 .. Len(made)' /\ Len(made) <= Len(made)' /\ made' \in Seq(1 .. Len(serial))
        BY <2>a, <3>1, <3>3 DEF HandlesObjects
      <3>. QED
        BY <3>1, <3>4, AssignNew
    <2>13. ASSUME NEW s \in SensorVars, Handles!QueryAllSensors(s)
          PROVE  HandlesInv'
      <3> DEFINE c == Handles!Begin(Handles!Entries(bus))
                 p == [parent |-> Len(wrapped'), sensor |-> wrapped'[Len(wrapped')]]
      <3>1. /\ bus # {} /\ made' = Append(made, c) /\ wrapped' = Append(wrapped, Len(made'))
            /\ sensor' = [sensor EXCEPT ![s] = p] /\ kept' = [kept EXCEPT ![s] = {}]
            /\ UNCHANGED <<bus, serial, discovered, told, list, profile, device>>
        BY <2>13 DEF Handles!QueryAllSensors, Handles!Wrap, Handles!AssignSensor, Handles!SensorOf
      <3>2. c \in 1 .. Len(serial)
        <4>1. Handles!Min(bus) \in 1 .. Len(serial)
          BY <3>1, FirstCamera DEF HandlesBus
        <4>2. c = Handles!Min(bus)
          BY <3>1 DEF Handles!Begin, Handles!Entries, Handles!CreateDevices
        <4>. QED
          BY <4>1, <4>2
      <3> HIDE DEF c
      <3>3. made' \in Seq(1 .. Len(serial)) /\ Len(made') = Len(made) + 1
        BY <2>a, <3>1, <3>2, AppendNumber DEF HandlesObjects
      <3>4. Len(made') \in Nat /\ Len(made) <= Len(made') /\ Len(made') \in 1 .. Len(made')
        BY <2>a, <3>3
      <3>5. /\ wrapped' \in Seq(1 .. Len(made')) /\ Len(wrapped') = Len(wrapped) + 1
            /\ wrapped'[Len(wrapped) + 1] = Len(made')
            /\ \A j \in 1 .. Len(wrapped) : wrapped'[j] = wrapped[j]
        BY <2>a, <3>1, <3>4, AppendNumber DEF HandlesObjects
      <3>6. p \in [parent : 0 .. Len(wrapped'), sensor : 0 .. Len(made')]
        <4>1. Len(wrapped') \in 0 .. Len(wrapped') /\ wrapped'[Len(wrapped')] \in 0 .. Len(made')
          BY <2>a, <3>4, <3>5
        <4>. QED
          BY <4>1
      <3> HIDE DEF p
      <3>7. HandlesBus'
        BY <3>1 DEF HandlesBus
      <3>8. HandlesObjects'
        <4>1. 0 .. Len(wrapped) \subseteq 0 .. Len(wrapped') /\ 0 .. Len(made) \subseteq 0 .. Len(made')
          BY <2>a, <3>3, <3>5
        <4>2. sensor' \in [SensorVars -> [parent : 0 .. Len(wrapped'), sensor : 0 .. Len(made')]]
          BY <3>1, <3>6, <4>1 DEF HandlesObjects
        <4>3. device' \in [DeviceVars -> 0 .. Len(wrapped')] /\ profile' \in 0 .. Len(made')
          BY <3>1, <4>1 DEF HandlesObjects
        <4>. QED
          BY <3>1, <3>3, <3>5, <4>2, <4>3 DEF HandlesObjects
      <3>9. HandlesKept'
        <4>1. kept' \in [SensorVars -> SUBSET DeviceVars]
          BY <3>1 DEF HandlesKept
        <4>2. ASSUME NEW t \in SensorVars, NEW w \in kept'[t]
              PROVE  Keeps(t, w)'
          <5>1. t # s /\ w \in kept[t] /\ sensor'[t] = sensor[t]
            BY <3>1 DEF HandlesKept, HandlesObjects
          <5>2. Keeps(t, w) /\ sensor[t].parent \in 0 .. Len(wrapped)
            BY <5>1 DEF HandlesKept, HandlesObjects
          <5>3. sensor[t].parent \in 1 .. Len(wrapped)
            BY <2>a, <5>2 DEF Keeps
          <5>4. wrapped'[sensor[t].parent] = wrapped[sensor[t].parent]
            BY <3>5, <5>3
          <5>. QED
            BY <3>1, <5>1, <5>2, <5>4 DEF Keeps
        <4>. QED
          BY <4>1, <4>2 DEF HandlesKept
      <3>. QED
        BY <3>7, <3>8, <3>9 DEF HandlesInv
    <2>. QED
      BY <2>0, <2>1, <2>2, <2>3, <2>4, <2>5, <2>6, <2>7, <2>8, <2>9, <2>10, <2>11, <2>12, <2>13
         DEF Handles!Next
  <1>. QED
    BY <1>1, <1>2, PTL DEF Handles!Spec

\* The lists, objects and variables keep their types: every pointer of an SeDevice, of the
\* pipeline, of a Device and of a Sensor leads to an object that was made.
THEOREM HandlesTypeCorrect == Handles!Spec => []Handles!TypeOK
  <1>1. HandlesInv => Handles!TypeOK
    BY DEF HandlesInv, HandlesBus, HandlesObjects, Handles!TypeOK
  <1>. QED
    BY <1>1, HandlesInvariant, PTL

\* A Sensor, with its two raw pointers, can be used as long as the application keeps the
\* device it came from in whichever variable, for any number of variables, cameras and
\* objects (sensor.h:31-37, device.hpp:40-83).
THEOREM SensorsStayUsable == Handles!Spec => []SensorsUsable
  <1>1. HandlesInv => SensorsUsable
    <2> SUFFICES ASSUME HandlesInv, NEW s \in SensorVars, kept[s] # {}
                 PROVE  /\ Handles!SeDeviceLives(sensor[s].parent)
                        /\ Handles!DeviceLives(sensor[s].sensor)
                        /\ wrapped[sensor[s].parent] = sensor[s].sensor
      BY DEF SensorsUsable, Handles!SensorsUsable
    <2>1. PICK v \in DeviceVars : Keeps(s, v)
      BY DEF HandlesInv, HandlesKept
    <2>. QED
      BY <2>1 DEF Keeps, Handles!SeDeviceLives, Handles!DeviceLives
  <1>. QED
    BY <1>1, HandlesInvariant, PTL

----------------------------------------------------------------------------
(* HoldersTold: with one camera at a time *)

\* No more cameras than AtOnce are plugged in, or known to the watcher.
CamerasAtOnce == Handles!Cardinality(bus) <= AtOnce /\ Handles!Cardinality(discovered) <= AtOnce

LEMMA HandlesSets ==
    ASSUME NEW S
    PROVE  Handles!Cardinality(S) = Cardinality(S)
  BY DEF Handles!IsFiniteSet, IsFiniteSet, Handles!Cardinality, Cardinality

LEMMA BusFinite ==
    ASSUME HandlesBus, NEW D \in SUBSET (1 .. Len(serial))
    PROVE  IsFiniteSet(D) /\ Cardinality(D) \in Nat /\ (Cardinality(D) = 0 <=> D = {})
  <1>1. Len(serial) \in Nat
    BY LenProperties DEF HandlesBus
  <1>2. IsFiniteSet(1 .. Len(serial))
    BY <1>1, FS_Interval
  <1>3. IsFiniteSet(D)
    BY <1>2, FS_Subset
  <1>. QED
    BY <1>3, FS_CardinalityType, FS_EmptySet

LEMMA CamerasInvariant == Handles!Spec => []CamerasAtOnce
  <1>1. Handles!Init => CamerasAtOnce
    <2> SUFFICES ASSUME Handles!Init
                 PROVE  CamerasAtOnce
      OBVIOUS
    <2>1. bus = {} /\ discovered = {}
      BY DEF Handles!Init
    <2>2. Handles!Cardinality({}) = 0
      BY HandlesSets, FS_EmptySet
    <2>3. AtOnce \in Nat
      BY HandlesAssumed DEF Handles!DeviceHandlesAssumption
    <2>4. 0 <= AtOnce
      BY <2>3
    <2>. QED
      BY <2>1, <2>2, <2>4, Zenon DEF CamerasAtOnce
  <1>2. HandlesInv /\ CamerasAtOnce /\ [Handles!Next]_(Handles!vars) => CamerasAtOnce'
    <2> SUFFICES ASSUME HandlesInv, CamerasAtOnce, [Handles!Next]_(Handles!vars)
                 PROVE  CamerasAtOnce'
      OBVIOUS
    <2> USE DEF Handles!usb, Handles!heard, Handles!objects
    <2>a. AtOnce \in Nat
      BY HandlesAssumed DEF Handles!DeviceHandlesAssumption
    <2>b. IsFiniteSet(bus) /\ Cardinality(bus) \in Nat
      BY BusFinite DEF HandlesInv, HandlesBus
    <2>1. CASE UNCHANGED <<bus, discovered>>
      BY <2>1 DEF CamerasAtOnce
    <2>2. ASSUME NEW n \in Cameras, Handles!Plug(n)
          PROVE  CamerasAtOnce'
      <3> DEFINE c == Len(serial')
      <3>1. Handles!Cardinality(bus) < AtOnce /\ bus' = bus \cup {c} /\ discovered' = discovered
        BY <2>2 DEF Handles!Plug
      <3> HIDE DEF c
      <3>2. Cardinality(bus \cup {c}) = IF c \in bus THEN Cardinality(bus) ELSE Cardinality(bus) + 1
        BY <2>b, FS_AddElement
      <3>3. Handles!Cardinality(bus) = Cardinality(bus)
            /\ Handles!Cardinality(bus \cup {c}) = Cardinality(bus \cup {c})
        BY HandlesSets
      <3>4. Handles!Cardinality(bus \cup {c}) <= AtOnce
        BY <2>a, <2>b, <3>1, <3>2, <3>3
      <3>. QED
        BY <3>1, <3>4 DEF CamerasAtOnce
    <2>3. ASSUME NEW c \in bus, Handles!Unplug(c)
          PROVE  CamerasAtOnce'
      <3>1. bus' = bus \ {c} /\ discovered' = discovered
        BY <2>3 DEF Handles!Unplug
      <3>2. Cardinality(bus \ {c}) = Cardinality(bus) - 1
        BY <2>b, FS_RemoveElement
      <3>3. Handles!Cardinality(bus) = Cardinality(bus)
            /\ Handles!Cardinality(bus \ {c}) = Cardinality(bus \ {c})
        BY HandlesSets
      <3>4. Handles!Cardinality(bus \ {c}) <= AtOnce
        BY <2>a, <2>b, <3>2, <3>3 DEF CamerasAtOnce
      <3>. QED
        BY <3>1, <3>4 DEF CamerasAtOnce
    <2>4. CASE Handles!Poll
      BY <2>4 DEF Handles!Poll, CamerasAtOnce
    <2>5. \/ \E n \in Cameras : Handles!Plug(n)
          \/ \E c \in bus : Handles!Unplug(c)
          \/ Handles!Poll
          \/ UNCHANGED <<bus, discovered>>
      <3>1. CASE UNCHANGED Handles!vars
        BY <3>1 DEF Handles!vars
      <3>2. CASE Handles!Next
        BY <3>2 DEF Handles!Next, Handles!QueryDevices, Handles!StartPipeline, Handles!StopPipeline,
              Handles!Index, Handles!GetDevice, Handles!Drop, Handles!Copy, Handles!QuerySensors,
              Handles!GetSensorParent, Handles!QueryAllSensors, Handles!Frees
      <3>. QED
        BY <3>1, <3>2
    <2>. QED
      BY <2>1, <2>2, <2>3, <2>4, <2>5
  <1>. QED
    BY <1>1, <1>2, HandlesInvariant, PTL DEF Handles!Spec

\* With one camera at a time, a poll that finds a camera gone has told each holder of its
\* device so (hello_smartereye's "current device disconnected!!!"), however often cameras
\* come and go and whatever is assigned meanwhile.
THEOREM HoldersAreTold ==
    ASSUME AtOnce <= 1
    PROVE  Handles!Spec => HoldersTold
  <1>1. ASSUME HandlesInv, CamerasAtOnce, Handles!Poll, NEW v \in DeviceVars, device[v] # 0,
               Handles!CameraOf(v) \in discovered, Handles!CameraOf(v) \notin bus
        PROVE  told'[v] = "disconnected"
    <2> DEFINE old == Handles!CreateDevices(discovered)
               new == Handles!CreateDevices(bus)
               e == [removed |-> old, added |-> new]
    <2>1. AtOnce \in Nat
      BY HandlesAssumed DEF Handles!DeviceHandlesAssumption
    <2>2. /\ Cardinality(bus) \in Nat /\ (Cardinality(bus) = 0 <=> bus = {})
          /\ Cardinality(discovered) \in Nat /\ (Cardinality(discovered) = 0 <=> discovered = {})
      BY <1>1, BusFinite DEF HandlesInv, HandlesBus
    <2>3. /\ Handles!Cardinality(bus) = Cardinality(bus)
          /\ Handles!Cardinality(discovered) = Cardinality(discovered)
      BY HandlesSets
    <2>4. Cardinality(discovered) # Cardinality(bus) /\ discovered # {}
      BY <1>1, <2>3 DEF Handles!Poll
    <2>5. Cardinality(bus) <= 1 /\ Cardinality(discovered) <= 1
      BY <1>1, <2>1, <2>2, <2>3 DEF CamerasAtOnce
    <2>6. bus = {}
      BY <2>2, <2>4, <2>5
    <2>7. new = {} /\ old = {Handles!Min(discovered)}
      BY <2>4, <2>6 DEF Handles!CreateDevices
    <2>8. Handles!Cardinality(old) # Handles!Cardinality(new)
      <3>1. Cardinality({}) = 0
        BY FS_EmptySet
      <3>2. Cardinality({Handles!Min(discovered)}) = 1
        BY FS_Singleton
      <3>3. Handles!Cardinality(old) = 1 /\ Handles!Cardinality(new) = 0
        BY <2>7, <3>1, <3>2, HandlesSets
      <3>. QED
        BY <3>3
    <2>9. Handles!OnDevicesChanged(e)
      BY <1>1, <2>8 DEF Handles!Poll
    <2>10. ~Handles!WasAdded(v, e)
      BY <2>7 DEF Handles!WasAdded
    <2>11. Handles!WasRemoved(v, e)
      BY <1>1, <2>7 DEF Handles!WasRemoved, Handles!SameData
    <2> HIDE DEF e
    <2>. QED
      BY <2>9, <2>10, <2>11, Answers
  <1>2. HandlesInv /\ CamerasAtOnce /\ [Handles!Next]_(Handles!vars) =>
            [Handles!Poll => \A v \in DeviceVars :
                device[v] # 0 /\ Handles!CameraOf(v) \in discovered /\ Handles!CameraOf(v) \notin bus
                   => told'[v] = "disconnected"]_(Handles!vars)
    BY <1>1
  <1>. QED
    BY <1>2, HandlesInvariant, CamerasInvariant, PTL
       DEF Handles!Spec, HoldersTold, Handles!HoldersTold

----------------------------------------------------------------------------
\* The parts side by side keep their types.
THEOREM TypesCorrect == Spec /\ Usb!Spec /\ Config!Spec /\ Handles!Spec => []TypesOK
  <1>1. TypeOK /\ Usb!TypeOK /\ Config!TypeOK /\ Handles!TypeOK => TypesOK
    BY DEF TypesOK
  <1>. QED
    BY <1>1, TypeCorrect, UsbTypeCorrect, ConfigTypeCorrect, HandlesTypeCorrect, PTL

=============================================================================
