--------------------------- MODULE WatchdogProofs ---------------------------
(***************************************************************************)
(* Proofs about Watchdog, for any callers.                                 *)
(***************************************************************************)
EXTENDS Watchdog, TLAPS, SequenceTheorems

\* A kick during the sleep is still there when kicked_ is tested.
KickSeen == opc \in {"sleep", "check"} /\ ~silent => kicked

LEMMA KickSeenInvariant == Spec => []KickSeen
  <1>1. Init => KickSeen
    BY DEF Init, KickSeen
  <1>2. KickSeen /\ [Next]_vars => KickSeen'
    <2> SUFFICES ASSUME KickSeen, [Next]_vars
                 PROVE  KickSeen'
      OBVIOUS
    <2> USE DEF KickSeen
    <2>0. CASE UNCHANGED vars
      BY <2>0 DEF vars, history
    <2>1. ASSUME NEW c \in Caller, CallStep(c)
          PROVE  KickSeen'
      BY <2>1 DEF CallStep, StartEnd, StopWatcher, StopEnd, Caught, history
    <2>2. ASSUME NEW c \in Caller, NewCall(c)
          PROVE  KickSeen'
      BY <2>2 DEF NewCall, StartBegin, StopBegin, Kick
    <2>3. CASE Take
      BY <2>3 DEF Take
    <2>4. CASE SleepCancelled \/ FireThrows \/ Reset \/ FireReturns
      BY <2>4 DEF SleepCancelled, FireThrows, Reset, FireReturns
    <2>5. CASE SleepOver \/ Check \/ Caught(R!LoopStep)
      BY <2>5 DEF SleepOver, Check, Caught, history
    <2>. QED
      BY <2>0, <2>1, <2>2, <2>3, <2>4, <2>5 DEF Next, WorkerStep
  <1>. QED
    BY <1>1, <1>2, PTL DEF Spec

\* operation_ runs only after a whole sleep without a kick (watchdog.h:27-31).
THEOREM FiresOnlyOnSilence == Spec => FiresOnSilence
  <1>1. KickSeen /\ [Next]_vars => [opc = "check" /\ opc' = "fire" => silent]_vars
    <2> SUFFICES ASSUME KickSeen, Next, opc = "check", opc' = "fire"
                 PROVE  silent
      OBVIOUS
    <2>1. Check
      <3>1. ASSUME NEW c \in Caller, CallStep(c) \/ NewCall(c)
            PROVE  opc' = opc
        BY <3>1 DEF CallStep, StartEnd, StopWatcher, StopEnd, Caught, NewCall, StartBegin,
                    StopBegin, Kick
      <3>2. ASSUME Caught(R!LoopStep)
            PROVE  opc' = opc
        BY <3>2 DEF Caught
      <3>. QED
        BY <3>1, <3>2 DEF Next, WorkerStep, Take, SleepCancelled, SleepOver, FireReturns,
                          FireThrows, Reset
    <2>. QED
      BY <2>1 DEF Check, KickSeen
  <1>. QED
    BY <1>1, KickSeenInvariant, PTL DEF Spec, FiresOnSilence

----------------------------------------------------------------------------
\* Inside the watchdog's start() and stop() a caller is outside watcher_ or in the call of
\* the same kind.
CallsMatch ==
    \A c \in Caller :
        /\ call[c] \in {"out", "stop"} => rpc[c] = "out"
        /\ call[c] = "starting" =>
              rpc[c] \in {"out", "start_open", "start_reopen", "start_offer", "start_queue"}
        /\ call[c] = "stopping" => rpc[c] \in {"out", "stop_close", "stop_clear", "stop_wait"}

\* What is offered is in the hands of a thread that is about to queue it.
OffersHeld ==
    \A x \in offered :
        (x \in Caller /\ rpc[x] = "start_queue") \/ (x = Worker /\ ipc = "queue")

\* A stop() that has met no start() meets none until it returns.  After its clear only
\* the item it waits for can offer, to a queue that this item keeps closed.
StopAlone ==
    \A c \in Caller : c \in clean =>
        /\ call[c] \in {"stop", "stopping"} => MutexFree
        /\ call[c] = "stopping" /\ rpc[c] = "stop_wait" =>
              pending = <<>> /\ (running # <<>> => c \in barrier /\ closed)
        /\ call[c] = "stopping" /\ rpc[c] = "out" => pending = <<>> /\ running = <<>>

AtRest == resting => MutexFree /\ pending = <<>> /\ running = <<>>

WatchdogInv == TypeOK /\ CallsMatch /\ OffersHeld /\ StopAlone /\ AtRest

\* A push that costs the oldest of one item leaves the new one.
LEMMA OneForOne ==
    ASSUME NEW S, NEW s \in Seq(S), Len(s) = 1, NEW y \in S
    PROVE  Tail(Append(s, y)) = <<y>>
  <1> DEFINE more == Append(s, y)
  <1>1. more \in Seq(S)
    OBVIOUS
  <1>2. Len(more) = 2 
    OBVIOUS
  <1>3. more[2] = y
    <2>1. more[Len(s) + 1] = y
      BY AppendProperties
    <2>. QED
      BY <2>1
  <1> HIDE DEF more
  <1> DEFINE rest == Tail(more)
  <1>4. rest \in Seq(S) /\ Len(rest) = 1
    BY <1>1, <1>2
  <1>5. rest[1] = y
    BY <1>1, <1>2, <1>3
  <1> HIDE DEF rest
  <1>6. rest = <<y>>
    BY <1>4, <1>5
  <1>. QED
    BY <1>6 DEF rest, more

\* The queue of watcher_ holds one item at most.
LEMMA QueueKeepsOne ==
    ASSUME NEW S, pending \in {<<>>} \cup {<<x>> : x \in S}, NEW y \in S, R!W!Queue(y)
    PROVE  pending' \in {<<>>} \cup {<<x>> : x \in S}
  <1>1. CASE pending = <<>>
    BY <1>1 DEF R!W!Queue
  <1>2. ASSUME NEW x \in S, pending = <<x>>
        PROVE  pending' \in {<<>>} \cup {<<z>> : z \in S}
    <2>1. Len(pending) = 1 /\ pending \in Seq(S)
      BY <1>2
    <2>2. Tail(Append(pending, y)) = <<y>>
      BY <2>1, OneForOne
    <2>. QED
      BY <1>2, <2>1, <2>2 DEF R!W!Queue
  <1>. QED
    BY <1>1, <1>2

LEMMA WatchdogInvariant == Spec => []WatchdogInv
  <1> USE WatchdogAssumption
  <1>1. Init => WatchdogInv
    BY DEF Init, R!RepeatInit, R!W!Init, WatchdogInv, TypeOK, R!TypeOK, CallsMatch,
           OffersHeld, StopAlone, AtRest
  <1>2. WatchdogInv /\ [Next]_vars => WatchdogInv'
    <2> SUFFICES ASSUME TypeOK, CallsMatch, OffersHeld, StopAlone, AtRest, [Next]_vars
                 PROVE  WatchdogInv'
      BY DEF WatchdogInv
    <2> USE DEF R!Goto, R!dispatcher, watcher, history, R!StoppedMutexFree, MutexFree
    <2>0. CASE UNCHANGED vars
      BY <2>0 DEF vars, WatchdogInv, TypeOK, R!TypeOK, CallsMatch, OffersHeld, StopAlone,
                  AtRest
    <2>1. ASSUME NEW c \in Caller, StartBegin(c)
          PROVE  WatchdogInv'
      <3> USE <2>1 DEF StartBegin, R!Start
      <3>1. TypeOK'
        BY DEF TypeOK, R!TypeOK
      <3>2. CallsMatch'
        BY DEF TypeOK, R!TypeOK, CallsMatch
      <3>3. OffersHeld'
        BY DEF TypeOK, R!TypeOK, CallsMatch, OffersHeld
      <3>4. StopAlone'
        BY DEF TypeOK, R!TypeOK, CallsMatch, OffersHeld, StopAlone
      <3>5. AtRest'
        BY DEF TypeOK, R!TypeOK, CallsMatch, OffersHeld, StopAlone, AtRest
      <3>. QED
        BY <3>1, <3>2, <3>3, <3>4, <3>5 DEF WatchdogInv
    <2>2. ASSUME NEW c \in Caller, StartEnd(c)
          PROVE  WatchdogInv'
      <3> USE <2>2 DEF StartEnd
      <3>1. TypeOK'
        BY DEF TypeOK, R!TypeOK
      <3>2. CallsMatch'
        BY DEF TypeOK, R!TypeOK, CallsMatch
      <3>3. OffersHeld'
        BY DEF TypeOK, R!TypeOK, CallsMatch, OffersHeld
      <3>4. StopAlone'
        BY DEF TypeOK, R!TypeOK, CallsMatch, OffersHeld, StopAlone
      <3>5. AtRest'
        BY DEF TypeOK, R!TypeOK, CallsMatch, OffersHeld, StopAlone, AtRest
      <3>. QED
        BY <3>1, <3>2, <3>3, <3>4, <3>5 DEF WatchdogInv
    <2>3. ASSUME NEW c \in Caller, StopBegin(c)
          PROVE  WatchdogInv'
      <3> USE <2>3 DEF StopBegin
      <3>1. TypeOK'
        BY DEF TypeOK, R!TypeOK
      <3>2. CallsMatch'
        BY DEF TypeOK, R!TypeOK, CallsMatch
      <3>3. OffersHeld'
        BY DEF TypeOK, R!TypeOK, CallsMatch, OffersHeld
      <3>4. StopAlone'
        BY DEF TypeOK, R!TypeOK, CallsMatch, OffersHeld, StopAlone
      <3>5. AtRest'
        BY DEF TypeOK, R!TypeOK, CallsMatch, OffersHeld, StopAlone, AtRest
      <3>. QED
        BY <3>1, <3>2, <3>3, <3>4, <3>5 DEF WatchdogInv
    <2>4. ASSUME NEW c \in Caller, StopWatcher(c)
          PROVE  WatchdogInv'
      <3> USE <2>4 DEF StopWatcher, R!Stop
      <3>1. TypeOK'
        BY DEF TypeOK, R!TypeOK
      <3>2. CallsMatch'
        BY DEF TypeOK, R!TypeOK, CallsMatch
      <3>3. OffersHeld'
        BY DEF TypeOK, R!TypeOK, CallsMatch, OffersHeld
      <3>4. StopAlone'
        BY DEF TypeOK, R!TypeOK, CallsMatch, OffersHeld, StopAlone
      <3>5. AtRest'
        BY DEF TypeOK, R!TypeOK, CallsMatch, OffersHeld, StopAlone, AtRest
      <3>. QED
        BY <3>1, <3>2, <3>3, <3>4, <3>5 DEF WatchdogInv
    <2>5. ASSUME NEW c \in Caller, StopEnd(c)
          PROVE  WatchdogInv'
      <3> USE <2>5 DEF StopEnd
      <3>1. TypeOK'
        BY DEF TypeOK, R!TypeOK
      <3>2. CallsMatch'
        BY DEF TypeOK, R!TypeOK, CallsMatch
      <3>3. OffersHeld'
        BY DEF TypeOK, R!TypeOK, CallsMatch, OffersHeld
      <3>4. StopAlone'
        BY DEF TypeOK, R!TypeOK, CallsMatch, OffersHeld, StopAlone
      <3>5. AtRest'
        BY DEF TypeOK, R!TypeOK, CallsMatch, OffersHeld, StopAlone, AtRest
      <3>. QED
        BY <3>1, <3>2, <3>3, <3>4, <3>5 DEF WatchdogInv
    <2>6. ASSUME NEW c \in Caller, Kick(c)
          PROVE  WatchdogInv'
      <3> USE <2>6 DEF Kick
      <3>1. TypeOK'
        BY DEF TypeOK, R!TypeOK
      <3>2. CallsMatch'
        BY DEF TypeOK, R!TypeOK, CallsMatch
      <3>3. OffersHeld'
        BY DEF TypeOK, R!TypeOK, CallsMatch, OffersHeld
      <3>4. StopAlone'
        BY DEF TypeOK, R!TypeOK, CallsMatch, OffersHeld, StopAlone
      <3>5. AtRest'
        BY DEF TypeOK, R!TypeOK, CallsMatch, OffersHeld, StopAlone, AtRest
      <3>. QED
        BY <3>1, <3>2, <3>3, <3>4, <3>5 DEF WatchdogInv
    <2>7. ASSUME NEW c \in Caller, Caught(R!StartOpen(c))
          PROVE  WatchdogInv'
      <3> USE <2>7 DEF Caught, R!StartOpen, R!W!Open
      <3>1. TypeOK'
        BY DEF TypeOK, R!TypeOK
      <3>2. CallsMatch'
        BY DEF TypeOK, R!TypeOK, CallsMatch
      <3>3. OffersHeld'
        BY DEF TypeOK, R!TypeOK, CallsMatch, OffersHeld
      <3>4. StopAlone'
        BY DEF TypeOK, R!TypeOK, CallsMatch, OffersHeld, StopAlone
      <3>5. AtRest'
        BY DEF TypeOK, R!TypeOK, CallsMatch, OffersHeld, StopAlone, AtRest
      <3>. QED
        BY <3>1, <3>2, <3>3, <3>4, <3>5 DEF WatchdogInv
    <2>8. ASSUME NEW c \in Caller, Caught(R!StartReopen(c))
          PROVE  WatchdogInv'
      <3> USE <2>8 DEF Caught, R!StartReopen, R!W!Reopen
      <3>1. TypeOK'
        BY DEF TypeOK, R!TypeOK
      <3>2. CallsMatch'
        BY DEF TypeOK, R!TypeOK, CallsMatch
      <3>3. OffersHeld'
        BY DEF TypeOK, R!TypeOK, CallsMatch, OffersHeld
      <3>4. StopAlone'
        BY DEF TypeOK, R!TypeOK, CallsMatch, OffersHeld, StopAlone
      <3>5. AtRest'
        BY DEF TypeOK, R!TypeOK, CallsMatch, OffersHeld, StopAlone, AtRest
      <3>. QED
        BY <3>1, <3>2, <3>3, <3>4, <3>5 DEF WatchdogInv
    <2>9. ASSUME NEW c \in Caller, Caught(R!StartOffer(c))
          PROVE  WatchdogInv'
      <3> USE <2>9 DEF Caught, R!StartOffer, R!W!Offer
      <3>1. TypeOK'
        BY DEF TypeOK, R!TypeOK
      <3>2. CallsMatch'
        BY DEF TypeOK, R!TypeOK, CallsMatch
      <3>3. OffersHeld'
        <4>1. \A x \in offered' : x = c \/ x \in offered
          OBVIOUS
        <4>2. c \in offered' => rpc'[c] = "start_queue"
          BY DEF TypeOK, R!TypeOK, OffersHeld
        <4>3. ipc' = ipc /\ \A x \in Caller : x # c => rpc'[x] = rpc[x]
          BY DEF TypeOK, R!TypeOK
        <4>. QED
          BY <4>1, <4>2, <4>3 DEF OffersHeld
      <3>4. StopAlone'
        BY DEF TypeOK, R!TypeOK, CallsMatch, OffersHeld, StopAlone
      <3>5. AtRest'
        BY DEF TypeOK, R!TypeOK, CallsMatch, OffersHeld, StopAlone, AtRest
      <3>. QED
        BY <3>1, <3>2, <3>3, <3>4, <3>5 DEF WatchdogInv
    <2>10. ASSUME NEW c \in Caller, Caught(R!StartQueue(c))
          PROVE  WatchdogInv'
      <3> USE <2>10 DEF Caught, R!StartQueue, R!W!Queue
      <3>1. TypeOK'
        <4>1. pending' \in {<<>>} \cup {<<x>> : x \in Caller \cup {Worker}}
          BY QueueKeepsOne DEF TypeOK, R!TypeOK
        <4>2. offered' \subseteq Caller \cup {Worker}
          BY DEF TypeOK, R!TypeOK
        <4>. QED
          BY <4>1, <4>2 DEF TypeOK, R!TypeOK
      <3>2. CallsMatch'
        BY DEF TypeOK, R!TypeOK, CallsMatch
      <3>3. OffersHeld'
        BY DEF TypeOK, R!TypeOK, CallsMatch, OffersHeld
      <3>4. StopAlone'
        BY DEF TypeOK, R!TypeOK, CallsMatch, OffersHeld, StopAlone
      <3>5. AtRest'
        BY DEF TypeOK, R!TypeOK, CallsMatch, OffersHeld, StopAlone, AtRest
      <3>. QED
        BY <3>1, <3>2, <3>3, <3>4, <3>5 DEF WatchdogInv
    <2>11. ASSUME NEW c \in Caller, Caught(R!StopClose(c))
          PROVE  WatchdogInv'
      <3> USE <2>11 DEF Caught, R!StopClose, R!W!Close
      <3>1. TypeOK'
        BY DEF TypeOK, R!TypeOK
      <3>2. CallsMatch'
        BY DEF TypeOK, R!TypeOK, CallsMatch
      <3>3. OffersHeld'
        BY DEF TypeOK, R!TypeOK, CallsMatch, OffersHeld
      <3>4. StopAlone'
        BY DEF TypeOK, R!TypeOK, CallsMatch, OffersHeld, StopAlone
      <3>5. AtRest'
        BY DEF TypeOK, R!TypeOK, CallsMatch, OffersHeld, StopAlone, AtRest
      <3>. QED
        BY <3>1, <3>2, <3>3, <3>4, <3>5 DEF WatchdogInv
    <2>12. ASSUME NEW c \in Caller, Caught(R!StopClear(c))
          PROVE  WatchdogInv'
      <3> USE <2>12 DEF Caught, R!StopClear, R!W!Clear
      <3>1. TypeOK'
        BY DEF TypeOK, R!TypeOK
      <3>2. CallsMatch'
        BY DEF TypeOK, R!TypeOK, CallsMatch
      <3>3. OffersHeld'
        BY DEF TypeOK, R!TypeOK, CallsMatch, OffersHeld
      <3>4. StopAlone'
        BY DEF TypeOK, R!TypeOK, CallsMatch, OffersHeld, StopAlone
      <3>5. AtRest'
        BY DEF TypeOK, R!TypeOK, CallsMatch, OffersHeld, StopAlone, AtRest
      <3>. QED
        BY <3>1, <3>2, <3>3, <3>4, <3>5 DEF WatchdogInv
    <2>13. ASSUME NEW c \in Caller, Caught(R!StopReturn(c))
          PROVE  WatchdogInv'
      <3> USE <2>13 DEF Caught, R!StopReturn, R!W!StopReturn
      <3>1. TypeOK'
        BY DEF TypeOK, R!TypeOK
      <3>2. CallsMatch'
        BY DEF TypeOK, R!TypeOK, CallsMatch
      <3>3. OffersHeld'
        BY DEF TypeOK, R!TypeOK, CallsMatch, OffersHeld
      <3>4. StopAlone'
        BY DEF TypeOK, R!TypeOK, CallsMatch, OffersHeld, StopAlone
      <3>5. AtRest'
        BY DEF TypeOK, R!TypeOK, CallsMatch, OffersHeld, StopAlone, AtRest
      <3>. QED
        BY <3>1, <3>2, <3>3, <3>4, <3>5 DEF WatchdogInv
    <2>14. CASE Take
      <3> USE <2>14 DEF Take, R!Take, R!W!Take
      <3>1. TypeOK'
        <4>1. PICK x \in Caller \cup {Worker} : pending = <<x>>
          BY DEF TypeOK, R!TypeOK
        <4>2. pending' = <<>> /\ running' = <<x>>
          BY <4>1
        <4>. QED
          BY <4>1, <4>2 DEF TypeOK, R!TypeOK
      <3>2. CallsMatch'
        BY DEF TypeOK, R!TypeOK, CallsMatch
      <3>3. OffersHeld'
        BY DEF TypeOK, R!TypeOK, CallsMatch, OffersHeld
      <3>4. StopAlone'
        BY DEF TypeOK, R!TypeOK, CallsMatch, OffersHeld, StopAlone
      <3>5. AtRest'
        BY DEF TypeOK, R!TypeOK, CallsMatch, OffersHeld, StopAlone, AtRest
      <3>. QED
        BY <3>1, <3>2, <3>3, <3>4, <3>5 DEF WatchdogInv
    <2>15. CASE SleepCancelled
      <3> USE <2>15 DEF SleepCancelled, R!OperationReturns
      <3>1. TypeOK'
        BY DEF TypeOK, R!TypeOK
      <3>2. CallsMatch'
        BY DEF TypeOK, R!TypeOK, CallsMatch
      <3>3. OffersHeld'
        BY DEF TypeOK, R!TypeOK, CallsMatch, OffersHeld
      <3>4. StopAlone'
        BY DEF TypeOK, R!TypeOK, CallsMatch, OffersHeld, StopAlone
      <3>5. AtRest'
        BY DEF TypeOK, R!TypeOK, CallsMatch, OffersHeld, StopAlone, AtRest
      <3>. QED
        BY <3>1, <3>2, <3>3, <3>4, <3>5 DEF WatchdogInv
    <2>16. CASE SleepOver \/ Check \/ FireReturns
      <3> USE <2>16 DEF SleepOver, Check, FireReturns
      <3>1. TypeOK'
        BY DEF TypeOK, R!TypeOK
      <3>2. CallsMatch'
        BY DEF TypeOK, R!TypeOK, CallsMatch
      <3>3. OffersHeld'
        BY DEF TypeOK, R!TypeOK, CallsMatch, OffersHeld
      <3>4. StopAlone'
        BY DEF TypeOK, R!TypeOK, CallsMatch, OffersHeld, StopAlone
      <3>5. AtRest'
        BY DEF TypeOK, R!TypeOK, CallsMatch, OffersHeld, StopAlone, AtRest
      <3>. QED
        BY <3>1, <3>2, <3>3, <3>4, <3>5 DEF WatchdogInv
    <2>17. CASE FireThrows
      <3> USE <2>17 DEF FireThrows, R!OperationThrows, R!W!Finish
      <3>1. TypeOK'
        BY DEF TypeOK, R!TypeOK
      <3>2. CallsMatch'
        BY DEF TypeOK, R!TypeOK, CallsMatch
      <3>3. OffersHeld'
        BY DEF TypeOK, R!TypeOK, CallsMatch, OffersHeld
      <3>4. StopAlone'
        BY DEF TypeOK, R!TypeOK, CallsMatch, OffersHeld, StopAlone
      <3>5. AtRest'
        BY DEF TypeOK, R!TypeOK, CallsMatch, OffersHeld, StopAlone, AtRest
      <3>. QED
        BY <3>1, <3>2, <3>3, <3>4, <3>5 DEF WatchdogInv
    <2>18. CASE Reset
      <3> USE <2>18 DEF Reset, R!OperationReturns
      <3>1. TypeOK'
        BY DEF TypeOK, R!TypeOK
      <3>2. CallsMatch'
        BY DEF TypeOK, R!TypeOK, CallsMatch
      <3>3. OffersHeld'
        BY DEF TypeOK, R!TypeOK, CallsMatch, OffersHeld
      <3>4. StopAlone'
        BY DEF TypeOK, R!TypeOK, CallsMatch, OffersHeld, StopAlone
      <3>5. AtRest'
        BY DEF TypeOK, R!TypeOK, CallsMatch, OffersHeld, StopAlone, AtRest
      <3>. QED
        BY <3>1, <3>2, <3>3, <3>4, <3>5 DEF WatchdogInv
    <2>19. CASE Caught(R!DequeueNothing)
      <3> USE <2>19 DEF Caught, R!DequeueNothing, R!W!Reopen
      <3>1. TypeOK'
        BY DEF TypeOK, R!TypeOK
      <3>2. CallsMatch'
        BY DEF TypeOK, R!TypeOK, CallsMatch
      <3>3. OffersHeld'
        BY DEF TypeOK, R!TypeOK, CallsMatch, OffersHeld
      <3>4. StopAlone'
        BY DEF TypeOK, R!TypeOK, CallsMatch, OffersHeld, StopAlone
      <3>5. AtRest'
        BY DEF TypeOK, R!TypeOK, CallsMatch, OffersHeld, StopAlone, AtRest
      <3>. QED
        BY <3>1, <3>2, <3>3, <3>4, <3>5 DEF WatchdogInv
    <2>20. CASE Caught(R!Again)
      <3> USE <2>20 DEF Caught, R!Again
      <3>1. TypeOK'
        BY DEF TypeOK, R!TypeOK
      <3>2. CallsMatch'
        BY DEF TypeOK, R!TypeOK, CallsMatch
      <3>3. OffersHeld'
        BY DEF TypeOK, R!TypeOK, CallsMatch, OffersHeld
      <3>4. StopAlone'
        BY DEF TypeOK, R!TypeOK, CallsMatch, OffersHeld, StopAlone
      <3>5. AtRest'
        BY DEF TypeOK, R!TypeOK, CallsMatch, OffersHeld, StopAlone, AtRest
      <3>. QED
        BY <3>1, <3>2, <3>3, <3>4, <3>5 DEF WatchdogInv
    <2>21. CASE Caught(R!LoopOffer)
      <3> USE <2>21 DEF Caught, R!LoopOffer, R!W!Offer
      <3>1. TypeOK'
        BY DEF TypeOK, R!TypeOK
      <3>2. CallsMatch'
        BY DEF TypeOK, R!TypeOK, CallsMatch
      <3>3. OffersHeld'
        BY DEF TypeOK, R!TypeOK, CallsMatch, OffersHeld
      <3>4. StopAlone'
        BY DEF TypeOK, R!TypeOK, CallsMatch, OffersHeld, StopAlone
      <3>5. AtRest'
        BY DEF TypeOK, R!TypeOK, CallsMatch, OffersHeld, StopAlone, AtRest
      <3>. QED
        BY <3>1, <3>2, <3>3, <3>4, <3>5 DEF WatchdogInv
    <2>22. CASE Caught(R!LoopQueue)
      <3> USE <2>22 DEF Caught, R!LoopQueue, R!W!Queue
      <3>1. TypeOK'
        <4>1. pending' \in {<<>>} \cup {<<x>> : x \in Caller \cup {Worker}}
          BY QueueKeepsOne DEF TypeOK, R!TypeOK
        <4>2. offered' \subseteq Caller \cup {Worker}
          BY DEF TypeOK, R!TypeOK
        <4>. QED
          BY <4>1, <4>2 DEF TypeOK, R!TypeOK
      <3>2. CallsMatch'
        BY DEF TypeOK, R!TypeOK, CallsMatch
      <3>3. OffersHeld'
        <4>1. \A x \in offered' : x \in offered /\ x # Worker
          OBVIOUS
        <4>2. rpc' = rpc
          OBVIOUS
        <4>. QED
          BY <4>1, <4>2 DEF OffersHeld
      <3>4. StopAlone'
        BY DEF TypeOK, R!TypeOK, CallsMatch, OffersHeld, StopAlone
      <3>5. AtRest'
        BY DEF TypeOK, R!TypeOK, CallsMatch, OffersHeld, StopAlone, AtRest
      <3>. QED
        BY <3>1, <3>2, <3>3, <3>4, <3>5 DEF WatchdogInv
    <2>23. CASE Caught(R!ItemEnds)
      <3> USE <2>23 DEF Caught, R!ItemEnds, R!W!Finish
      <3>1. TypeOK'
        BY DEF TypeOK, R!TypeOK
      <3>2. CallsMatch'
        BY DEF TypeOK, R!TypeOK, CallsMatch
      <3>3. OffersHeld'
        BY DEF TypeOK, R!TypeOK, CallsMatch, OffersHeld
      <3>4. StopAlone'
        BY DEF TypeOK, R!TypeOK, CallsMatch, OffersHeld, StopAlone
      <3>5. AtRest'
        BY DEF TypeOK, R!TypeOK, CallsMatch, OffersHeld, StopAlone, AtRest
      <3>. QED
        BY <3>1, <3>2, <3>3, <3>4, <3>5 DEF WatchdogInv
    <2>. QED
      BY <2>0, <2>1, <2>2, <2>3, <2>4, <2>5, <2>6, <2>7, <2>8, <2>9, <2>10, <2>11, <2>12,
         <2>13, <2>14, <2>15, <2>16, <2>17, <2>18, <2>19, <2>20, <2>21, <2>22, <2>23
         DEF Next, WorkerStep, CallStep, NewCall, R!CallStep, R!LoopStep, Caught
  <1>. QED
    BY <1>1, <1>2, PTL DEF Spec

\* The watchdog and its watcher_ keep their types: the worker is in the operation exactly
\* when its item has it run, the queue keeps to its one place and mutex_ has one owner
\* (watchdog.h:26-64, dispatcher.h:107-143).
THEOREM WatchdogTypeCorrect == Spec => []TypeOK
  BY WatchdogInvariant, PTL DEF WatchdogInv

\* After a stop() that met no start(), and until the next start(), no operation runs and
\* none is queued or about to be (dispatcher.h:121-138, watchdog.h:46-52).
THEOREM StopIsFinalAlways == Spec => []StopIsFinal
  <1>1. WatchdogInv => StopIsFinal
    BY DEF WatchdogInv, TypeOK, R!TypeOK, OffersHeld, CallsMatch, AtRest, MutexFree, StopIsFinal
  <1>. QED
    BY <1>1, WatchdogInvariant, PTL

----------------------------------------------------------------------------
\* The loop of an armed watchdog

NoStop == \A d \in Caller : call[d] \notin {"stop", "stopping"}

\* An item is queued, or runs and has not yet invoked itself anew.
LoopLives == pending # <<>> \/ ipc \in {"operation", "again", "offer", "queue"}

\* A start() that has met no stop() meets none until it returns: what it has opened stays
\* open, and what it has queued goes round.
StartAlone ==
    \A c \in Caller : c \in clean /\ call[c] = "starting" =>
        /\ NoStop /\ ~stopped
        /\ rpc[c] # "start_open" => ~was_stopped
        /\ rpc[c] \in {"start_offer", "start_queue", "out"} => ~closed
        /\ rpc[c] = "out" => LoopLives

ArmedLoop == armed => NoStop /\ ~stopped /\ ~was_stopped /\ ~closed /\ LoopLives

LoopInv == StartAlone /\ ArmedLoop

\* Whatever a push into the open queue costs, the new item is in it.
LEMMA QueuedIsThere ==
    ASSUME NEW S, pending \in {<<>>} \cup {<<x>> : x \in S}, NEW y \in S, R!W!Queue(y), ~closed
    PROVE  pending' # <<>>
  <1>1. CASE pending = <<>>
    <2>1. pending' = Append(pending, y)
      BY <1>1 DEF R!W!Queue
    <2>. QED
      BY <1>1, <2>1
  <1>2. ASSUME NEW x \in S, pending = <<x>>
        PROVE  pending' # <<>>
    <2>1. Len(pending) = 1 /\ pending \in Seq(S)
      BY <1>2
    <2>2. Tail(Append(pending, y)) = <<y>>
      BY <2>1, OneForOne
    <2>. QED
      BY <2>1, <2>2 DEF R!W!Queue
  <1>. QED
    BY <1>1, <1>2

\* A step that begins or ends no call of the watchdog and leaves clean and armed alone
\* keeps the loop, if it leaves open what it finds open and the loop alive.
LEMMA LoopKept ==
    ASSUME LoopInv, UNCHANGED <<call, clean, armed, stopped>>,
           NoStop => (~was_stopped => ~was_stopped') /\ (~closed => ~closed')
                     /\ (~stopped /\ ~was_stopped /\ ~closed /\ LoopLives => LoopLives'),
           \A c \in Caller : c \in clean /\ call[c] = "starting" => rpc'[c] = rpc[c]
    PROVE  LoopInv'
  <1>1. NoStop' <=> NoStop
    BY DEF NoStop
  <1>2. ArmedLoop'
    BY <1>1 DEF LoopInv, ArmedLoop
  <1>3. ASSUME NEW c \in Caller, c \in clean, call[c] = "starting"
        PROVE  /\ NoStop /\ ~stopped
               /\ rpc'[c] # "start_open" => ~was_stopped'
               /\ rpc'[c] \in {"start_offer", "start_queue", "out"} => ~closed'
               /\ rpc'[c] = "out" => LoopLives'
    BY <1>3 DEF LoopInv, StartAlone
  <1>4. StartAlone'
    BY <1>1, <1>3 DEF StartAlone
  <1>. QED
    BY <1>2, <1>4 DEF LoopInv

LEMMA LoopInvariant == Spec => []LoopInv
  <1> USE WatchdogAssumption
  <1>1. Init => LoopInv
    BY DEF Init, LoopInv, StartAlone, ArmedLoop
  <1>2. WatchdogInv /\ LoopInv /\ [Next]_vars => LoopInv'
    <2> SUFFICES ASSUME TypeOK, CallsMatch, LoopInv, [Next]_vars
                 PROVE  LoopInv'
      BY DEF WatchdogInv
    <2> USE DEF R!Goto, R!dispatcher, watcher, history
    <2>0. CASE UNCHANGED vars
      BY <2>0 DEF vars, LoopInv, StartAlone, ArmedLoop, NoStop, LoopLives
    <2>a. pending \in {<<>>} \cup {<<x>> : x \in Caller \cup {Worker}}
      BY DEF TypeOK, R!TypeOK
    <2>b. ASSUME NEW c \in Caller, NoStop
          PROVE  rpc[c] \notin {"stop_close", "stop_clear", "stop_wait"}
      BY <2>b DEF TypeOK, R!TypeOK, CallsMatch, NoStop
    <2>c. ASSUME NEW c \in Caller, rpc[c] \in {"start_open", "start_reopen", "start_offer", "start_queue"}
          PROVE  call[c] = "starting" /\ \A d \in Caller \ {c} : call[d] # "starting"
      BY <2>c DEF TypeOK, R!TypeOK, CallsMatch
    \* The calls of the watchdog.
    <2>1. ASSUME NEW c \in Caller, StartBegin(c)
          PROVE  LoopInv'
      <3> USE <2>1 DEF StartBegin, R!Start, NoStop, LoopLives
      <3>1. StartAlone'
        BY DEF TypeOK, R!TypeOK, MutexFree, StartAlone
      <3>2. ArmedLoop'
        BY DEF TypeOK, LoopInv, ArmedLoop
      <3>. QED
        BY <3>1, <3>2 DEF LoopInv
    <2>2. ASSUME NEW c \in Caller, StartEnd(c)
          PROVE  LoopInv'
      <3> USE <2>2 DEF StartEnd, NoStop, LoopLives
      <3>1. StartAlone'
        BY DEF TypeOK, LoopInv, StartAlone
      <3>2. ArmedLoop'
        BY DEF TypeOK, LoopInv, StartAlone, ArmedLoop
      <3>. QED
        BY <3>1, <3>2 DEF LoopInv
    <2>3. ASSUME NEW c \in Caller, StopBegin(c)
          PROVE  LoopInv'
      BY <2>3 DEF StopBegin, MutexFree, TypeOK, LoopInv, StartAlone, ArmedLoop
    <2>4. ASSUME NEW c \in Caller, StopWatcher(c)
          PROVE  LoopInv'
      BY <2>4 DEF StopWatcher, R!Stop, NoStop, TypeOK, LoopInv, StartAlone, ArmedLoop
    <2>5. ASSUME NEW c \in Caller, StopEnd(c)
          PROVE  LoopInv'
      BY <2>5 DEF StopEnd, NoStop, LoopLives, TypeOK, LoopInv, StartAlone, ArmedLoop
    <2>6. ASSUME NEW c \in Caller, Kick(c)
          PROVE  LoopInv'
      BY <2>6, LoopKept DEF Kick, LoopLives
    \* start() of watcher_.
    <2>7. ASSUME NEW c \in Caller, Caught(R!StartOpen(c))
          PROVE  LoopInv'
      <3> USE <2>7, <2>c DEF Caught, R!StartOpen, R!W!Open, NoStop, LoopLives
      <3>1. StartAlone'
        BY DEF TypeOK, R!TypeOK, LoopInv, StartAlone
      <3>2. ArmedLoop'
        BY DEF LoopInv, ArmedLoop
      <3>. QED
        BY <3>1, <3>2 DEF LoopInv
    <2>8. ASSUME NEW c \in Caller, Caught(R!StartReopen(c))
          PROVE  LoopInv'
      <3> USE <2>8, <2>c DEF Caught, R!StartReopen, R!W!Reopen, NoStop, LoopLives
      <3>1. StartAlone'
        BY DEF TypeOK, R!TypeOK, LoopInv, StartAlone
      <3>2. ArmedLoop'
        BY DEF LoopInv, ArmedLoop
      <3>. QED
        BY <3>1, <3>2 DEF LoopInv
    <2>9. ASSUME NEW c \in Caller, Caught(R!StartOffer(c))
          PROVE  LoopInv'
      <3> USE <2>9, <2>c DEF Caught, R!StartOffer, R!W!Offer, NoStop, LoopLives
      <3>1. StartAlone'
        BY DEF TypeOK, R!TypeOK, LoopInv, StartAlone
      <3>2. ArmedLoop'
        BY DEF LoopInv, ArmedLoop
      <3>. QED
        BY <3>1, <3>2 DEF LoopInv
    <2>10. ASSUME NEW c \in Caller, Caught(R!StartQueue(c))
           PROVE  LoopInv'
      <3>1. R!W!Queue(c) /\ rpc[c] = "start_queue" /\ rpc' = [rpc EXCEPT ![c] = "out"]
            /\ UNCHANGED <<stopped, ipc, call, clean, armed>>
        BY <2>10 DEF Caught, R!StartQueue
      <3>2. UNCHANGED <<was_stopped, closed>>
        BY <3>1 DEF R!W!Queue
      <3>3. ~closed => LoopLives'
        BY <2>a, <3>1, QueuedIsThere DEF LoopLives
      <3>4. StartAlone'
        BY <2>c, <3>1, <3>2, <3>3 DEF TypeOK, R!TypeOK, LoopInv, StartAlone, NoStop
      <3>5. ArmedLoop'
        BY <3>1, <3>2, <3>3 DEF LoopInv, ArmedLoop, NoStop
      <3>. QED
        BY <3>4, <3>5 DEF LoopInv
    \* stop() of watcher_: no stop() is under way while the watchdog is armed.
    <2>11. ASSUME NEW c \in Caller,
                  Caught(R!StopClose(c)) \/ Caught(R!StopClear(c)) \/ Caught(R!StopReturn(c))
           PROVE  LoopInv'
      <3>1. rpc[c] \in {"stop_close", "stop_clear", "stop_wait"} /\ UNCHANGED <<call, clean, armed>>
        BY <2>11 DEF Caught, R!StopClose, R!StopClear, R!StopReturn
      <3>2. ~NoStop
        BY <2>b, <3>1
      <3>3. ~armed /\ \A d \in Caller : ~(d \in clean /\ call[d] = "starting")
        BY <3>2 DEF LoopInv, StartAlone, ArmedLoop
      <3>. QED
        BY <3>1, <3>3 DEF LoopInv, StartAlone, ArmedLoop
    \* The worker.
    <2>12. CASE Take
      <3>1. /\ UNCHANGED <<call, clean, armed, stopped, was_stopped, rpc>>
            /\ closed' \in {closed, FALSE} /\ ipc' = "operation"
        BY <2>12 DEF Take, R!Take, R!W!Take
      <3>2. ~closed => ~closed'
        BY <3>1
      <3>. QED
        BY <3>1, <3>2, LoopKept DEF LoopLives
    <2>13. CASE SleepCancelled \/ Reset
      BY <2>13, LoopKept DEF SleepCancelled, Reset, R!OperationReturns, LoopLives
    <2>14. CASE SleepOver \/ Check \/ FireReturns
      BY <2>14, LoopKept DEF SleepOver, Check, FireReturns, LoopLives
    <2>15. CASE FireThrows
      BY <2>15 DEF FireThrows, LoopInv, StartAlone, ArmedLoop
    <2>16. CASE Caught(R!DequeueNothing)
      BY <2>16, LoopKept DEF Caught, R!DequeueNothing, R!W!Reopen, LoopLives
    <2>17. CASE Caught(R!Again)
      BY <2>17, LoopKept DEF Caught, R!Again, LoopLives
    <2>18. CASE Caught(R!LoopOffer)
      BY <2>18, LoopKept DEF Caught, R!LoopOffer, R!W!Offer, LoopLives
    <2>19. CASE Caught(R!LoopQueue)
      <3>1. R!W!Queue(Worker) /\ UNCHANGED <<stopped, rpc, call, clean, armed>>
        BY <2>19 DEF Caught, R!LoopQueue
      <3>2. UNCHANGED <<was_stopped, closed>>
        BY <3>1 DEF R!W!Queue
      <3>3. ~closed => LoopLives'
        BY <2>a, <3>1, QueuedIsThere DEF LoopLives
      <3>. QED
        BY <3>1, <3>2, <3>3, LoopKept
    <2>20. CASE Caught(R!ItemEnds)
      BY <2>20, LoopKept DEF Caught, R!ItemEnds, R!W!Finish, LoopLives
    <2>. QED
      BY <2>0, <2>1, <2>2, <2>3, <2>4, <2>5, <2>6, <2>7, <2>8, <2>9, <2>10, <2>11, <2>12,
         <2>13, <2>14, <2>15, <2>16, <2>17, <2>18, <2>19, <2>20
         DEF Next, WorkerStep, CallStep, NewCall, R!CallStep, R!LoopStep, Caught
  <1>. QED
    BY <1>1, <1>2, WatchdogInvariant, PTL DEF Spec

\* An armed watchdog never loses its loop: an item of it is queued, or runs and has yet to
\* invoke itself anew, however starts, kicks and drops from the full queue fall between
\* the steps of the worker.  It is the safety half of TestsAgain (dispatcher.h:107-143,
\* watchdog.h:26-52).
THEOREM ArmedKeepsLoop == Spec => [](armed => LoopLives)
  <1>1. LoopInv => (armed => LoopLives)
    BY DEF LoopInv, ArmedLoop
  <1>. QED
    BY <1>1, LoopInvariant, PTL

----------------------------------------------------------------------------
\* The watchdog uses its dispatcher as WorkQueue allows: every step of the callers and of
\* the worker is, for dispatcher_, a step of that specification or none.  Dispatcher
\* implements it (DispatcherIsWorkQueue), so what is shown of the watchdog does not rest
\* on a queue that no dispatcher is (dispatcher.h:107-143).
THEOREM WatchdogUsesWorkQueue == Spec => R!W!Spec
  <1>1. Init => R!W!Init
    BY DEF Init, R!RepeatInit
  <1>2. [Next]_vars => [R!W!Next]_(R!W!wvars)
    <2> SUFFICES ASSUME [Next]_vars
                 PROVE  R!W!Next \/ UNCHANGED R!W!wvars
      OBVIOUS
    <2> USE DEF R!dispatcher, R!W!wvars
    <2>1. CASE UNCHANGED vars
      BY <2>1 DEF vars, watcher
    <2>2. ASSUME NEW c \in Caller, NewCall(c) \/ StartEnd(c) \/ StopWatcher(c) \/ StopEnd(c)
          PROVE  UNCHANGED R!W!wvars
      BY <2>2 DEF NewCall, StartBegin, R!Start, StopBegin, Kick, StartEnd, StopWatcher, R!Stop,
                  StopEnd, watcher
    <2>3. ASSUME NEW c \in Caller, R!CallStep(c)
          PROVE  R!W!Next \/ UNCHANGED R!W!wvars
      <3>1. CASE R!StartOpen(c) \/ R!StartReopen(c) \/ R!StopClose(c)
        BY <3>1 DEF R!StartOpen, R!StartReopen, R!StopClose, R!W!Next
      <3>2. CASE R!StartOffer(c)
        <4>1. ASSUME R!W!Offer(c)
              PROVE  R!W!Next
          <5>1. c \in offered'
            BY <4>1 DEF R!W!Offer
          <5>. QED
            BY <4>1, <5>1 DEF R!W!Next
        <4>. QED
          BY <3>2, <4>1 DEF R!StartOffer
      <3>3. CASE R!StartQueue(c)
        <4>1. R!W!Queue(c) /\ c \in offered
          BY <3>3 DEF R!StartQueue, R!W!Queue
        <4>. QED
          BY <4>1 DEF R!W!Next
      <3>4. CASE R!StopClear(c) \/ R!StopReturn(c)
        BY <3>4 DEF R!StopClear, R!StopReturn, R!W!Next
      <3>. QED
        BY <2>3, <3>1, <3>2, <3>3, <3>4 DEF R!CallStep
    <2>4. CASE Take \/ FireThrows
      BY <2>4 DEF Take, R!Take, FireThrows, R!OperationThrows, R!W!Next
    <2>5. CASE SleepCancelled \/ SleepOver \/ Check \/ FireReturns \/ Reset
      BY <2>5 DEF SleepCancelled, SleepOver, Check, FireReturns, Reset, R!OperationReturns, watcher
    <2>6. ASSUME R!LoopStep
          PROVE  R!W!Next \/ UNCHANGED R!W!wvars
      <3>1. CASE R!DequeueNothing \/ R!ItemEnds
        BY <3>1 DEF R!DequeueNothing, R!ItemEnds, R!W!Next
      <3>2. CASE R!Again
        BY <3>2 DEF R!Again
      <3>3. CASE R!LoopOffer
        <4>1. ASSUME R!W!Offer(Worker)
              PROVE  R!W!Next
          <5>1. Worker \in offered'
            BY <4>1 DEF R!W!Offer
          <5>. QED
            BY <4>1, <5>1 DEF R!W!Next
        <4>. QED
          BY <3>3, <4>1 DEF R!LoopOffer
      <3>4. CASE R!LoopQueue
        <4>1. R!W!Queue(Worker) /\ Worker \in offered
          BY <3>4 DEF R!LoopQueue, R!W!Queue
        <4>. QED
          BY <4>1 DEF R!W!Next
      <3>. QED
        BY <2>6, <3>1, <3>2, <3>3, <3>4 DEF R!LoopStep
    <2>. QED
      BY <2>1, <2>2, <2>3, <2>4, <2>5, <2>6 DEF Next, WorkerStep, CallStep, Caught
  <1>. QED
    BY <1>1, <1>2, PTL DEF Spec, R!W!Spec
=============================================================================
