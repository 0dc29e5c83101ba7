----------------------------- MODULE MCWatchdog -----------------------------
(* Watchdog under two callers that both start, stop and kick it. *)
EXTENDS Watchdog

FairSpec == Spec /\ Fairness
=============================================================================
