---------------------------- MODULE MCDispatcher ----------------------------
(* Small instances of Dispatcher for TLC. *)
EXTENDS Dispatcher, FiniteSetsExt, TLC

CONSTANT MaxItems   \* bound on the items of all threads together

\* The end of the dispatcher is not a deadlock.
Destroyed == (\E t \in Client : call[t] = "destroyed") /\ UNCHANGED vars

MCNext == \/ Next /\ MapThenSumSet(LAMBDA t : count'[t], Thread) <= MaxItems
          \/ Destroyed

MCSpec == Init /\ [][MCNext]_vars

MCFairSpec == MCSpec /\ Fairness

Symmetry == Permutations(Client)
=============================================================================
