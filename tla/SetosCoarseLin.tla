--------------------------- MODULE SetosCoarseLin ---------------------------
(* The coarse-grained set, with the history its calls are judged by. *)
EXTENDS SetosCoarse, SetosHistory

LinInit == Init /\ NoneSeen

LinNext == Next /\ Observe

LinSpec == LinInit /\ [][LinNext]_<<vars, seen>>

(* With the fairness of FairSpec. *)
LinFairSpec == LinSpec /\ \A t \in Threads : WF_vars(Step(t))
=============================================================================
