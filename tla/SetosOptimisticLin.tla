------------------------- MODULE SetosOptimisticLin -------------------------
(* The optimistic set, with the history its calls are judged by. *)
EXTENDS SetosOptimistic, SetosHistory

LinInit == Init /\ NoneSeen

LinNext == Next /\ Observe

LinSpec == LinInit /\ [][LinNext]_<<vars, seen>>
=============================================================================
