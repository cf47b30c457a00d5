---------------------------- MODULE SetosFineLin ----------------------------
(* The fine-grained set, with the history its calls are judged by. *)
EXTENDS SetosFine, SetosHistory

LinInit == Init /\ NoneSeen

LinNext == Next /\ Observe

LinSpec == LinInit /\ [][LinNext]_<<vars, seen>>
=============================================================================
