------------------------ MODULE MCSetosOptimisticLin -----------------------
(* One thread changes the optimistic set, the others look. *)
EXTENDS SetosOptimisticLin

CONSTANTS a, b, c

ThreeThreads == {a, b, c}
OneWriter == [t \in ThreeThreads |-> IF t = a THEN Operations ELSE {"contains"}]
Keys2 == <<2>>
=============================================================================
