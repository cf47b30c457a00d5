------------------------- MODULE MCSetosCoarseLin --------------------------
(* Three threads, each of which may call every operation. *)
EXTENDS SetosCoarseLin

CONSTANTS a, b, c

TwoThreads == {a, b}
ThreeThreads == {a, b, c}
Anything2 == [t \in TwoThreads |-> Operations]
Anything3 == [t \in ThreeThreads |-> Operations]
Keys2 == <<2>>
=============================================================================
