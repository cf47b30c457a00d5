--------------------------- MODULE MCSetosFineLin --------------------------
(* Two threads, each of which may call every operation. *)
EXTENDS SetosFineLin

CONSTANTS a, b

TwoThreads == {a, b}
Anything == [t \in TwoThreads |-> Operations]
Keys1 == <<1>>
Keys2 == <<2>>
=============================================================================
