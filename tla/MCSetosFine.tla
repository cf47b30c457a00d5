---------------------------- MODULE MCSetosFine ----------------------------
(* Two or three threads, each of which may call every operation. *)
EXTENDS SetosFine

CONSTANTS a, b, c

TwoThreads == {a, b}
ThreeThreads == {a, b, c}
Anything2 == [t \in TwoThreads |-> Operations]
Anything3 == [t \in ThreeThreads |-> Operations]
Keys1 == <<1>>
Keys2 == <<2>>
=============================================================================
