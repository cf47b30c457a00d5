--------------------------- MODULE MCSetosFineRef --------------------------
(* Two threads, each of which may call every operation, on a list whose    *)
(* first node stays, and one whose last node stays too.                    *)
EXTENDS SetosFineRef

CONSTANTS a, b

TwoThreads == {a, b}
Anything == [t \in TwoThreads |-> Operations]
Keys1 == <<1>>
Keys14 == <<1, 4>>
=============================================================================
