------------------------- MODULE MCSetosOptimistic -------------------------
(* Who calls what, in the questions asked of the optimistic set's locks. *)
EXTENDS SetosOptimistic

CONSTANTS a, b, c

TwoThreads == {a, b}
ThreeThreads == {a, b, c}
Anything2 == [t \in TwoThreads |-> Operations]
(* Two threads add and remove, the third removes and looks. *)
Mixed ==
    [t \in ThreeThreads |->
        IF t = c THEN {"remove", "contains"} ELSE {"add", "remove"}]
Adders == [t \in TwoThreads |-> {"add"}]
Keys2 == <<2>>
=============================================================================
