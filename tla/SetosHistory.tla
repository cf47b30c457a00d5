--------------------------- MODULE SetosHistory ----------------------------
(***************************************************************************)
(* How a run of a variant is read as a run of ConcurrentSet: the set holds *)
(* the keys that adds put in and removes have not taken out, and the       *)
(* history variable `seen' records, for each call in progress, the answers *)
(* to "is its key in the set?" that were true at some instant since the    *)
(* call started.                                                           *)
(***************************************************************************)
EXTENDS SetosCalls

VARIABLE seen

Answer(k, S) == IF k \in S THEN 1 ELSE 0

NoneSeen == seen = [t \in Threads |-> {}]

Observe ==
    seen' = [t \in Threads |->
                IF op'[t] = "none" THEN {}
                ELSE (IF op[t] = "none" THEN {} ELSE seen[t])
                         \cup {Answer(arg'[t], LinkedKeys')}]

(* A call has taken effect from the write of prev->next to its return. *)
Abs == INSTANCE ConcurrentSet WITH
    InitSet <- {InitKeys[i] : i \in 1..Len(InitKeys)},
    NoKey <- IntMin,
    set <- LinkedKeys,
    took <- {t \in Threads : pc[t] = "unlock"}

(* setos.h: every call returns what a call executed at one instant between *)
(* its start and its return would have, and changes the set just so.       *)
Linearizable == Abs!Spec
=============================================================================
