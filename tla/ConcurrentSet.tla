--------------------------- MODULE ConcurrentSet ---------------------------
(***************************************************************************)
(* What setos.h promises of a set that several threads share: each call    *)
(* takes effect at one instant between its start and its return, and its   *)
(* result is the one of that instant.                                      *)
(*                                                                         *)
(*   setos_add       "returns 0 if the key is already in the Set, and 1    *)
(*                   otherwise"                                            *)
(*   setos_remove    "returns 0 if the key does not exist, and 1 otherwise"*)
(*   setos_contains  "returns 0 if it isn't in the set, and 1 otherwise"   *)
(*                                                                         *)
(* A call that changes the set takes effect in a step of its own.  A call  *)
(* that does not (a contains, a failed add or remove) may take effect at   *)
(* any instant of its execution: `seen' holds 1 if its key was in the set  *)
(* at some instant since it started and 0 if it was not at some instant,   *)
(* and it may return according to either.                                  *)
(***************************************************************************)
EXTENDS Integers

CONSTANTS Threads, Keys, NoKey, InitSet

VARIABLES
    set,        (* the keys in the set                                      *)
    op,         (* op[t]: the operation t executes, "none" between calls    *)
    arg,        (* arg[t]: its key, NoKey between calls                     *)
    took,       (* the threads whose call has changed the set               *)
    seen,       (* seen[t]: the answers true at some instant of its call    *)
    ret         (* ret[t]: the result of the last call, -1 during a call    *)

vars == <<set, op, arg, took, seen, ret>>

Init ==
    /\ set = InitSet
    /\ op = [t \in Threads |-> "none"]
    /\ arg = [t \in Threads |-> NoKey]
    /\ took = {}
    /\ seen = [t \in Threads |-> {}]
    /\ ret = [t \in Threads |-> -1]

(* The answer to "is k in the set S?" *)
Answer(k, S) == IF k \in S THEN 1 ELSE 0

Invoke(t) ==
    /\ op[t] = "none"
    /\ \E o \in {"add", "remove", "contains"}, k \in Keys :
           /\ op' = [op EXCEPT ![t] = o]
           /\ arg' = [arg EXCEPT ![t] = k]
           /\ seen' = [seen EXCEPT ![t] = {Answer(k, set)}]
    /\ ret' = [ret EXCEPT ![t] = -1]
    /\ UNCHANGED <<set, took>>

(* The set becomes S by the call of t; every call in progress sees it. *)
TakeEffect(t, S) ==
    /\ t \notin took
    /\ took' = took \cup {t}
    /\ set' = S
    /\ seen' = [u \in Threads |->
                   IF op[u] = "none" THEN {} ELSE seen[u] \cup {Answer(arg[u], S)}]
    /\ UNCHANGED <<op, arg, ret>>

Add(t) ==
    /\ op[t] = "add"
    /\ arg[t] \notin set
    /\ TakeEffect(t, set \cup {arg[t]})

Remove(t) ==
    /\ op[t] = "remove"
    /\ arg[t] \in set
    /\ TakeEffect(t, set \ {arg[t]})

(* The call may return r. *)
Result(t, r) ==
    \/ t \in took /\ r = 1
    \/ t \notin took /\ op[t] = "add" /\ 1 \in seen[t] /\ r = 0
    \/ t \notin took /\ op[t] = "remove" /\ 0 \in seen[t] /\ r = 0
    \/ op[t] = "contains" /\ r \in seen[t]

Return(t) ==
    /\ op[t] # "none"
    /\ \E r \in {0, 1} : Result(t, r) /\ ret' = [ret EXCEPT ![t] = r]
    /\ op' = [op EXCEPT ![t] = "none"]
    /\ arg' = [arg EXCEPT ![t] = NoKey]
    /\ took' = took \ {t}
    /\ seen' = [seen EXCEPT ![t] = {}]
    /\ UNCHANGED set

Next == \E t \in Threads : Invoke(t) \/ Add(t) \/ Remove(t) \/ Return(t)

Spec == Init /\ [][Next]_vars
=============================================================================
