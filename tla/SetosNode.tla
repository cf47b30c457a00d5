----------------------------- MODULE SetosNode -----------------------------
(***************************************************************************)
(* The linked list the three concurrent sets of os_ex5 share: `setos_node' *)
(* and the global `head'.  Every variant declares the same node, creates   *)
(* the same sentinel in setos_init, and changes a list in two ways only:   *)
(* it links a fresh node behind a node, or bypasses one.  What differs is  *)
(* the locking around these two writes, which is left to the variants.     *)
(*                                                                         *)
(* An address is an integer: 0 is the sentinel, 1, 2, ... are the nodes in *)
(* the order malloc returned them (the code never frees one: "we don't     *)
(* deal with memory leaks"), Null is NULL.  A node's key is written before *)
(* the node is linked and never changes.  The void* value is not modelled: *)
(* no decision depends on it.                                              *)
(***************************************************************************)
EXTENDS Integers, Sequences

CONSTANTS
    IntMin,     (* INT_MIN, the key of the sentinel                         *)
    InitKeys,   (* keys already in the list in the initial state, ascending *)
    MaxNodes    (* bound: nodes ever linked, the initial ones included      *)

ASSUME NodeAssumption ==
    /\ IntMin \in Int
    /\ MaxNodes \in Nat
    /\ InitKeys \in Seq(Int)
    /\ Len(InitKeys) <= MaxNodes
    /\ \A i \in 1..Len(InitKeys) : IntMin < InitKeys[i]
    /\ \A i, j \in 1..Len(InitKeys) : i < j => InitKeys[i] < InitKeys[j]

VARIABLES
    key,        (* key[n]: the key of node n                                *)
    next,       (* next[n]: the node n points to, or Null                   *)
    used,       (* nodes 1..used have been linked                           *)
    linked      (* auxiliary: nodes an add linked and no remove took out    *)

heap == <<key, next, used, linked>>

Node == 0..MaxNodes
HeadNode == 0
Null == -1
Addr == Node \cup {Null}

HeapTypeOK ==
    /\ key \in [Node -> Int]
    /\ next \in [Node -> Addr]
    /\ used \in Node
    /\ linked \subseteq 1..used

(* setos_init, followed by one add for each key of InitKeys. *)
HeapInit ==
    /\ key = [n \in Node |-> IF n \in 1..Len(InitKeys) THEN InitKeys[n] ELSE IntMin]
    /\ next = [n \in Node |-> IF n < Len(InitKeys) THEN n + 1 ELSE Null]
    /\ used = Len(InitKeys)
    /\ linked = 1..Len(InitKeys)

(* new_node->next = n; p->next = new_node, for a new node with key k. *)
Link(p, n, k) ==
    /\ used < MaxNodes
    /\ used' = used + 1
    /\ key' = [key EXCEPT ![used + 1] = k]
    /\ next' = [next EXCEPT ![used + 1] = n, ![p] = used + 1]
    /\ linked' = linked \cup {used + 1}

(* Mutant: the removed node is cut off from the list behind it. *)
UnlinkCutsOff(p, n) ==
    /\ next' = [next EXCEPT ![p] = next[n], ![n] = Null]
    /\ linked' = linked \ {n}
    /\ UNCHANGED <<key, used>>

(* p->next = n->next. *)
Unlink(p, n) ==
    /\ next' = [next EXCEPT ![p] = next[n]]
    /\ linked' = linked \ {n}
    /\ UNCHANGED <<key, used>>

-----------------------------------------------------------------------------
(* The contents of the set: what a walk from head->next meets. *)

Walk[i \in 0..MaxNodes + 1] ==
    IF i = 0 THEN HeadNode
    ELSE IF Walk[i - 1] = Null THEN Null ELSE next[Walk[i - 1]]

Reachable == {Walk[i] : i \in 1..MaxNodes + 1} \ {Null}

LinkedKeys == {key[n] : n \in linked}

(***************************************************************************)
(* Every pointer ever followed leads to a larger key: no walk can loop, no *)
(* walk can meet a key twice, and every traversal of the code ends.  It is *)
(* claimed of unlinked nodes too, because a thread may still stand on one. *)
(***************************************************************************)
SortedLinks ==
    \A n \in 0..used :
        next[n] # Null => /\ next[n] \in 1..used
                          /\ key[n] < key[next[n]]

(***************************************************************************)
(* No node is lost and none comes back: the list holds exactly the nodes   *)
(* that some add put in and no remove has taken out.  A write based on a   *)
(* stale prev or node breaks it by dropping somebody else's node, or by    *)
(* resurrecting a removed one.                                             *)
(***************************************************************************)
NoLostNode == Reachable = linked

(***************************************************************************)
(* Keys are distinct and larger than the sentinel's: what `==' finds is    *)
(* the one node with that key.                                             *)
(***************************************************************************)
KeysDistinct ==
    /\ key[HeadNode] = IntMin
    /\ \A n \in linked : IntMin < key[n]
    /\ \A m, n \in linked : key[m] = key[n] => m = n

(***************************************************************************)
(* The list has no gap: a list node's successor is the list node with the  *)
(* next larger key, which is what entitles a walk that has passed a key's  *)
(* place to say that the key is absent.                                    *)
(***************************************************************************)
Adjacent ==
    \A n \in linked \cup {HeadNode} :
        /\ next[n] \in linked \cup {Null}
        /\ next[n] # Null => key[n] < key[next[n]]
        /\ \A m \in linked : key[n] < key[m] => next[n] # Null /\ key[next[n]] <= key[m]
=============================================================================
