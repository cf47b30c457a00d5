-------------------------- MODULE SetosOptimistic --------------------------
(***************************************************************************)
(* os_ex5/src/setos_optimistic.c: walk without locks, then lock the two    *)
(* nodes found, validate them, and write or start over.                    *)
(*                                                                         *)
(* setos_add locks node before prev, setos_remove prev before node.  Both  *)
(* validate by calling setos_contains on a KEY: what is checked is that    *)
(* the list holds some node with that key, not that it holds this node,    *)
(* nor that prev still points to node.                                     *)
(*                                                                         *)
(*   "start"       entered, or entered again by the call's own recursion   *)
(*   "scan"        at the head of the while loop                           *)
(*   "lock_node"   in DoLock(node)                                         *)
(*   "lock_prev"   in DoLock(prev)                                         *)
(*   "check_node"  in the setos_contains that validates node               *)
(*   "check_prev"  in the setos_contains that validates prev               *)
(*   "valid"       validated, the list is changed next                     *)
(*   "unlock"      the list is changed; two DoUnlock() and return 1        *)
(***************************************************************************)
EXTENDS SetosCalls

CONSTANT MutexInitCanFail   (* pthread_mutex_init may return an error       *)

ASSUME OptimisticAssumption == MutexInitCanFail \in BOOLEAN

VARIABLES
    lock,       (* lock[n]: the thread that holds n->_lock, or NoThread     *)
    seek        (* the local `node' of the setos_contains that validates;   *)
                (* Null outside it, HeadNode before it reads head->next     *)

vars == <<key, next, used, linked, pc, op, arg, node, prev, ret, calls, lock, seek>>

TypeOK ==
    /\ HeapTypeOK
    /\ FrameTypeOK({"idle", "start", "scan", "lock_node", "lock_prev",
                    "check_node", "check_prev", "valid", "unlock"})
    /\ lock \in [Node -> Threads \cup {NoThread}]
    /\ seek \in [Threads -> Addr]

Init ==
    /\ HeapInit
    /\ FrameInit
    /\ lock = [n \in Node |-> NoThread]
    /\ seek = [t \in Threads |-> Null]

Call(t) ==
    /\ \E o \in Operations : Begin(t, o, "start", Null, Null)
    /\ UNCHANGED <<heap, lock, seek>>

Start(t, o, n, p) ==
    /\ At(t, o, "start")
    /\ Goto(t, "scan", n, p)
    /\ UNCHANGED <<heap, lock, seek>>

(* DoLock(n): nothing if n is NULL, and waits for the mutex otherwise. *)
DoLock(t, n) ==
    \/ n = Null /\ UNCHANGED lock
    \/ n # Null /\ lock[n] = NoThread /\ lock' = [lock EXCEPT ![n] = t]

(* DoUnlock(node); DoUnlock(prev). *)
DoUnlockBoth(t) ==
    lock' = [n \in Node |-> IF n \in {node[t], prev[t]} THEN NoThread ELSE lock[n]]

(* A call that holds no lock returns r. *)
Return(t, r) == Finish(t, r) /\ UNCHANGED <<heap, lock, seek>>

(* prev = node; node = node->next. *)
Advance(t) ==
    /\ Goto(t, "scan", next[node[t]], node[t])
    /\ UNCHANGED <<heap, lock, seek>>

(* The call enters the setos_contains of location `where'. *)
StartCheck(t, where) ==
    /\ Proceed(t, where)
    /\ seek' = [seek EXCEPT ![t] = HeadNode]

(* Every validation succeeded. *)
Validated(t) ==
    /\ Proceed(t, "valid")
    /\ seek' = [seek EXCEPT ![t] = Null]

(* Mutants: a failed validation keeps the mutexes; it tries the same two   *)
(* nodes again instead of starting over.                                   *)
ValidateEndsLocked(t) ==
    /\ next[seek[t]] = Null
    /\ Goto(t, "start", Null, Null)
    /\ seek' = [seek EXCEPT ![t] = Null]
    /\ UNCHANGED <<heap, lock>>

ValidateEndsStale(t) ==
    /\ next[seek[t]] = Null
    /\ DoUnlockBoth(t)
    /\ Proceed(t, "scan")
    /\ seek' = [seek EXCEPT ![t] = Null]
    /\ UNCHANGED heap

(* One turn of the loop of setos_contains(k), called to validate: the list *)
(* ends, so both nodes are unlocked and the call starts over (whatever a   *)
(* second validation says); or the walk goes on; or it finds the key.      *)
ValidateEnds(t) ==
    /\ next[seek[t]] = Null
    /\ DoUnlockBoth(t)
    /\ Goto(t, "start", Null, Null)
    /\ seek' = [seek EXCEPT ![t] = Null]
    /\ UNCHANGED heap

ValidateStep(t, k) ==
    /\ next[seek[t]] # Null /\ key[next[seek[t]]] # k
    /\ seek' = [seek EXCEPT ![t] = next[seek[t]]]
    /\ Proceed(t, pc[t])
    /\ UNCHANGED <<heap, lock>>

ValidateFinds(t, k) == next[seek[t]] # Null /\ key[next[seek[t]]] = k

-----------------------------------------------------------------------------
(* setos_add *)

AddStart(t) == Start(t, "add", HeadNode, Null)

AddStep(t) == At(t, "add", "scan") /\ BeforeKey(t) /\ Advance(t)

AddPresent(t) == At(t, "add", "scan") /\ AtKey(t) /\ Return(t, 0)

(* Mutant: the key present is linked once more. *)
AddFoundTwice(t) ==
    /\ At(t, "add", "scan")
    /\ ~BeforeKey(t)
    /\ Proceed(t, "lock_node")
    /\ UNCHANGED <<heap, lock, seek>>

AddFound(t) ==
    /\ At(t, "add", "scan")
    /\ ~BeforeKey(t) /\ ~AtKey(t)
    /\ Proceed(t, "lock_node")
    /\ UNCHANGED <<heap, lock, seek>>

(* The new node's mutex cannot be initialised: return 1, nothing added. *)
AddInitFails(t) ==
    /\ At(t, "add", "scan")
    /\ ~BeforeKey(t) /\ ~AtKey(t)
    /\ MutexInitCanFail
    /\ Return(t, 1)

AddLockNode(t) ==
    /\ At(t, "add", "lock_node")
    /\ DoLock(t, node[t])
    /\ Proceed(t, "lock_prev")
    /\ UNCHANGED <<heap, seek>>

(* CheckPrev is 1 without a walk if prev is the sentinel. *)
CheckPrev(t) ==
    \/ prev[t] = HeadNode /\ Validated(t)
    \/ prev[t] # HeadNode /\ StartCheck(t, "check_prev")

(* So is CheckNext if node is NULL. *)
AddLockPrev(t) ==
    /\ At(t, "add", "lock_prev")
    /\ DoLock(t, prev[t])
    /\ \/ AtEnd(t) /\ CheckPrev(t)
       \/ ~AtEnd(t) /\ StartCheck(t, "check_node")
    /\ UNCHANGED heap

AddCheckNode(t) ==
    /\ At(t, "add", "check_node")
    /\ \/ ValidateEnds(t)
       \/ ValidateStep(t, key[node[t]])
       \/ /\ ValidateFinds(t, key[node[t]])
          /\ CheckPrev(t)
          /\ UNCHANGED <<heap, lock>>

AddCheckPrev(t) ==
    /\ At(t, "add", "check_prev")
    /\ \/ ValidateEnds(t)
       \/ ValidateStep(t, key[prev[t]])
       \/ /\ ValidateFinds(t, key[prev[t]])
          /\ Validated(t)
          /\ UNCHANGED <<heap, lock>>

AddLink(t) ==
    /\ At(t, "add", "valid")
    /\ Link(prev[t], node[t], arg[t])
    /\ Proceed(t, "unlock")
    /\ UNCHANGED <<lock, seek>>

(* setos_remove *)

RemoveStart(t) == Start(t, "remove", next[HeadNode], HeadNode)

RemoveStep(t) ==
    /\ At(t, "remove", "scan")
    /\ ~AtEnd(t) /\ ~AtKey(t)
    /\ Advance(t)

RemoveAbsent(t) == At(t, "remove", "scan") /\ AtEnd(t) /\ Return(t, 0)

RemoveFound(t) ==
    /\ At(t, "remove", "scan")
    /\ AtKey(t)
    /\ Proceed(t, "lock_prev")
    /\ UNCHANGED <<heap, lock, seek>>

RemoveLockPrev(t) ==
    /\ At(t, "remove", "lock_prev")
    /\ DoLock(t, prev[t])
    /\ Proceed(t, "lock_node")
    /\ UNCHANGED <<heap, seek>>

RemoveLockNode(t) ==
    /\ At(t, "remove", "lock_node")
    /\ DoLock(t, node[t])
    /\ StartCheck(t, "check_node")
    /\ UNCHANGED heap

RemoveCheckNode(t) ==
    /\ At(t, "remove", "check_node")
    /\ \/ ValidateEnds(t)
       \/ ValidateStep(t, arg[t])
       \/ /\ ValidateFinds(t, arg[t])
          /\ Validated(t)
          /\ UNCHANGED <<heap, lock>>

(* Mutant: the sentinel is written instead of prev. *)
RemoveUnlinkAtHead(t) ==
    /\ At(t, "remove", "valid")
    /\ Unlink(HeadNode, node[t])
    /\ Proceed(t, "unlock")
    /\ UNCHANGED <<lock, seek>>

RemoveUnlink(t) ==
    /\ At(t, "remove", "valid")
    /\ Unlink(prev[t], node[t])
    /\ Proceed(t, "unlock")
    /\ UNCHANGED <<lock, seek>>

(* setos_contains: it has no `prev', the model keeps one all the same. *)

ContainsStart(t) == Start(t, "contains", next[HeadNode], HeadNode)

ContainsStep(t) ==
    /\ At(t, "contains", "scan")
    /\ ~AtEnd(t) /\ ~AtKey(t)
    /\ Advance(t)

(* Mutant: the key is returned instead of 1. *)
ContainsFoundKey(t) == At(t, "contains", "scan") /\ AtKey(t) /\ Return(t, arg[t])

ContainsFound(t) == At(t, "contains", "scan") /\ AtKey(t) /\ Return(t, 1)

ContainsAbsent(t) == At(t, "contains", "scan") /\ AtEnd(t) /\ Return(t, 0)

Unlock(t) ==
    /\ pc[t] = "unlock"
    /\ DoUnlockBoth(t)
    /\ Finish(t, 1)
    /\ UNCHANGED <<heap, seek>>

-----------------------------------------------------------------------------
Step(t) ==
    \/ AddStart(t) \/ AddStep(t) \/ AddPresent(t) \/ AddFound(t)
    \/ AddInitFails(t) \/ AddLockNode(t) \/ AddLockPrev(t)
    \/ AddCheckNode(t) \/ AddCheckPrev(t) \/ AddLink(t)
    \/ RemoveStart(t) \/ RemoveStep(t) \/ RemoveAbsent(t) \/ RemoveFound(t)
    \/ RemoveLockPrev(t) \/ RemoveLockNode(t) \/ RemoveCheckNode(t)
    \/ RemoveUnlink(t)
    \/ ContainsStart(t) \/ ContainsStep(t) \/ ContainsFound(t) \/ ContainsAbsent(t)
    \/ Unlock(t)

Done == AllReturned /\ UNCHANGED vars

Next == (\E t \in Threads : Call(t) \/ Step(t)) \/ Done

Spec == Init /\ [][Next]_vars

(* A thread inside a call keeps running, and one that waits for a mutex    *)
(* nobody holds gets it in the end.  Nothing forces a thread to call.      *)
FairSpec == Spec /\ \A t \in Threads : WF_vars(Step(t))

-----------------------------------------------------------------------------
(* A node's `next' changes only by a step of the thread that holds the     *)
(* node's mutex, once the node is in the list.                             *)
NextWrittenUnderLock ==
    [][\A n \in 0..used : next'[n] # next[n] =>
           lock[n] # NoThread /\ pc'[lock[n]] # pc[lock[n]]]_vars

(* A thread that found a node to write to or to validate holds both locks, *)
(* and a thread that walks or is idle holds none: no retry leaks a lock.   *)
LocksInFrame ==
    \A t \in Threads :
        {n \in Node : lock[n] = t} =
            IF pc[t] \in {"check_node", "check_prev", "valid", "unlock"}
            THEN {node[t], prev[t]} \ {Null}
            ELSE IF At(t, "add", "lock_prev") THEN {node[t]} \ {Null}
            ELSE IF At(t, "remove", "lock_node") THEN {prev[t]}
            ELSE {}

(* "3. validate that prev points to node": when an add passed validation,  *)
(* prev and node are still neighbours.                                     *)
ValidatedAdjacency ==
    \A t \in Threads : At(t, "add", "valid") => next[prev[t]] = node[t]

(* Every call returns: no deadlock, and no call starts over for ever.      *)
EveryCallReturns == \A t \in Threads : op[t] # "none" ~> op[t] = "none"

(* What is true of it: calls that only add and look, or only remove and    *)
(* look, all return.  Adds lock neighbours from the back and removes from  *)
(* the front, so that each kind has an order of its own; and a validation  *)
(* fails only because another call has changed the list.                   *)
OneKindReturns ==
    [](\A t \in Threads : op[t] # "add") \/ [](\A t \in Threads : op[t] # "remove")
        => EveryCallReturns
=============================================================================
