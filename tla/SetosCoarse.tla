---------------------------- MODULE SetosCoarse ----------------------------
(***************************************************************************)
(* os_ex5/src/setos_coarse.c: the set under one global mutex.  Every call  *)
(* takes the mutex first and gives it back last; the walk goes node by     *)
(* node, so that the module shows what the mutex is for.                   *)
(*                                                                         *)
(*   "lock"    in DoLock()                                                 *)
(*   "scan"    at the head of the while loop                               *)
(*   "unlock"  the list is changed, DoUnlock() and return 1 are next       *)
(***************************************************************************)
EXTENDS SetosCalls

VARIABLE lock   (* the thread that holds _global_lock, or NoThread          *)

vars == <<key, next, used, linked, pc, op, arg, node, prev, ret, calls, lock>>

TypeOK ==
    /\ HeapTypeOK
    /\ FrameTypeOK({"idle", "lock", "scan", "unlock"})
    /\ lock \in Threads \cup {NoThread}

Init == HeapInit /\ FrameInit /\ lock = NoThread

Call(t) ==
    /\ \E o \in Operations : Begin(t, o, "lock", Null, Null)
    /\ UNCHANGED <<heap, lock>>

(* DoLock() returns; the two pointers get their first values. *)
Enter(t, o, n, p) ==
    /\ At(t, o, "lock")
    /\ lock = NoThread
    /\ lock' = t
    /\ Goto(t, "scan", n, p)
    /\ UNCHANGED heap

(* DoUnlock(); return r. *)
Leave(t, r) ==
    /\ lock' = NoThread
    /\ Finish(t, r)
    /\ UNCHANGED heap

(* prev = node; node = node->next. *)
Advance(t) ==
    /\ Goto(t, "scan", next[node[t]], node[t])
    /\ UNCHANGED <<heap, lock>>

-----------------------------------------------------------------------------
(* setos_add.  Its `prev' is not initialised: Null stands for the garbage. *)

AddEnter(t) == Enter(t, "add", HeadNode, Null)

AddStep(t) == At(t, "add", "scan") /\ BeforeKey(t) /\ Advance(t)

(* Mutant: the early return forgets the mutex. *)
AddPresentKeepsLock(t) ==
    /\ At(t, "add", "scan")
    /\ AtKey(t)
    /\ Finish(t, 0)
    /\ UNCHANGED <<heap, lock>>

AddPresent(t) == At(t, "add", "scan") /\ AtKey(t) /\ Leave(t, 0)

(* Mutant: the walk stops one node early. *)
AddLinkTooEarly(t) ==
    /\ At(t, "add", "scan")
    /\ prev[t] # Null /\ ~AtKey(t)
    /\ Link(prev[t], node[t], arg[t])
    /\ Proceed(t, "unlock")
    /\ UNCHANGED lock

AddLink(t) ==
    /\ At(t, "add", "scan")
    /\ ~BeforeKey(t) /\ ~AtKey(t)
    /\ Link(prev[t], node[t], arg[t])
    /\ Proceed(t, "unlock")
    /\ UNCHANGED lock

(* setos_remove *)

RemoveEnter(t) == Enter(t, "remove", next[HeadNode], HeadNode)

RemoveStep(t) ==
    /\ At(t, "remove", "scan")
    /\ ~AtEnd(t) /\ ~AtKey(t)
    /\ Advance(t)

RemoveUnlink(t) ==
    /\ At(t, "remove", "scan")
    /\ AtKey(t)
    /\ Unlink(prev[t], node[t])
    /\ Proceed(t, "unlock")
    /\ UNCHANGED lock

(* Mutant: the walk gives up at the first other key. *)
RemoveAbsentTooEarly(t) ==
    At(t, "remove", "scan") /\ ~AtKey(t) /\ Leave(t, 0)

RemoveAbsent(t) == At(t, "remove", "scan") /\ AtEnd(t) /\ Leave(t, 0)

(* setos_contains: it has no `prev', the model keeps one all the same. *)

ContainsEnter(t) == Enter(t, "contains", next[HeadNode], HeadNode)

(* Mutant: node = node->next is missing. *)
ContainsStepStays(t) ==
    /\ At(t, "contains", "scan")
    /\ ~AtEnd(t) /\ ~AtKey(t)
    /\ Proceed(t, "scan")
    /\ UNCHANGED <<heap, lock>>

ContainsStep(t) ==
    /\ At(t, "contains", "scan")
    /\ ~AtEnd(t) /\ ~AtKey(t)
    /\ Advance(t)

(* Mutant: the key is returned instead of 1. *)
ContainsFoundKey(t) == At(t, "contains", "scan") /\ AtKey(t) /\ Leave(t, arg[t])

ContainsFound(t) == At(t, "contains", "scan") /\ AtKey(t) /\ Leave(t, 1)

ContainsAbsent(t) == At(t, "contains", "scan") /\ AtEnd(t) /\ Leave(t, 0)

Unlock(t) == pc[t] = "unlock" /\ Leave(t, 1)

-----------------------------------------------------------------------------
Step(t) ==
    \/ AddEnter(t) \/ AddStep(t) \/ AddPresent(t) \/ AddLink(t)
    \/ RemoveEnter(t) \/ RemoveStep(t) \/ RemoveUnlink(t) \/ RemoveAbsent(t)
    \/ ContainsEnter(t) \/ ContainsStep(t) \/ ContainsFound(t) \/ ContainsAbsent(t)
    \/ Unlock(t)

Done == AllReturned /\ UNCHANGED vars

Next == (\E t \in Threads : Call(t) \/ Step(t)) \/ Done

Spec == Init /\ [][Next]_vars

(* A thread inside a call keeps running, and one that waits for a mutex    *)
(* nobody holds gets it in the end.  Nothing forces a thread to call.      *)
FairSpec == Spec /\ \A t \in Threads : WF_vars(Step(t))

-----------------------------------------------------------------------------
(* Every return path of the three functions gives the mutex back exactly   *)
(* once and every path between takes it: the owner is the one thread       *)
(* inside the list, and whoever is inside is the owner.                    *)
OwnerInside == \A t \in Threads : lock = t <=> pc[t] \in {"scan", "unlock"}

(* setos_add dereferences `prev', which it never initialises, only after   *)
(* the loop has assigned it: the sentinel's key is smaller than the key.   *)
PrevAssigned ==
    \A t \in Threads :
        At(t, "add", "scan") /\ ~BeforeKey(t) /\ ~AtKey(t) => prev[t] # Null

(* What a walk knows: prev and node are neighbours in the list, an add is  *)
(* past no key that is not smaller than its own, and a remove or contains  *)
(* has not overlooked its key in the part it has passed.                   *)
WalkPassed ==
    \A t \in Threads : pc[t] = "scan" =>
        IF op[t] = "add" /\ prev[t] = Null THEN node[t] = HeadNode
        ELSE /\ prev[t] \in linked \cup {HeadNode}
             /\ node[t] = next[prev[t]]
             /\ op[t] = "add" => key[prev[t]] < arg[t]
             /\ op[t] # "add" =>
                    \A n \in linked : key[n] <= key[prev[t]] => key[n] # arg[t]

(* Every call returns: no call waits for the mutex for ever, or walks for  *)
(* ever (a bounded number of calls competes for the mutex).                *)
EveryCallReturns == \A t \in Threads : op[t] # "none" ~> op[t] = "none"
=============================================================================
