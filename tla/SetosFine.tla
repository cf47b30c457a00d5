----------------------------- MODULE SetosFine -----------------------------
(***************************************************************************)
(* os_ex5/src/setos_fine.c: a mutex in every node, taken hand over hand.   *)
(*                                                                         *)
(* setos_add locks the sentinel and then a node before it lets the one     *)
(* before go.  setos_remove reads head->next BEFORE it locks the sentinel, *)
(* so the first pair it holds may not be neighbours any more.              *)
(* setos_contains holds at most one node, and reads node->next after it    *)
(* has unlocked the node.                                                  *)
(*                                                                         *)
(*   "lock_prev"  in DoLock(prev)                                          *)
(*   "lock_node"  in DoLock(node)                                          *)
(*   "scan"       at the head of the while loop                            *)
(*   "next"       contains: node unlocked, node = node->next comes next    *)
(*   "unlock"     the list is changed; two DoUnlock() and return 1         *)
(*                                                                         *)
(* A step ends where another thread's next step could matter: unlocking    *)
(* two nodes one after the other and then returning is one step, for an    *)
(* unlock only enables others and nothing the thread does next is shared.  *)
(***************************************************************************)
EXTENDS SetosCalls

CONSTANT MutexInitCanFail   (* pthread_mutex_init may return an error       *)

ASSUME FineAssumption == MutexInitCanFail \in BOOLEAN

VARIABLES
    lock,       (* lock[n]: the thread that holds n->_lock, or NoThread     *)
    failed      (* auxiliary: some pthread_mutex_init has failed            *)

vars ==
    <<key, next, used, linked, pc, op, arg, node, prev, ret, calls, lock, failed>>

TypeOK ==
    /\ HeapTypeOK
    /\ FrameTypeOK({"idle", "lock_prev", "lock_node", "scan", "next", "unlock"})
    /\ lock \in [Node -> Threads \cup {NoThread}]
    /\ failed \in BOOLEAN

Init ==
    /\ HeapInit
    /\ FrameInit
    /\ lock = [n \in Node |-> NoThread]
    /\ failed = FALSE

(* DoLock(n): nothing if n is NULL, and waits for the mutex otherwise. *)
DoLock(t, n) ==
    \/ n = Null /\ UNCHANGED lock
    \/ n # Null /\ lock[n] = NoThread /\ lock' = [lock EXCEPT ![n] = t]

(* DoUnlock(n) for the n in S, nothing for NULL. *)
DoUnlock(S) == lock' = [n \in Node |-> IF n \in S THEN NoThread ELSE lock[n]]

(* DoUnlock(node); DoUnlock(prev); return r. *)
Leave(t, r) ==
    /\ DoUnlock({node[t], prev[t]})
    /\ Finish(t, r)
    /\ UNCHANGED <<heap, failed>>

(* Mutant: node is let go before the next node is locked. *)
AdvanceHandsOff(t) ==
    /\ DoUnlock({prev[t], node[t]})
    /\ Goto(t, "lock_node", next[node[t]], node[t])
    /\ UNCHANGED <<heap, failed>>

(* DoUnlock(prev); prev = node; node = node->next; DoLock(node) is next. *)
Advance(t) ==
    /\ DoUnlock({prev[t]})
    /\ Goto(t, "lock_node", next[node[t]], node[t])
    /\ UNCHANGED <<heap, failed>>

LockPrev(t) ==
    /\ pc[t] = "lock_prev"
    /\ DoLock(t, prev[t])
    /\ Proceed(t, "lock_node")
    /\ UNCHANGED <<heap, failed>>

LockNode(t) ==
    /\ pc[t] = "lock_node"
    /\ DoLock(t, node[t])
    /\ Proceed(t, "scan")
    /\ UNCHANGED <<heap, failed>>

-----------------------------------------------------------------------------
(* setos_add *)

AddCall(t) ==
    /\ Begin(t, "add", "lock_node", HeadNode, Null)
    /\ UNCHANGED <<heap, lock, failed>>

AddStep(t) == At(t, "add", "scan") /\ BeforeKey(t) /\ Advance(t)

(* Mutant: the early return unlocks node and forgets prev. *)
AddPresentKeepsPrev(t) ==
    /\ At(t, "add", "scan")
    /\ AtKey(t)
    /\ DoUnlock({node[t]})
    /\ Finish(t, 0)
    /\ UNCHANGED <<heap, failed>>

AddPresent(t) == At(t, "add", "scan") /\ AtKey(t) /\ Leave(t, 0)

(* Mutant: the key present is linked once more. *)
AddLinkTwice(t) ==
    /\ At(t, "add", "scan")
    /\ ~BeforeKey(t)
    /\ Link(prev[t], node[t], arg[t])
    /\ Proceed(t, "unlock")
    /\ UNCHANGED <<lock, failed>>

AddLink(t) ==
    /\ At(t, "add", "scan")
    /\ ~BeforeKey(t) /\ ~AtKey(t)
    /\ Link(prev[t], node[t], arg[t])
    /\ Proceed(t, "unlock")
    /\ UNCHANGED <<lock, failed>>

(* The new node's mutex cannot be initialised: return 1, with both locks. *)
AddInitFails(t) ==
    /\ At(t, "add", "scan")
    /\ ~BeforeKey(t) /\ ~AtKey(t)
    /\ MutexInitCanFail
    /\ failed' = TRUE
    /\ Finish(t, 1)
    /\ UNCHANGED <<heap, lock>>

(* setos_remove: head->next is read with no lock held. *)

(* Mutants: node is locked before prev; prev is not locked at all. *)
RemoveCallSwapped(t) ==
    /\ Begin(t, "remove", "lock_prev", HeadNode, next[HeadNode])
    /\ UNCHANGED <<heap, lock, failed>>

RemoveCallNoPrevLock(t) ==
    /\ Begin(t, "remove", "lock_node", next[HeadNode], HeadNode)
    /\ UNCHANGED <<heap, lock, failed>>

RemoveCall(t) ==
    /\ Begin(t, "remove", "lock_prev", next[HeadNode], HeadNode)
    /\ UNCHANGED <<heap, lock, failed>>

RemoveStep(t) ==
    /\ At(t, "remove", "scan")
    /\ ~AtEnd(t) /\ ~AtKey(t)
    /\ Advance(t)

(* Mutant: the sentinel is written instead of prev. *)
RemoveUnlinkAtHead(t) ==
    /\ At(t, "remove", "scan")
    /\ AtKey(t)
    /\ Unlink(HeadNode, node[t])
    /\ Proceed(t, "unlock")
    /\ UNCHANGED <<lock, failed>>

RemoveUnlink(t) ==
    /\ At(t, "remove", "scan")
    /\ AtKey(t)
    /\ Unlink(prev[t], node[t])
    /\ Proceed(t, "unlock")
    /\ UNCHANGED <<lock, failed>>

(* Mutant: the walk gives up at the first other key. *)
RemoveAbsentTooEarly(t) ==
    At(t, "remove", "scan") /\ ~AtKey(t) /\ Leave(t, 0)

RemoveAbsent(t) == At(t, "remove", "scan") /\ AtEnd(t) /\ Leave(t, 0)

(* setos_contains *)

ContainsCall(t) ==
    /\ Begin(t, "contains", "lock_node", next[HeadNode], Null)
    /\ UNCHANGED <<heap, lock, failed>>

(* Mutant: the key is returned instead of 1. *)
ContainsFoundKey(t) == At(t, "contains", "scan") /\ AtKey(t) /\ Leave(t, arg[t])

ContainsFound(t) == At(t, "contains", "scan") /\ AtKey(t) /\ Leave(t, 1)

ContainsUnlock(t) ==
    /\ At(t, "contains", "scan")
    /\ ~AtEnd(t) /\ ~AtKey(t)
    /\ DoUnlock({node[t]})
    /\ Proceed(t, "next")
    /\ UNCHANGED <<heap, failed>>

(* Mutant: node = node->next is missing. *)
ContainsNextStays(t) ==
    /\ At(t, "contains", "next")
    /\ Proceed(t, "lock_node")
    /\ UNCHANGED <<heap, lock, failed>>

ContainsNext(t) ==
    /\ At(t, "contains", "next")
    /\ Goto(t, "lock_node", next[node[t]], Null)
    /\ UNCHANGED <<heap, lock, failed>>

ContainsAbsent(t) == At(t, "contains", "scan") /\ AtEnd(t) /\ Leave(t, 0)

Unlock(t) == pc[t] = "unlock" /\ Leave(t, 1)

-----------------------------------------------------------------------------
Call(t) == AddCall(t) \/ RemoveCall(t) \/ ContainsCall(t)

Step(t) ==
    \/ LockPrev(t) \/ LockNode(t)
    \/ AddStep(t) \/ AddPresent(t) \/ AddLink(t) \/ AddInitFails(t)
    \/ RemoveStep(t) \/ RemoveUnlink(t) \/ RemoveAbsent(t)
    \/ ContainsFound(t) \/ ContainsUnlock(t) \/ ContainsNext(t) \/ ContainsAbsent(t)
    \/ Unlock(t)

Done == AllReturned /\ UNCHANGED vars

Next == (\E t \in Threads : Call(t) \/ Step(t)) \/ Done

Spec == Init /\ [][Next]_vars

(* A thread inside a call keeps running, and one that waits for a mutex    *)
(* nobody holds gets it in the end.  Nothing forces a thread to call.      *)
FairSpec == Spec /\ \A t \in Threads : WF_vars(Step(t))

-----------------------------------------------------------------------------
(* The node thread t waits for, or Null when it waits for none. *)
Awaited(t) ==
    IF pc[t] = "lock_prev" THEN prev[t]
    ELSE IF pc[t] = "lock_node" THEN node[t] ELSE Null

(* Locks are taken in the order of the list: a thread that waits for a     *)
(* node's mutex holds only mutexes of nodes with smaller keys.  Hence no   *)
(* circle of threads, each waiting for the next, can close, also among     *)
(* threads that stand on unlinked nodes.  (A failed pthread_mutex_init     *)
(* leaves two mutexes locked for good.)                                    *)
LockOrder ==
    ~failed => \A t \in Threads : Awaited(t) # Null =>
        \A n \in Node : lock[n] = t => key[n] < key[Awaited(t)]

(* A thread holds a mutex only within a call, and only of the two nodes    *)
(* its pointers name: none is leaked on any return path, but for the one   *)
(* after a failed pthread_mutex_init.                                      *)
LocksInFrame ==
    ~failed => \A n \in Node : lock[n] # NoThread =>
        op[lock[n]] # "none" /\ n \in {node[lock[n]], prev[lock[n]]}

(* setos_add and setos_remove hold `prev' and `node' whenever they stand   *)
(* at the loop: DoUnlock() is never called on somebody else's mutex, which *)
(* POSIX leaves undefined.                                                 *)
UnlocksItsOwn ==
    \A t \in Threads : pc[t] \in {"scan", "unlock"} =>
        \A n \in {node[t], prev[t]} \ {Null} : lock[n] = t

(* A node's `next' changes only by a step of the thread that holds the     *)
(* node's mutex, once the node is in the list.                             *)
NextWrittenUnderLock ==
    [][\A n \in 0..used : next'[n] # next[n] =>
           lock[n] # NoThread /\ pc'[lock[n]] # pc[lock[n]]]_vars

(* Every call returns: no deadlock, no endless walk, unless some          *)
(* pthread_mutex_init failed.                                              *)
EveryCallReturns == \A t \in Threads : op[t] # "none" ~> op[t] = "none" \/ failed
=============================================================================
