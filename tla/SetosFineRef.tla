---------------------------- MODULE SetosFineRef ----------------------------
(***************************************************************************)
(* os_ex5/files/setos_fine-ref.c: another fine-grained set.  Its setos_add *)
(* and setos_remove take the same steps as those of setos_fine.c.  Its     *)
(* setos_contains holds a node and the next one while it looks at a key,   *)
(* but never keeps the next one in a variable: it reads node->next anew to *)
(* lock it, to unlock it and to go on, the last two times after it has     *)
(* unlocked node.                                                          *)
(*                                                                         *)
(* In addition to the locations of SetosFine, setos_contains is at         *)
(*   "lock_next"    node->next was not NULL, and is about to be locked     *)
(*   "holds"        it has both, and looks at the key                      *)
(*   "found"        node is unlocked, node->next is tested once more       *)
(*   "unlock_next"  it was not NULL, and is about to be unlocked           *)
(*   "crashed"      node->next was NULL when it was read again             *)
(*                                                                         *)
(* A mutex that cannot be initialised ends the process by an assertion.    *)
(***************************************************************************)
EXTENDS SetosFine, SetosHistory

RefInit == Init /\ NoneSeen

RefLock(t) == LockPrev(t) \/ LockNode(t)

RefAdd(t) == AddStep(t) \/ AddPresent(t) \/ AddLink(t)

RefRemove(t) == RemoveStep(t) \/ RemoveUnlink(t) \/ RemoveAbsent(t)

(* if (node->next != NULL) *)
NextTested(t) ==
    /\ At(t, "contains", "scan") /\ ~AtEnd(t)
    /\ Proceed(t, IF next[node[t]] = Null THEN "holds" ELSE "lock_next")
    /\ UNCHANGED <<heap, lock, failed>>

(* Mutant: the next node is not locked. *)
NextNotLocked(t) ==
    /\ At(t, "contains", "lock_next")
    /\ Proceed(t, "holds")
    /\ UNCHANGED <<heap, lock, failed>>

NextLocked(t) ==
    /\ At(t, "contains", "lock_next")
    /\ DoLock(t, next[node[t]])
    /\ Proceed(t, IF next[node[t]] = Null THEN "crashed" ELSE "holds")
    /\ UNCHANGED <<heap, failed>>

(* Mutant: the condition setos_add stops at. *)
KeyFoundOrPassed(t) ==
    /\ At(t, "contains", "holds") /\ ~BeforeKey(t)
    /\ DoUnlock({node[t]})
    /\ Proceed(t, "found")
    /\ UNCHANGED <<heap, failed>>

KeyFound(t) ==
    /\ At(t, "contains", "holds") /\ AtKey(t)
    /\ DoUnlock({node[t]})
    /\ Proceed(t, "found")
    /\ UNCHANGED <<heap, failed>>

Found(t) ==
    /\ At(t, "contains", "found")
    /\ IF next[node[t]] = Null THEN Finish(t, 1) ELSE Proceed(t, "unlock_next")
    /\ UNCHANGED <<heap, lock, failed>>

(* The node unlocked is the one that is next by now, whoever holds it. *)
NextUnlocked(t) ==
    /\ At(t, "contains", "unlock_next")
    /\ DoUnlock({next[node[t]]})
    /\ IF next[node[t]] = Null THEN Proceed(t, "crashed") ELSE Finish(t, 1)
    /\ UNCHANGED <<heap, failed>>

KeyPassed(t) ==
    /\ At(t, "contains", "holds") /\ ~AtKey(t)
    /\ DoUnlock({node[t]})
    /\ Proceed(t, "next")
    /\ UNCHANGED <<heap, failed>>

(* node = node->next: the node is taken to be locked. *)
GoOn(t) ==
    /\ At(t, "contains", "next")
    /\ Goto(t, "scan", next[node[t]], Null)
    /\ UNCHANGED <<heap, lock, failed>>

RefContains(t) ==
    \/ NextTested(t) \/ NextLocked(t) \/ KeyFound(t) \/ Found(t)
    \/ NextUnlocked(t) \/ KeyPassed(t) \/ GoOn(t) \/ ContainsAbsent(t)

RefStep(t) == RefLock(t) \/ RefAdd(t) \/ RefRemove(t) \/ RefContains(t) \/ Unlock(t)

RefNext ==
    /\ \A t \in Threads : pc[t] # "crashed"
    /\ (\E t \in Threads : Call(t) \/ RefStep(t)) \/ Done
    /\ Observe

RefSpec == RefInit /\ [][RefNext]_<<vars, seen>>

-----------------------------------------------------------------------------
(* When setos_contains reads node->next again, the node it finds there is  *)
(* the one it has locked.  Otherwise it unlocks a mutex that somebody else *)
(* holds, walks on without one, and leaves the one it has locked for good. *)
KeepsItsHold ==
    \A t \in Threads :
        pc[t] \in {"found", "unlock_next", "next"} /\ next[node[t]] # Null =>
            lock[next[node[t]]] = t
=============================================================================
