-------------------------- MODULE SetosFine_proofs -------------------------
(***************************************************************************)
(* What hand-over-hand locking gives the fine-grained set, for any number  *)
(* of threads, keys and calls: ascending links, mutexes held as the code   *)
(* says.  And what it gives as long as the first node of the list stays,   *)
(* which setos_remove needs because it reads head->next too early: no node *)
(* is lost, and the set is linearizable.  The same, as long as the last    *)
(* node stays as well, of setos_fine-ref.c, whose setos_contains reads     *)
(* node->next again after it has unlocked node.                            *)
(***************************************************************************)
EXTENDS SetosFineLin, SetosFineRef, SetosNode_proofs

(* The pointers of t name linked nodes, in ascending order. *)
PointersOK(t) ==
    /\ node[t] \in (0..used) \cup {Null}
    /\ prev[t] \in (0..used) \cup {Null}
    /\ prev[t] # Null /\ node[t] # Null => key[prev[t]] < key[node[t]]

(* What its location says of its operation, key and pointers. *)
FrameOK(t) ==
    /\ op[t] = "none" <=> pc[t] = "idle"
    /\ op[t] # "none" => arg[t] \in Keys
    /\ op[t] = "add" =>
           /\ pc[t] \in {"lock_node", "scan", "unlock"}
           /\ prev[t] = Null => node[t] = HeadNode
           /\ prev[t] # Null => key[prev[t]] < arg[t]
    /\ op[t] = "remove" =>
           /\ pc[t] \in {"lock_prev", "lock_node", "scan", "unlock"}
           /\ prev[t] # Null
    /\ op[t] = "contains" =>
           /\ pc[t] \in {"lock_node", "scan", "next"}
           /\ prev[t] = Null
    /\ pc[t] = "next" => node[t] # Null

(* The mutexes its location says it holds. *)
Expected(t) ==
    CASE pc[t] \in {"scan", "unlock"} -> {node[t], prev[t]} \ {Null}
      [] pc[t] = "lock_node" -> {prev[t]} \ {Null}
      [] OTHER -> {}

HoldsExpected == \A t \in Threads : \A n \in Expected(t) : lock[n] = t

HoldsNoOther ==
    \A t \in Threads, n \in Node : lock[n] = t => n \in Expected(t)

Threadwise == \A t \in Threads : PointersOK(t) /\ FrameOK(t)

Inv ==
    /\ TypeOK
    /\ HeapOK
    /\ Threadwise
    /\ HoldsExpected
    /\ ~failed => HoldsNoOther

-----------------------------------------------------------------------------
(* setos_init leaves a sorted list and every mutex free. *)
LEMMA InitInv == Init => Inv
<1>1. SUFFICES ASSUME Init PROVE Inv
  OBVIOUS
<1>2. HeapOK
  BY <1>1, InitHeapOK DEF Init
<1>3. TypeOK
  BY <1>1, <1>2, NodeAssumption
  DEF Init, FrameInit, HeapOK, TypeOK, FrameTypeOK, Addr, NoResult
<1>4. Threadwise
  BY <1>1 DEF Init, FrameInit, Threadwise, PointersOK, FrameOK
<1>5. HoldsExpected /\ HoldsNoOther
  BY <1>1, CallAssumption DEF Init, FrameInit, HoldsExpected, HoldsNoOther, Expected
<1>6. QED
  BY <1>2, <1>3, <1>4, <1>5 DEF Inv

(* The facts about addresses every step needs. *)
LEMMA AddrFacts ==
    ASSUME Inv
    PROVE  /\ 0..used \subseteq Node /\ HeadNode \in 0..used /\ Null \notin Node
           /\ \A n \in 0..used : key[n] \in Int /\ next[n] \in (0..used) \cup {Null}
BY HeapFacts DEF Inv

(* Thread t leaves what it does not own alone: the other threads' frames,  *)
(* the keys of the nodes that exist.                                       *)
Local(t) ==
    /\ \A u \in Threads \ {t} :
           /\ pc'[u] = pc[u] /\ op'[u] = op[u] /\ arg'[u] = arg[u]
           /\ node'[u] = node[u] /\ prev'[u] = prev[u]
    /\ used' \in Nat /\ used <= used'
    /\ \A n \in 0..used : key'[n] = key[n]

(* Of a step of t only what it does to t itself, to the heap and to the    *)
(* mutexes remains to be shown.                                            *)
LEMMA ThreadStep ==
    ASSUME Inv, NEW t \in Threads, Local(t), PointersOK(t)', FrameOK(t)'
    PROVE  Threadwise'
<1>1. SUFFICES ASSUME NEW u \in Threads \ {t} PROVE PointersOK(u)' /\ FrameOK(u)'
  BY DEF Threadwise
<1>2. PointersOK(u) /\ FrameOK(u) /\ used \in Nat
  BY DEF Inv, Threadwise, HeapOK, HeapTypeOK, Node
<1>3. PointersOK(u)'
  BY <1>2, AddrFacts DEF Local, PointersOK, Null
<1>4. FrameOK(u)'
  BY <1>2, AddrFacts DEF Local, FrameOK, PointersOK
<1>5. QED
  BY <1>3, <1>4

(* Thread t gives back the mutexes of S, which it held, and takes the free *)
(* ones of T.                                                              *)
LEMMA LockStep ==
    ASSUME Inv, NEW t \in Threads, Local(t), NEW S, NEW T,
           \A n \in Node : lock'[n] = IF n \in S THEN NoThread
                                      ELSE IF n \in T THEN t ELSE lock[n],
           \A n \in S : n \in Node => lock[n] = t,
           \A n \in T : n \in Node => lock[n] = NoThread,
           Expected(t)' \subseteq Node,
           \A n \in Expected(t)' : n \in T \/ n \in Expected(t),
           \A n \in S : n \notin Expected(t)',
           \A n \in Expected(t) : n \in S \/ n \in Expected(t)',
           \A n \in T : n \in Node => n \in Expected(t)'
    PROVE  HoldsExpected' /\ (~failed => HoldsNoOther')
<1>1. \A u \in Threads \ {t} : Expected(u)' = Expected(u)
  BY DEF Local, Expected
<1>2. \A u \in Threads : Expected(u) \subseteq Node
  <2>1. SUFFICES ASSUME NEW u \in Threads PROVE Expected(u) \subseteq Node
    OBVIOUS
  <2>2. PointersOK(u)
    BY DEF Inv, Threadwise
  <2>3. QED
    BY <2>2, AddrFacts DEF PointersOK, Expected
<1>3. HoldsExpected'
  <2>1. SUFFICES ASSUME NEW u \in Threads, NEW n \in Expected(u)' PROVE lock'[n] = u
    BY DEF HoldsExpected
  <2>2. CASE u = t
    BY <1>2, <2>1, <2>2 DEF Inv, HoldsExpected
  <2>3. CASE u # t
    <3>1. n \in Expected(u) /\ n \in Node /\ lock[n] = u
      BY <1>1, <1>2, <2>1, <2>3 DEF Inv, HoldsExpected
    <3>2. QED
      BY <2>3, <3>1, CallAssumption
  <2>4. QED
    BY <2>2, <2>3
<1>4. ASSUME ~failed PROVE HoldsNoOther'
  <2>1. SUFFICES ASSUME NEW u \in Threads, NEW n \in Node, lock'[n] = u
                 PROVE  n \in Expected(u)'
    BY DEF HoldsNoOther
  <2>2. n \notin S
    BY <2>1, CallAssumption
  <2>3. CASE n \in T
    BY <2>1, <2>2, <2>3
  <2>4. CASE n \notin T
    <3>1. lock[n] = u /\ n \in Expected(u)
      BY <1>4, <2>1, <2>2, <2>4 DEF Inv, HoldsNoOther
    <3>2. QED
      BY <1>1, <2>2, <3>1
  <2>5. QED
    BY <2>3, <2>4
<1>5. QED
  BY <1>3, <1>4

-----------------------------------------------------------------------------
(* The frame of t after it moved on, returned or called. *)

Locks == [Node -> Threads \cup {NoThread}]

(* A step within a call keeps the types, and disturbs no other thread. *)
LEMMA GotoFrame ==
    ASSUME Inv, HeapOK', KeysKept, lock' \in Locks, NEW t \in Threads,
           failed' \in {failed, TRUE},
           NEW where \in {"lock_prev", "lock_node", "scan", "next", "unlock"},
           NEW n \in Addr, NEW p \in Addr, Goto(t, where, n, p)
    PROVE  /\ TypeOK' /\ Local(t)
           /\ pc'[t] = where /\ node'[t] = n /\ prev'[t] = p
           /\ op'[t] = op[t] /\ arg'[t] = arg[t]
BY DEF Inv, TypeOK, FrameTypeOK, HeapOK, Locks, Goto, Local, KeysKept

(* So does a return. *)
LEMMA FinishFrame ==
    ASSUME Inv, HeapOK', KeysKept, lock' \in Locks, NEW t \in Threads,
           failed' \in {failed, TRUE},
           NEW r \in {0, 1}, Finish(t, r)
    PROVE  TypeOK' /\ Local(t) /\ PointersOK(t)' /\ FrameOK(t)' /\ Expected(t)' = {}
<1>1. /\ pc' = [pc EXCEPT ![t] = "idle"]
      /\ op' = [op EXCEPT ![t] = "none"]
      /\ arg' = [arg EXCEPT ![t] = IntMin]
      /\ node' = [node EXCEPT ![t] = Null]
      /\ prev' = [prev EXCEPT ![t] = Null]
      /\ ret' = [ret EXCEPT ![t] = r]
      /\ calls' = calls
  BY DEF Finish
<1>2. TypeOK' /\ Local(t)
  BY <1>1, NodeAssumption
  DEF Inv, TypeOK, FrameTypeOK, HeapOK, Locks, Local, KeysKept, Addr, NoResult
<1>3. pc'[t] = "idle" /\ op'[t] = "none" /\ node'[t] = Null /\ prev'[t] = Null
  BY <1>1 DEF Inv, TypeOK, FrameTypeOK
<1>4. QED
  BY <1>2, <1>3 DEF PointersOK, FrameOK, Expected

(* So does a new call. *)
LEMMA BeginFrame ==
    ASSUME Inv, UNCHANGED <<heap, lock, failed>>, NEW t \in Threads, NEW o \in Operations,
           NEW where \in {"lock_prev", "lock_node"}, NEW n \in Addr, NEW p \in Addr,
           Begin(t, o, where, n, p)
    PROVE  /\ TypeOK' /\ Local(t)
           /\ pc'[t] = where /\ node'[t] = n /\ prev'[t] = p
           /\ op'[t] = o /\ arg'[t] \in Keys /\ pc[t] = "idle"
<1>1. PICK k \in Keys : arg' = [arg EXCEPT ![t] = k]
  BY DEF Begin
<1>2. k \in Int
  BY CallAssumption
<1>3. HeapOK' /\ KeysKept
  BY HeapKept DEF Inv
<1>4. TypeOK'
  BY <1>1, <1>2, <1>3 DEF Begin, Inv, TypeOK, FrameTypeOK, HeapOK, NoResult
<1>5. QED
  BY <1>1, <1>3, <1>4
  DEF Begin, Inv, TypeOK, FrameTypeOK, Local, KeysKept, Threadwise, FrameOK

-----------------------------------------------------------------------------
(* The steps. *)

(* A new call holds no mutex and has read at most head->next. *)
LEMMA CallInv == ASSUME Inv, NEW t \in Threads, Call(t) PROVE Inv'
<1>1. HeapOK' /\ UNCHANGED <<heap, lock, failed>>
  BY HeapKept DEF Inv, Call, AddCall, RemoveCall, ContainsCall
<1>2. /\ next[HeadNode] \in (0..used) \cup {Null} /\ HeadNode \in 0..used
      /\ HeadNode \in Addr /\ next[HeadNode] \in Addr /\ Null \in Addr
      /\ next[HeadNode] # Null => key[HeadNode] < key[next[HeadNode]]
  BY AddrFacts DEF Inv, HeapOK, SortedLinks, Addr
<1>3. /\ TypeOK' /\ Local(t) /\ pc[t] = "idle"
      /\ PointersOK(t)' /\ FrameOK(t)'
      /\ Expected(t)' = {}
  <2>1. used' = used /\ key' = key /\ HeadNode # Null
    BY <1>1 DEF heap, HeadNode, Null
  <2>2. CASE AddCall(t)
    <3>1. /\ TypeOK' /\ Local(t) /\ pc[t] = "idle"
          /\ pc'[t] = "lock_node" /\ node'[t] = HeadNode /\ prev'[t] = Null
          /\ op'[t] = "add" /\ arg'[t] \in Keys
      BY <1>1, <1>2, <2>2, BeginFrame DEF AddCall, Operations
    <3>2. QED
      BY <1>2, <2>1, <3>1 DEF PointersOK, FrameOK, Expected
  <2>3. CASE RemoveCall(t)
    <3>1. /\ TypeOK' /\ Local(t) /\ pc[t] = "idle"
          /\ pc'[t] = "lock_prev" /\ node'[t] = next[HeadNode] /\ prev'[t] = HeadNode
          /\ op'[t] = "remove" /\ arg'[t] \in Keys
      BY <1>1, <1>2, <2>3, BeginFrame DEF RemoveCall, Operations
    <3>2. QED
      BY <1>2, <2>1, <3>1 DEF PointersOK, FrameOK, Expected
  <2>4. CASE ContainsCall(t)
    <3>1. /\ TypeOK' /\ Local(t) /\ pc[t] = "idle"
          /\ pc'[t] = "lock_node" /\ node'[t] = next[HeadNode] /\ prev'[t] = Null
          /\ op'[t] = "contains" /\ arg'[t] \in Keys
      BY <1>1, <1>2, <2>4, BeginFrame DEF ContainsCall, Operations
    <3>2. QED
      BY <1>2, <2>1, <3>1 DEF PointersOK, FrameOK, Expected
  <2>5. QED
    BY <2>2, <2>3, <2>4 DEF Call
<1>4. Threadwise'
  BY <1>3, ThreadStep
<1>5. HoldsExpected' /\ (~failed => HoldsNoOther')
  <2>1. Expected(t) = {}
    BY <1>3 DEF Expected
  <2>2. \A n \in Node : lock'[n] = IF n \in {} THEN NoThread
                                   ELSE IF n \in {} THEN t ELSE lock[n]
    BY <1>1
  <2>3. QED
    BY <1>3, <2>1, <2>2, LockStep
<1>6. QED
  BY <1>1, <1>3, <1>4, <1>5 DEF Inv

(* DoLock(prev), DoLock(node): the thread takes a mutex it did not hold.   *)
LEMMA LockInv ==
    ASSUME Inv, UNCHANGED failed,
           NEW t \in Threads, LockPrev(t) \/ LockNode(t) PROVE Inv'
<1>1. HeapOK' /\ KeysKept /\ UNCHANGED heap
  BY HeapKept DEF Inv, LockPrev, LockNode
<1>2. PointersOK(t) /\ FrameOK(t) /\ node[t] \in Addr /\ prev[t] \in Addr
  BY DEF Inv, Threadwise, TypeOK, FrameTypeOK
<1>3. used' = used /\ key' = key
  BY <1>1 DEF heap
<1>4. PICK where \in {"lock_node", "scan"}, m \in {node[t], prev[t]} :
          /\ DoLock(t, m) /\ Goto(t, where, node[t], prev[t])
          /\ \/ pc[t] = "lock_prev" /\ where = "lock_node" /\ m = prev[t]
             \/ pc[t] = "lock_node" /\ where = "scan" /\ m = node[t]
  BY DEF LockPrev, LockNode, Proceed
<1>5. /\ lock' \in Locks
      /\ \A n \in Node : lock'[n] = IF n \in {} THEN NoThread
                                    ELSE IF n \in {m} \ {Null} THEN t ELSE lock[n]
      /\ \A n \in {m} \ {Null} : n \in Node => lock[n] = NoThread
  BY <1>4 DEF DoLock, Inv, TypeOK, Locks
<1>6. /\ TypeOK' /\ Local(t)
      /\ pc'[t] = where /\ node'[t] = node[t] /\ prev'[t] = prev[t]
      /\ op'[t] = op[t] /\ arg'[t] = arg[t]
  BY <1>1, <1>2, <1>4, <1>5, GotoFrame
<1>7. PointersOK(t)' /\ FrameOK(t)'
  BY <1>2, <1>3, <1>4, <1>6 DEF PointersOK, FrameOK
<1>8. Threadwise'
  BY <1>6, <1>7, ThreadStep
<1>9. /\ Expected(t)' = Expected(t) \cup ({m} \ {Null})
      /\ Expected(t)' \subseteq Node
  <2>1. (0..used) \subseteq Node
    BY AddrFacts
  <2>2. QED
    BY <1>2, <1>4, <1>6, <2>1 DEF Expected, PointersOK
<1>10. HoldsExpected' /\ (~failed => HoldsNoOther')
  <2>1. PICK S, T : S = {} /\ T = {m} \ {Null}
    OBVIOUS
  <2>2. \A n \in Node : lock'[n] = IF n \in S THEN NoThread
                                   ELSE IF n \in T THEN t ELSE lock[n]
    BY <1>5, <2>1
  <2>3. QED
    BY <1>5, <1>6, <1>9, <2>1, <2>2, LockStep
<1>11. QED
  BY <1>1, <1>6, <1>8, <1>10 DEF Inv

(* DoUnlock(prev); prev = node; node = node->next: the lock on node is the *)
(* one kept, and the next node's key is larger.                            *)
LEMMA AdvanceInv ==
    ASSUME Inv, UNCHANGED failed,
           NEW t \in Threads, pc[t] = "scan", op[t] \in {"add", "remove"},
           node[t] # Null, op[t] = "add" => key[node[t]] < arg[t], Advance(t)
    PROVE  Inv'
<1> DEFINE n == node[t]
<1>1. HeapOK' /\ KeysKept /\ UNCHANGED heap /\ used' = used /\ key' = key
  BY HeapKept DEF Inv, Advance, heap
<1>2. PointersOK(t) /\ FrameOK(t)
  BY DEF Inv, Threadwise
<1>3. /\ n \in 0..used /\ n \in Node /\ n \in Addr
      /\ next[n] \in (0..used) \cup {Null} /\ next[n] \in Addr
      /\ next[n] # Null => key[n] < key[next[n]]
  BY <1>2, AddrFacts DEF PointersOK, Inv, HeapOK, SortedLinks, Addr
<1>4. prev[t] \in Addr /\ prev[t] # n
  BY <1>2, <1>3, AddrFacts DEF PointersOK, Inv, TypeOK, FrameTypeOK
<1>5. /\ lock' \in Locks
      /\ \A m \in Node : lock'[m] = IF m \in {prev[t]} THEN NoThread
                                    ELSE IF m \in {} THEN t ELSE lock[m]
      /\ Goto(t, "lock_node", next[n], n)
  BY DEF Advance, DoUnlock, Inv, TypeOK, Locks
<1>6. /\ TypeOK' /\ Local(t)
      /\ pc'[t] = "lock_node" /\ node'[t] = next[n] /\ prev'[t] = n
      /\ op'[t] = op[t] /\ arg'[t] = arg[t]
  BY <1>1, <1>3, <1>5, GotoFrame
<1>7. PointersOK(t)' /\ FrameOK(t)'
  BY <1>1, <1>2, <1>3, <1>6 DEF PointersOK, FrameOK
<1>8. Threadwise'
  BY <1>6, <1>7, ThreadStep
<1>9. Expected(t) = {n, prev[t]} \ {Null} /\ Expected(t)' = {n}
  BY <1>6 DEF Expected
<1>10. \A m \in {prev[t]} : m \in Node => lock[m] = t
  BY <1>9, AddrFacts DEF Inv, HoldsExpected
<1>11. HoldsExpected' /\ (~failed => HoldsNoOther')
  <2>1. PICK S, T : S = {prev[t]} /\ T = {}
    OBVIOUS
  <2>2. \A m \in Node : lock'[m] = IF m \in S THEN NoThread
                                   ELSE IF m \in T THEN t ELSE lock[m]
    BY <1>5, <2>1
  <2>3. QED
    BY <1>3, <1>4, <1>6, <1>9, <1>10, <2>1, <2>2, LockStep
<1>12. QED
  BY <1>1, <1>6, <1>8, <1>11 DEF Inv

(* DoUnlock(node); DoUnlock(prev); return r. *)
LEMMA LeaveInv ==
    ASSUME Inv, UNCHANGED failed,
           NEW t \in Threads, pc[t] \in {"scan", "unlock"}, NEW r \in {0, 1},
           Leave(t, r)
    PROVE  Inv'
<1>1. HeapOK' /\ KeysKept
  BY HeapKept DEF Inv, Leave
<1>2. /\ lock' \in Locks
      /\ \A m \in Node : lock'[m] = IF m \in {node[t], prev[t]} THEN NoThread
                                    ELSE IF m \in {} THEN t ELSE lock[m]
  BY DEF Leave, DoUnlock, Inv, TypeOK, Locks
<1>3. TypeOK' /\ Local(t) /\ PointersOK(t)' /\ FrameOK(t)' /\ Expected(t)' = {}
  BY <1>1, <1>2, FinishFrame DEF Leave
<1>4. Threadwise'
  BY <1>3, ThreadStep
<1>5. Expected(t) = {node[t], prev[t]} \ {Null}
  BY DEF Expected
<1>6. \A m \in {node[t], prev[t]} : m \in Node => lock[m] = t
  BY <1>5, AddrFacts DEF Inv, HoldsExpected
<1>7. HoldsExpected' /\ (~failed => HoldsNoOther')
  <2>1. PICK S, T : S = {node[t], prev[t]} /\ T = {}
    OBVIOUS
  <2>2. \A m \in Node : lock'[m] = IF m \in S THEN NoThread
                                   ELSE IF m \in T THEN t ELSE lock[m]
    BY <1>2, <2>1
  <2>3. QED
    BY <1>3, <1>5, <1>6, <2>1, <2>2, LockStep
<1>8. QED
  BY <1>1, <1>3, <1>4, <1>7 DEF Inv

(* setos_contains unlocks its node, and then reads its next. *)
LEMMA ContainsUnlockInv ==
    ASSUME Inv, UNCHANGED failed,
           NEW t \in Threads, ContainsUnlock(t) PROVE Inv'
<1>1. HeapOK' /\ KeysKept /\ used' = used /\ key' = key
  BY HeapKept DEF Inv, ContainsUnlock, heap
<1>2. /\ op[t] = "contains" /\ pc[t] = "scan" /\ node[t] # Null
      /\ Goto(t, "next", node[t], prev[t])
  BY DEF ContainsUnlock, At, AtEnd, Proceed
<1>3. PointersOK(t) /\ FrameOK(t) /\ node[t] \in Addr /\ prev[t] \in Addr
  BY DEF Inv, Threadwise, TypeOK, FrameTypeOK
<1>4. PICK S, T : S = {node[t]} /\ T = {}
  OBVIOUS
<1>5. /\ lock' \in Locks
      /\ \A m \in Node : lock'[m] = IF m \in S THEN NoThread
                                    ELSE IF m \in T THEN t ELSE lock[m]
  BY <1>4 DEF ContainsUnlock, DoUnlock, Inv, TypeOK, Locks
<1>6. /\ TypeOK' /\ Local(t)
      /\ pc'[t] = "next" /\ node'[t] = node[t] /\ prev'[t] = prev[t]
      /\ op'[t] = op[t] /\ arg'[t] = arg[t]
  BY <1>1, <1>2, <1>3, <1>5, GotoFrame
<1>7. PointersOK(t)' /\ FrameOK(t)'
  BY <1>1, <1>2, <1>3, <1>6 DEF PointersOK, FrameOK
<1>8. Threadwise'
  BY <1>6, <1>7, ThreadStep
<1>9. Expected(t) = {node[t]} /\ Expected(t)' = {}
  BY <1>2, <1>3, <1>6 DEF Expected, FrameOK
<1>10. \A m \in S : m \in Node => lock[m] = t
  BY <1>4, <1>9 DEF Inv, HoldsExpected
<1>11. HoldsExpected' /\ (~failed => HoldsNoOther')
  BY <1>4, <1>5, <1>6, <1>9, <1>10, LockStep
<1>12. QED
  BY <1>1, <1>6, <1>8, <1>11 DEF Inv

(* setos_contains reads node->next of a node it has already unlocked:      *)
(* whatever it finds there has a larger key, or is NULL.                   *)
LEMMA ContainsNextInv ==
    ASSUME Inv, UNCHANGED failed,
           NEW t \in Threads, ContainsNext(t) PROVE Inv'
<1>1. HeapOK' /\ KeysKept /\ used' = used /\ key' = key /\ lock' = lock
  BY HeapKept DEF Inv, ContainsNext, heap
<1>2. /\ op[t] = "contains" /\ pc[t] = "next"
      /\ Goto(t, "lock_node", next[node[t]], Null)
  BY DEF ContainsNext, At
<1>3. PointersOK(t) /\ FrameOK(t)
  BY DEF Inv, Threadwise
<1>4. /\ next[node[t]] \in (0..used) \cup {Null}
      /\ next[node[t]] \in Addr /\ Null \in Addr
  BY <1>2, <1>3, AddrFacts DEF PointersOK, FrameOK, Addr
<1>5. lock' \in Locks
  BY <1>1 DEF Inv, TypeOK, Locks
<1>6. /\ TypeOK' /\ Local(t)
      /\ pc'[t] = "lock_node" /\ node'[t] = next[node[t]] /\ prev'[t] = Null
      /\ op'[t] = op[t] /\ arg'[t] = arg[t]
  BY <1>1, <1>2, <1>4, <1>5, GotoFrame
<1>7. PointersOK(t)' /\ FrameOK(t)'
  BY <1>1, <1>2, <1>3, <1>4, <1>6 DEF PointersOK, FrameOK
<1>8. Threadwise'
  BY <1>6, <1>7, ThreadStep
<1>9. Expected(t) = {} /\ Expected(t)' = {}
  BY <1>2, <1>6 DEF Expected
<1>10. HoldsExpected' /\ (~failed => HoldsNoOther')
  <2>1. PICK S, T : S = {} /\ T = {}
    OBVIOUS
  <2>2. \A m \in Node : lock'[m] = IF m \in S THEN NoThread
                                   ELSE IF m \in T THEN t ELSE lock[m]
    BY <1>1, <2>1
  <2>3. QED
    BY <1>6, <1>9, <2>1, <2>2, LockStep
<1>11. QED
  BY <1>1, <1>6, <1>8, <1>10 DEF Inv

(* prev->next is written with both mutexes held, and both stay held. *)
LEMMA WriteInv ==
    ASSUME Inv, UNCHANGED failed,
           NEW t \in Threads, AddLink(t) \/ RemoveUnlink(t) PROVE Inv'
<1>1. /\ pc[t] = "scan" /\ op[t] \in {"add", "remove"}
      /\ Goto(t, "unlock", node[t], prev[t]) /\ lock' = lock
  BY DEF AddLink, RemoveUnlink, At, Proceed
<1>2. PointersOK(t) /\ FrameOK(t) /\ node[t] \in Addr /\ prev[t] \in Addr
  BY DEF Inv, Threadwise, TypeOK, FrameTypeOK
<1>3. HeapOK' /\ KeysKept
  <2>1. CASE AddLink(t)
    <3>1. /\ op[t] = "add" /\ ~BeforeKey(t) /\ ~AtKey(t)
          /\ Link(prev[t], node[t], arg[t])
      BY <2>1 DEF AddLink, At
    <3>2. arg[t] \in Keys /\ arg[t] \in Int /\ IntMin <= arg[t]
      BY <1>2, <3>1, CallAssumption DEF FrameOK
    <3>3. prev[t] # Null
      <4>1. SUFFICES ASSUME prev[t] = Null PROVE FALSE
        OBVIOUS
      <4>2. node[t] = HeadNode /\ key[HeadNode] = IntMin
        BY <1>2, <3>1, <4>1 DEF FrameOK, Inv, HeapOK
      <4>3. QED
        BY <3>1, <3>2, <4>2, NodeAssumption DEF BeforeKey, AtKey, HeadNode, Null
    <3>4. /\ prev[t] \in 0..used /\ node[t] \in (0..used) \cup {Null}
          /\ key[prev[t]] < arg[t]
          /\ node[t] # Null => key[node[t]] \in Int
      BY <1>2, <3>1, <3>3, AddrFacts DEF PointersOK, FrameOK
    <3>5. node[t] # Null => arg[t] < key[node[t]]
      BY <3>1, <3>2, <3>4 DEF BeforeKey, AtKey
    <3>6. QED
      BY <3>1, <3>2, <3>4, <3>5, LinkHeap DEF Inv
  <2>2. CASE RemoveUnlink(t)
    <3>1. op[t] = "remove" /\ node[t] # Null /\ Unlink(prev[t], node[t])
      BY <2>2 DEF RemoveUnlink, At, AtKey
    <3>2. prev[t] \in 0..used /\ node[t] \in 0..used /\ key[prev[t]] < key[node[t]]
      BY <1>2, <3>1 DEF PointersOK, FrameOK
    <3>3. QED
      BY <3>1, <3>2, UnlinkHeap DEF Inv
  <2>3. QED
    BY <2>1, <2>2
<1>4. lock' \in Locks
  BY <1>1 DEF Inv, TypeOK, Locks
<1>5. /\ TypeOK' /\ Local(t)
      /\ pc'[t] = "unlock" /\ node'[t] = node[t] /\ prev'[t] = prev[t]
      /\ op'[t] = op[t] /\ arg'[t] = arg[t]
  BY <1>1, <1>2, <1>3, <1>4, GotoFrame
<1>6. used \in Nat /\ used' \in Nat /\ used <= used'
  BY <1>3 DEF KeysKept, Inv, HeapOK, HeapTypeOK, Node
<1>7. PointersOK(t)'
  BY <1>2, <1>3, <1>5, <1>6 DEF PointersOK, KeysKept, Null
<1>8. FrameOK(t)'
  BY <1>1, <1>2, <1>3, <1>5 DEF PointersOK, FrameOK, KeysKept
<1>9. Threadwise'
  BY <1>5, <1>7, <1>8, ThreadStep
<1>10. Expected(t)' = Expected(t) /\ Expected(t)' \subseteq Node
  BY <1>1, <1>2, <1>5, AddrFacts DEF Expected, PointersOK
<1>11. HoldsExpected' /\ (~failed => HoldsNoOther')
  <2>1. PICK S, T : S = {} /\ T = {}
    OBVIOUS
  <2>2. \A m \in Node : lock'[m] = IF m \in S THEN NoThread
                                   ELSE IF m \in T THEN t ELSE lock[m]
    BY <1>1, <2>1
  <2>3. QED
    BY <1>5, <1>10, <2>1, <2>2, LockStep
<1>12. QED
  BY <1>3, <1>5, <1>9, <1>11 DEF Inv

(* The early return of setos_add keeps two mutexes: what a location says a *)
(* thread holds stays true, that it holds no other does not.               *)
LEMMA AddInitFailsInv ==
    ASSUME Inv, NEW t \in Threads, AddInitFails(t) PROVE Inv'
<1>1. HeapOK' /\ KeysKept /\ lock' = lock /\ failed' = TRUE
  BY HeapKept DEF Inv, AddInitFails
<1>2. lock' \in Locks
  BY <1>1 DEF Inv, TypeOK, Locks
<1>3. TypeOK' /\ Local(t) /\ PointersOK(t)' /\ FrameOK(t)' /\ Expected(t)' = {}
  BY <1>1, <1>2, FinishFrame DEF AddInitFails
<1>4. Threadwise'
  BY <1>3, ThreadStep
<1>5. HoldsExpected'
  <2>1. \A u \in Threads \ {t} : Expected(u)' = Expected(u)
    BY <1>3 DEF Local, Expected
  <2>2. QED
    BY <1>1, <1>3, <2>1 DEF Inv, HoldsExpected
<1>6. QED
  BY <1>1, <1>3, <1>4, <1>5 DEF Inv

(* No step of any thread breaks the invariant. *)
LEMMA NextInv == Inv /\ [Next]_vars => Inv'
<1>1. SUFFICES ASSUME Inv, [Next]_vars PROVE Inv'
  OBVIOUS
<1>2. ASSUME NEW t \in Threads, Step(t) PROVE Inv'
  <2>1. CASE LockPrev(t) \/ LockNode(t)
    BY <1>1, <2>1, LockInv DEF LockPrev, LockNode
  <2>2. CASE AddStep(t) \/ RemoveStep(t)
    BY <1>1, <2>2, AdvanceInv DEF AddStep, RemoveStep, Advance, At, BeforeKey, AtEnd
  <2>3. CASE AddPresent(t) \/ RemoveAbsent(t) \/ ContainsAbsent(t)
    BY <1>1, <2>3, LeaveInv DEF AddPresent, RemoveAbsent, ContainsAbsent, Leave, At
  <2>4. CASE ContainsFound(t) \/ Unlock(t)
    BY <1>1, <2>4, LeaveInv DEF ContainsFound, Unlock, Leave, At
  <2>5. CASE AddLink(t) \/ RemoveUnlink(t)
    BY <1>1, <2>5, WriteInv DEF AddLink, RemoveUnlink
  <2>6. CASE AddInitFails(t)
    BY <1>1, <2>6, AddInitFailsInv
  <2>7. CASE ContainsUnlock(t)
    BY <1>1, <2>7, ContainsUnlockInv DEF ContainsUnlock
  <2>8. CASE ContainsNext(t)
    BY <1>1, <2>8, ContainsNextInv DEF ContainsNext
  <2>9. QED
    BY <1>2, <2>1, <2>2, <2>3, <2>4, <2>5, <2>6, <2>7, <2>8 DEF Step
<1>3. CASE UNCHANGED vars
  BY <1>1, <1>3
  DEF Inv, vars, TypeOK, HeapTypeOK, FrameTypeOK, HeapOK, SortedLinks, Threadwise,
      PointersOK, FrameOK, HoldsExpected, HoldsNoOther, Expected
<1>4. QED
  BY <1>1, <1>2, <1>3, CallInv DEF Next, Done

(* The invariant holds of every run of setos_fine.c, whether or not        *)
(* pthread_mutex_init fails: links ascend, and a thread holds at least the *)
(* mutexes its location says it holds.                                     *)
THEOREM Invariance == Spec => []Inv
BY InitInv, NextInv, PTL DEF Spec

-----------------------------------------------------------------------------
(* Every value keeps its type. *)
THEOREM TypeCorrect == Spec => []TypeOK
<1>1. Inv => TypeOK
  BY DEF Inv
<1>2. QED
  BY <1>1, Invariance, PTL

(* Every pointer leads to a larger key, the stale pair of nodes a remove   *)
(* may hold notwithstanding: no walk loops, no node has itself behind it.  *)
THEOREM AlwaysSorted == Spec => []SortedLinks
<1>1. Inv => SortedLinks
  BY DEF Inv, HeapOK
<1>2. QED
  BY <1>1, Invariance, PTL

(* Every DoUnlock() is of a mutex the caller holds. *)
THEOREM AlwaysUnlocksItsOwn == Spec => []UnlocksItsOwn
<1>1. Inv => UnlocksItsOwn
  BY DEF Inv, HoldsExpected, Expected, UnlocksItsOwn
<1>2. QED
  BY <1>1, Invariance, PTL

(* No mutex is leaked, as long as pthread_mutex_init does not fail. *)
THEOREM NoLockLeaked == Spec => []LocksInFrame
<1>1. Inv => LocksInFrame
  <2>1. SUFFICES ASSUME Inv, ~failed, NEW n \in Node, lock[n] # NoThread
                 PROVE  op[lock[n]] # "none" /\ n \in {node[lock[n]], prev[lock[n]]}
    BY DEF LocksInFrame
  <2>2. lock[n] \in Threads
    BY <2>1 DEF Inv, TypeOK
  <2>3. n \in Expected(lock[n]) /\ FrameOK(lock[n])
    BY <2>1, <2>2 DEF Inv, HoldsNoOther, Threadwise
  <2>4. QED
    BY <2>3 DEF Expected, FrameOK
<1>2. QED
  BY <1>1, Invariance, PTL

(* Locks are taken in ascending order of the keys, so that no circle of    *)
(* waiting threads can close, as long as pthread_mutex_init does not fail. *)
THEOREM LocksOrdered == Spec => []LockOrder
<1>1. Inv => LockOrder
  <2>1. SUFFICES ASSUME Inv, ~failed, NEW t \in Threads, Awaited(t) # Null,
                        NEW n \in Node, lock[n] = t
                 PROVE  key[n] < key[Awaited(t)]
    BY DEF LockOrder
  <2>2. n \in Expected(t) /\ PointersOK(t)
    BY <2>1 DEF Inv, HoldsNoOther, Threadwise
  <2>3. pc[t] = "lock_node" /\ n = prev[t] /\ n # Null /\ Awaited(t) = node[t]
    BY <2>1, <2>2 DEF Expected, Awaited
  <2>4. QED
    BY <2>1, <2>2, <2>3 DEF PointersOK
<1>2. QED
  BY <1>1, Invariance, PTL

(* A list node's `next' is written only by the thread that holds the       *)
(* node's mutex.                                                           *)
THEOREM WritesUnderLock == Spec => NextWrittenUnderLock
<1> DEFINE Guarded ==
        \A n \in 0..used : next'[n] # next[n] =>
            lock[n] # NoThread /\ pc'[lock[n]] # pc[lock[n]]
<1>1. Inv /\ [Next]_vars => [Guarded]_vars
  <2>1. SUFFICES ASSUME Inv, Next PROVE Guarded
    OBVIOUS
  <2>2. ASSUME UNCHANGED heap PROVE Guarded
    BY <2>2 DEF heap
  <2>3. ASSUME NEW t \in Threads, AddLink(t) \/ RemoveUnlink(t) PROVE Guarded
    <3>1. /\ pc[t] = "scan" /\ Proceed(t, "unlock")
          /\ Link(prev[t], node[t], arg[t]) \/ Unlink(prev[t], node[t])
      BY <2>3 DEF AddLink, RemoveUnlink, At
    <3>2. pc'[t] # pc[t]
      BY <2>1, <3>1 DEF Proceed, Goto, Inv, TypeOK, FrameTypeOK
    <3>3. SUFFICES ASSUME NEW n \in 0..used, next'[n] # next[n]
                   PROVE  lock[n] # NoThread /\ pc'[lock[n]] # pc[lock[n]]
      OBVIOUS
    <3>4. n # used + 1 /\ n \in Node /\ n # Null
      BY <2>1, AddrFacts DEF Inv, HeapOK, HeapTypeOK, Node
    <3>5. n = prev[t]
      BY <2>1, <3>1, <3>3, <3>4 DEF Link, Unlink, Inv, HeapOK, HeapTypeOK
    <3>6. lock[n] = t
      BY <2>1, <3>1, <3>4, <3>5 DEF Inv, HoldsExpected, Expected
    <3>7. QED
      BY <3>2, <3>6, CallAssumption
  <2>4. ASSUME NEW t \in Threads, Step(t), ~AddLink(t), ~RemoveUnlink(t)
        PROVE  UNCHANGED heap
    BY <2>4 DEF Step, LockPrev, LockNode, AddStep, Advance, AddPresent, Leave, AddInitFails,
        RemoveStep, RemoveAbsent, ContainsFound, ContainsUnlock, ContainsNext,
        ContainsAbsent, Unlock
  <2>5. ASSUME NEW t \in Threads, Call(t) PROVE UNCHANGED heap
    BY <2>5 DEF Call, AddCall, RemoveCall, ContainsCall
  <2>6. Done => UNCHANGED heap
    BY DEF Done, vars, heap
  <2>7. QED
    BY <2>1, <2>2, <2>3, <2>4, <2>5, <2>6 DEF Next
<1>2. QED
  BY <1>1, Invariance, PTL DEF Spec, NextWrittenUnderLock
-----------------------------------------------------------------------------
(* The list stays whole as long as its first node stays.  setos_remove     *)
(* reads head->next before it locks the sentinel: if that node may be      *)
(* unlinked in between, or another be put before it, the pair of nodes the *)
(* call then locks is stale and its write loses a node.  The first key of  *)
(* the initial list must therefore be smaller than every key passed.       *)
FrontStays == InitKeys # <<>> /\ \A k \in Keys : InitKeys[1] < k

FrontOK ==
    /\ next[HeadNode] = 1
    /\ 1 \in linked
    /\ key[1] = InitKeys[1]

(* prev and node are neighbours in the list from the moment prev is locked *)
(* (from the call on, if prev is the sentinel) until the list is changed.  *)
PairOK(t) ==
    /\ op[t] \in {"add", "remove"}
    /\ pc[t] \in {"lock_prev", "lock_node", "scan"}
    /\ prev[t] # Null
    => /\ prev[t] \in linked \cup {HeadNode}
       /\ node[t] = next[prev[t]]
       /\ pc[t] = "lock_prev" => prev[t] = HeadNode

ListInv == Inv /\ ListOK /\ FrontOK /\ \A t \in Threads : PairOK(t)

(* What these proofs ask of a call; setos_fine-ref.c keeps it as well. *)
CallOK(t) ==
    /\ node[t] \in (0..used) \cup {Null}
    /\ prev[t] \in (0..used) \cup {Null}
    /\ op[t] # "none" => arg[t] \in Keys
    /\ op[t] = "add" => /\ prev[t] = Null => node[t] = HeadNode
                        /\ prev[t] # Null => key[prev[t]] < arg[t]
    /\ op[t] = "remove" => prev[t] # Null
    /\ pc[t] = "next" => node[t] # Null
    /\ op[t] \in {"add", "remove"} => \A n \in Expected(t) : lock[n] = t
    /\ PairOK(t)

LEMMA CallsOK == ASSUME ListInv PROVE \A t \in Threads : CallOK(t)
BY DEF ListInv, Inv, Threadwise, PointersOK, FrameOK, HoldsExpected, CallOK

(* The first key is a key, and smaller than the ones passed. *)
LEMMA FirstKey ==
    ASSUME FrontStays
    PROVE  /\ 1 \in 1..Len(InitKeys) /\ InitKeys[1] \in Int /\ IntMin < InitKeys[1]
           /\ \A k \in Keys : k \in Int /\ InitKeys[1] < k /\ IntMin < k
<1>1. Len(InitKeys) \in Nat /\ Len(InitKeys) # 0
  BY NodeAssumption DEF FrontStays
<1>2. 1 \in 1..Len(InitKeys)
  BY <1>1
<1>3. InitKeys[1] \in Int /\ IntMin < InitKeys[1] /\ IntMin \in Int
  BY <1>2, NodeAssumption
<1>4. QED
  BY <1>2, <1>3, CallAssumption DEF FrontStays

LEMMA InitListInv == FrontStays /\ Init => ListInv
<1>1. SUFFICES ASSUME FrontStays, Init PROVE ListInv
  OBVIOUS
<1>2. Inv /\ ListOK
  BY <1>1, InitInv, InitListOK DEF Init
<1>3. FrontOK
  <2>1. 1 \in 1..Len(InitKeys) /\ Len(InitKeys) \in 0..MaxNodes /\ MaxNodes \in Nat
    BY <1>1, FirstKey, NodeAssumption
  <2>2. 0 \in Node /\ 1 \in Node /\ 0 < Len(InitKeys)
    BY <2>1 DEF Node
  <2>3. QED
    BY <1>1, <2>1, <2>2 DEF Init, HeapInit, FrontOK, HeadNode
<1>4. \A t \in Threads : PairOK(t)
  BY <1>1 DEF Init, FrameInit, PairOK
<1>5. QED
  BY <1>2, <1>3, <1>4 DEF ListInv

(* What a step of t leaves to the other threads. *)
Others(t) ==
    \A u \in Threads \ {t} :
        /\ pc'[u] = pc[u] /\ op'[u] = op[u] /\ arg'[u] = arg[u]
        /\ node'[u] = node[u] /\ prev'[u] = prev[u]

LEMMA MoveFrame ==
    ASSUME Inv, NEW t \in Threads, NEW where, NEW n, NEW p, Goto(t, where, n, p)
    PROVE  /\ Others(t)
           /\ pc'[t] = where /\ node'[t] = n /\ prev'[t] = p
           /\ op'[t] = op[t] /\ arg'[t] = arg[t]
BY DEF Inv, TypeOK, FrameTypeOK, Goto, Others

LEMMA ReturnFrame ==
    ASSUME Inv, NEW t \in Threads, NEW r, Finish(t, r)
    PROVE  Others(t) /\ pc'[t] = "idle" /\ op'[t] = "none"
BY DEF Inv, TypeOK, FrameTypeOK, Finish, Others

LEMMA CallFrame ==
    ASSUME Inv, NEW t \in Threads, NEW o, NEW where, NEW n, NEW p,
           Begin(t, o, where, n, p)
    PROVE  /\ Others(t)
           /\ pc'[t] = where /\ node'[t] = n /\ prev'[t] = p
           /\ op'[t] = o /\ arg'[t] \in Keys /\ pc[t] = "idle"
<1>1. PICK k \in Keys : arg' = [arg EXCEPT ![t] = k]
  BY DEF Begin
<1>2. pc[t] = "idle"
  BY DEF Begin, Inv, Threadwise, FrameOK
<1>3. QED
  BY <1>1, <1>2 DEF Begin, Inv, TypeOK, FrameTypeOK, Others

(* A step that does not write to the list: only the pair of t can become   *)
(* wrong.                                                                  *)
LEMMA QuietStep ==
    ASSUME ListInv, Inv', UNCHANGED heap, NEW t \in Threads, Others(t), PairOK(t)'
    PROVE  ListInv' /\ LinkedKeys' = LinkedKeys
<1>1. ListOK' /\ FrontOK' /\ LinkedKeys' = LinkedKeys
  BY DEF ListInv, ListOK, HeapTypeOK, KeysDistinct, Adjacent, FrontOK, LinkedKeys, heap
<1>2. ASSUME NEW u \in Threads \ {t} PROVE PairOK(u)'
  <2>1. PairOK(u)
    BY DEF ListInv
  <2>2. QED
    BY <2>1 DEF Others, PairOK, heap
<1>3. QED
  BY <1>1, <1>2 DEF ListInv

(* The pair a call is about to write to: the key is not the sentinel's     *)
(* neighbour's, so that prev is not the sentinel.                          *)
LEMMA WritePair ==
    ASSUME ListOK, FrontOK, FrontStays,
           NEW t \in Threads, CallOK(t), AddLink(t) \/ RemoveUnlink(t)
    PROVE  /\ prev[t] \in linked /\ node[t] = next[prev[t]]
           /\ arg[t] \in Keys /\ arg[t] \in Int
           /\ lock[prev[t]] = t
           /\ AddLink(t) => /\ key[prev[t]] < arg[t]
                            /\ next[prev[t]] # Null => arg[t] < key[next[prev[t]]]
                            /\ Link(prev[t], next[prev[t]], arg[t])
           /\ RemoveUnlink(t) => /\ next[prev[t]] # Null /\ node[t] \in linked
                                 /\ key[next[prev[t]]] = arg[t]
                                 /\ lock[node[t]] = t
                                 /\ Unlink(prev[t], next[prev[t]])
<1>1. /\ pc[t] = "scan" /\ op[t] \in {"add", "remove"}
      /\ AddLink(t) => /\ op[t] = "add" /\ ~BeforeKey(t) /\ ~AtKey(t)
                       /\ Link(prev[t], node[t], arg[t])
      /\ RemoveUnlink(t) => /\ op[t] = "remove" /\ AtKey(t)
                            /\ Unlink(prev[t], node[t])
  BY DEF AddLink, RemoveUnlink, At
<1>2. PairOK(t) /\ key[HeadNode] = IntMin
  BY DEF CallOK, ListOK, KeysDistinct
<1>3. /\ arg[t] \in Keys /\ arg[t] \in Int
      /\ InitKeys[1] < arg[t] /\ IntMin < arg[t] /\ InitKeys[1] \in Int
  BY <1>1, FirstKey DEF CallOK
<1>4. node[t] # Null => key[node[t]] \in Int
  BY NodeAssumption DEF CallOK, ListOK, HeapTypeOK, Node
<1>5. prev[t] # Null
  <2>1. SUFFICES ASSUME prev[t] = Null PROVE FALSE
    OBVIOUS
  <2>2. op[t] = "add" /\ node[t] = HeadNode
    BY <1>1, <2>1 DEF CallOK
  <2>3. QED
    BY <1>1, <1>2, <1>3, <2>2 DEF BeforeKey, AtKey, HeadNode, Null, RemoveUnlink, At
<1>6. prev[t] \in linked \cup {HeadNode} /\ node[t] = next[prev[t]]
  BY <1>1, <1>2, <1>5 DEF PairOK
<1>7. prev[t] # HeadNode
  <2>1. SUFFICES ASSUME prev[t] = HeadNode PROVE FALSE
    OBVIOUS
  <2>2. node[t] = 1 /\ key[1] = InitKeys[1] /\ node[t] # Null
    BY <1>6, <2>1 DEF FrontOK, Null
  <2>3. QED
    BY <1>1, <1>3, <2>2 DEF BeforeKey, AtKey
<1>8. /\ prev[t] \in linked
      /\ node[t] # Null => node[t] \in linked
  BY <1>6, <1>7 DEF ListOK, Adjacent
<1>9. lock[prev[t]] = t /\ (node[t] # Null => lock[node[t]] = t)
  BY <1>1, <1>5 DEF CallOK, Expected
<1>10. AddLink(t) => /\ key[prev[t]] < arg[t]
                     /\ node[t] # Null => arg[t] < key[node[t]]
  BY <1>1, <1>3, <1>4, <1>5 DEF CallOK, BeforeKey, AtKey
<1>11. RemoveUnlink(t) => node[t] # Null /\ key[node[t]] = arg[t]
  BY <1>1 DEF AtKey
<1>12. QED
  BY <1>1, <1>3, <1>6, <1>8, <1>9, <1>10, <1>11

(* What both writes do to the list. *)
LEMMA WriteList ==
    ASSUME ListOK, FrontOK, FrontStays,
           NEW t \in Threads, CallOK(t), AddLink(t) \/ RemoveUnlink(t)
    PROVE  /\ ListOK' /\ FrontOK'
           /\ AddLink(t) => /\ arg[t] \notin LinkedKeys
                            /\ LinkedKeys' = LinkedKeys \cup {arg[t]}
           /\ RemoveUnlink(t) => /\ arg[t] \in LinkedKeys
                                 /\ LinkedKeys' = LinkedKeys \ {arg[t]}
<1> DEFINE p == prev[t]
<1>1. /\ p \in linked /\ arg[t] \in Keys /\ arg[t] \in Int
      /\ InitKeys[1] < arg[t] /\ InitKeys[1] \in Int
  BY WritePair, FirstKey
<1>2. /\ p # HeadNode /\ HeadNode \in Node /\ 1 \in Node /\ used + 1 # 1 /\ used + 1 # HeadNode
      /\ linked \subseteq Node /\ 1 \in linked
  BY <1>1, ListTypes DEF FrontOK, ListOK, HeapTypeOK, Node, HeadNode
<1>3. CASE AddLink(t)
  <2>1. /\ key[p] < arg[t]
        /\ next[p] # Null => arg[t] < key[next[p]]
        /\ Link(p, next[p], arg[t])
    BY <1>3, WritePair
  <2>2. ListOK' /\ LinkedKeys' = LinkedKeys \cup {arg[t]}
    BY <1>1, <2>1, LinkListOK
  <2>3. arg[t] \notin LinkedKeys
    BY <1>1, <2>1, Between
  <2>4. FrontOK'
    BY <1>1, <1>2, <2>1 DEF FrontOK, Link, ListOK, HeapTypeOK
  <2>5. ~RemoveUnlink(t)
    BY <1>3 DEF AddLink, RemoveUnlink, At
  <2>6. QED
    BY <2>2, <2>3, <2>4, <2>5
<1>4. CASE RemoveUnlink(t)
  <2>1. /\ next[p] # Null /\ next[p] \in linked /\ key[next[p]] = arg[t]
        /\ Unlink(p, next[p])
    BY <1>4, WritePair
  <2>2. ListOK' /\ LinkedKeys' = LinkedKeys \ {arg[t]}
    BY <1>1, <2>1, UnlinkListOK
  <2>3. arg[t] \in LinkedKeys
    BY <2>1 DEF LinkedKeys
  <2>4. next[p] # 1
    BY <1>1, <2>1 DEF FrontOK
  <2>5. FrontOK'
    BY <1>1, <1>2, <2>1, <2>4 DEF FrontOK, Unlink, ListOK, HeapTypeOK
  <2>6. ~AddLink(t)
    BY <1>4 DEF AddLink, RemoveUnlink, At
  <2>7. QED
    BY <2>2, <2>3, <2>5, <2>6
<1>5. QED
  BY <1>3, <1>4

(* Another thread's pair survives: it holds the mutex of its prev, or its  *)
(* prev is the sentinel, which nobody writes to.                           *)
LEMMA PairSurvives ==
    ASSUME ListOK, FrontOK, FrontStays,
           NEW t \in Threads, CallOK(t), AddLink(t) \/ RemoveUnlink(t),
           Others(t), NEW u \in Threads \ {t}, CallOK(u)
    PROVE  PairOK(u)'
<1>1. SUFFICES ASSUME op[u] \in {"add", "remove"},
                      pc[u] \in {"lock_prev", "lock_node", "scan"}, prev[u] # Null
               PROVE  /\ prev[u] \in linked' \cup {HeadNode}
                      /\ node[u] = next'[prev[u]]
                      /\ pc[u] = "lock_prev" => prev[u] = HeadNode
  BY DEF Others, PairOK
<1>2. /\ prev[u] \in linked \cup {HeadNode} /\ node[u] = next[prev[u]]
      /\ pc[u] = "lock_prev" => prev[u] = HeadNode
  BY <1>1 DEF CallOK, PairOK
<1>3. prev[u] # HeadNode => lock[prev[u]] = u
  BY <1>1, <1>2 DEF CallOK, Expected
<1>4. /\ prev[t] \in linked /\ lock[prev[t]] = t
      /\ RemoveUnlink(t) => node[t] \in linked /\ lock[node[t]] = t
  BY WritePair
<1>5. HeadNode \notin linked
  BY ListTypes
<1>6. prev[u] # prev[t] /\ (RemoveUnlink(t) => prev[u] # node[t])
  BY <1>3, <1>4, <1>5
<1>7. prev[u] \in Node /\ prev[u] # used + 1 /\ prev[t] \in Node
  <2>1. /\ used \in Nat /\ 0..used \subseteq Node /\ linked \subseteq 0..used
        /\ HeadNode \in 0..used /\ used + 1 \notin 0..used
    BY NodeAssumption DEF ListOK, HeapTypeOK, Node, HeadNode
  <2>2. linked \cup {HeadNode} \subseteq 0..used
    BY <2>1
  <2>3. QED
    BY <1>2, <1>4, <2>1, <2>2
<1>8. CASE AddLink(t)
  BY <1>2, <1>6, <1>7, <1>8 DEF AddLink, Link, ListOK, HeapTypeOK
<1>9. CASE RemoveUnlink(t)
  BY <1>2, <1>6, <1>7, <1>9 DEF RemoveUnlink, Unlink, ListOK, HeapTypeOK
<1>10. QED
  BY <1>8, <1>9

LEMMA WriteListInv ==
    ASSUME ListInv, Inv', FrontStays, NEW t \in Threads, AddLink(t) \/ RemoveUnlink(t)
    PROVE  ListInv' /\ Others(t)
<1>1. Goto(t, "unlock", node[t], prev[t])
  BY DEF AddLink, RemoveUnlink, Proceed
<1>2. Others(t) /\ pc'[t] = "unlock"
  BY <1>1, MoveFrame DEF ListInv
<1>3. ListOK /\ FrontOK /\ \A u \in Threads : CallOK(u)
  BY CallsOK DEF ListInv
<1>4. ListOK' /\ FrontOK'
  BY <1>3, WriteList
<1>5. ASSUME NEW u \in Threads \ {t} PROVE PairOK(u)'
  BY <1>2, <1>3, PairSurvives
<1>6. PairOK(t)'
  BY <1>2 DEF PairOK
<1>7. QED
  BY <1>2, <1>4, <1>5, <1>6 DEF ListInv

(* The kinds of the steps that do not write to the list. *)
QuietMove(t) ==
    /\ UNCHANGED heap
    /\ pc[t] # "unlock"
    /\ \/ \E where \in {"lock_node", "scan"} :
              /\ pc[t] \in {"lock_prev", "lock_node"}
              /\ Goto(t, where, node[t], prev[t])
       \/ /\ pc[t] = "scan" /\ node[t] # Null
          /\ \/ op[t] = "add" /\ key[node[t]] < arg[t]
             \/ op[t] = "remove" /\ key[node[t]] # arg[t]
          /\ Goto(t, "lock_node", next[node[t]], node[t])
       \/ /\ op[t] = "contains" /\ pc[t] = "scan"
          /\ node[t] # Null /\ key[node[t]] # arg[t]
          /\ Goto(t, "next", node[t], prev[t])
       \/ /\ op[t] = "contains" /\ pc[t] = "next"
          /\ Goto(t, "lock_node", next[node[t]], Null)

QuietReturn(t) ==
    /\ UNCHANGED heap
    /\ \E r \in {0, 1} :
           /\ Finish(t, r)
           /\ \/ pc[t] = "unlock" /\ r = 1
              \/ At(t, "add", "scan") /\ r = 0 /\ AtKey(t)
              \/ At(t, "remove", "scan") /\ r = 0 /\ AtEnd(t)
              \/ At(t, "contains", "scan") /\ r = 1 /\ AtKey(t)
              \/ At(t, "contains", "scan") /\ r = 0 /\ AtEnd(t)
              \/ AddInitFails(t)

LEMMA StepKinds ==
    ASSUME NEW t \in Threads, Step(t)
    PROVE  QuietMove(t) \/ QuietReturn(t) \/ AddLink(t) \/ RemoveUnlink(t)
<1>1. CASE LockPrev(t) \/ LockNode(t)
  BY <1>1 DEF LockPrev, LockNode, Proceed, QuietMove
<1>2. CASE AddStep(t) \/ RemoveStep(t)
  BY <1>2 DEF AddStep, RemoveStep, Advance, At, BeforeKey, AtEnd, AtKey, QuietMove
<1>3. CASE ContainsUnlock(t) \/ ContainsNext(t)
  BY <1>3 DEF ContainsUnlock, ContainsNext, Proceed, At, AtEnd, AtKey, QuietMove
<1>4. CASE AddPresent(t) \/ RemoveAbsent(t) \/ ContainsFound(t) \/ ContainsAbsent(t)
  BY <1>4 DEF AddPresent, RemoveAbsent, ContainsFound, ContainsAbsent, Leave, QuietReturn
<1>5. CASE Unlock(t)
  BY <1>5 DEF Unlock, Leave, QuietReturn
<1>6. CASE AddInitFails(t)
  BY <1>6 DEF AddInitFails, QuietReturn
<1>7. QED
  BY <1>1, <1>2, <1>3, <1>4, <1>5, <1>6 DEF Step

(* The pair after a step within the walk. *)
LEMMA QuietMoveInv ==
    ASSUME ListInv, Inv', NEW t \in Threads, QuietMove(t)
    PROVE  /\ ListInv' /\ LinkedKeys' = LinkedKeys
           /\ Others(t) /\ op'[t] = op[t] /\ arg'[t] = arg[t]
<1>1. /\ PairOK(t) /\ FrameOK(t) /\ UNCHANGED heap
      /\ HeadNode # Null /\ Inv
  BY DEF ListInv, Inv, Threadwise, QuietMove, HeadNode, Null
<1>2. next' = next /\ linked' = linked
  BY <1>1 DEF heap
<1>3. PairOK(t)' /\ Others(t) /\ op'[t] = op[t] /\ arg'[t] = arg[t]
  <2>1. CASE \E where \in {"lock_node", "scan"} :
                 /\ pc[t] \in {"lock_prev", "lock_node"}
                 /\ Goto(t, where, node[t], prev[t])
    <3>1. PICK where \in {"lock_node", "scan"} : Goto(t, where, node[t], prev[t])
      BY <2>1
    <3>2. /\ Others(t) /\ op'[t] = op[t] /\ arg'[t] = arg[t]
          /\ pc'[t] = where /\ node'[t] = node[t] /\ prev'[t] = prev[t]
      BY <1>1, <3>1, MoveFrame
    <3>3. QED
      BY <1>1, <1>2, <2>1, <3>2 DEF PairOK
  <2>2. CASE /\ pc[t] = "scan" /\ node[t] # Null /\ op[t] \in {"add", "remove"}
             /\ Goto(t, "lock_node", next[node[t]], node[t])
    <3>1. node[t] \in linked \cup {HeadNode}
      BY <1>1, <2>2 DEF PairOK, FrameOK, ListInv, ListOK, Adjacent
    <3>2. /\ Others(t) /\ op'[t] = op[t] /\ arg'[t] = arg[t]
          /\ pc'[t] = "lock_node" /\ node'[t] = next[node[t]] /\ prev'[t] = node[t]
      BY <1>1, <2>2, MoveFrame
    <3>3. QED
      BY <1>2, <3>1, <3>2 DEF PairOK
  <2>3. CASE op[t] = "contains" /\ \E where, n, p : Goto(t, where, n, p)
    <3>1. PICK where, n, p : Goto(t, where, n, p)
      BY <2>3
    <3>2. Others(t) /\ op'[t] = op[t] /\ arg'[t] = arg[t]
      BY <1>1, <3>1, MoveFrame
    <3>3. QED
      BY <2>3, <3>2 DEF PairOK
  <2>4. QED
    BY <2>1, <2>2, <2>3 DEF QuietMove
<1>4. QED
  BY <1>1, <1>3, QuietStep

(* A return leaves no pair behind, and a call starts with none, or with    *)
(* the sentinel and its neighbour.                                         *)
LEMMA QuietReturnInv ==
    ASSUME ListInv, Inv', NEW t \in Threads, QuietReturn(t)
    PROVE  ListInv' /\ LinkedKeys' = LinkedKeys /\ Others(t) /\ op'[t] = "none"
<1>1. PICK r \in {0, 1} : Finish(t, r) /\ UNCHANGED heap
  BY DEF QuietReturn
<1>2. Others(t) /\ op'[t] = "none"
  BY <1>1, ReturnFrame DEF ListInv
<1>3. PairOK(t)'
  BY <1>2 DEF PairOK
<1>4. QED
  BY <1>1, <1>2, <1>3, QuietStep

LEMMA CallListInv ==
    ASSUME ListInv, Inv', NEW t \in Threads, Call(t)
    PROVE  /\ ListInv' /\ LinkedKeys' = LinkedKeys /\ UNCHANGED heap
           /\ Others(t) /\ arg'[t] \in Keys
           /\ \/ op'[t] = "add"
              \/ op'[t] = "remove" /\ prev'[t] = HeadNode
              \/ op'[t] = "contains" /\ pc'[t] = "lock_node" /\ node'[t] = next[HeadNode]
<1>1. Inv /\ UNCHANGED heap
  BY DEF ListInv, Call, AddCall, RemoveCall, ContainsCall
<1>2. next' = next
  BY <1>1 DEF heap
<1>3. /\ PairOK(t)' /\ Others(t) /\ arg'[t] \in Keys
      /\ \/ op'[t] = "add"
         \/ op'[t] = "remove" /\ prev'[t] = HeadNode
         \/ op'[t] = "contains" /\ pc'[t] = "lock_node" /\ node'[t] = next[HeadNode]
  <2>1. CASE AddCall(t)
    <3>1. /\ Others(t) /\ arg'[t] \in Keys /\ op'[t] = "add" /\ prev'[t] = Null
      BY <1>1, <2>1, CallFrame DEF AddCall
    <3>2. QED
      BY <3>1 DEF PairOK
  <2>2. CASE RemoveCall(t)
    <3>1. /\ Others(t) /\ arg'[t] \in Keys /\ op'[t] = "remove"
          /\ prev'[t] = HeadNode /\ node'[t] = next[HeadNode]
      BY <1>1, <2>2, CallFrame DEF RemoveCall
    <3>2. QED
      BY <1>2, <3>1 DEF PairOK
  <2>3. CASE ContainsCall(t)
    <3>1. /\ Others(t) /\ arg'[t] \in Keys /\ op'[t] = "contains"
          /\ pc'[t] = "lock_node" /\ node'[t] = next[HeadNode]
      BY <1>1, <2>3, CallFrame DEF ContainsCall
    <3>2. QED
      BY <3>1 DEF PairOK
  <2>4. QED
    BY <2>1, <2>2, <2>3 DEF Call
<1>4. QED
  BY <1>1, <1>3, QuietStep

LEMMA ListNextInv == FrontStays /\ ListInv /\ [Next]_vars => ListInv'
<1>1. SUFFICES ASSUME FrontStays, ListInv, [Next]_vars PROVE ListInv'
  OBVIOUS
<1>2. Inv'
  BY <1>1, NextInv DEF ListInv
<1>3. ASSUME NEW t \in Threads, Step(t) PROVE ListInv'
  BY <1>1, <1>2, <1>3, StepKinds, QuietMoveInv, QuietReturnInv, WriteListInv
<1>4. ASSUME NEW t \in Threads, Call(t) PROVE ListInv'
  BY <1>1, <1>2, <1>4, CallListInv
<1>5. CASE UNCHANGED vars
  BY <1>1, <1>2, <1>5
  DEF vars, ListInv, ListOK, HeapTypeOK, KeysDistinct, Adjacent, FrontOK, PairOK
<1>6. QED
  BY <1>1, <1>3, <1>4, <1>5 DEF Next, Done

LEMMA ListInvariance == FrontStays => (Spec => []ListInv)
<1>1. SUFFICES ASSUME FrontStays PROVE Spec => []ListInv
  OBVIOUS
<1>2. Init => ListInv
  BY <1>1, InitListInv
<1>3. ListInv /\ [Next]_vars => ListInv'
  BY <1>1, ListNextInv
<1>4. QED
  BY <1>2, <1>3, PTL DEF Spec

(* No node is lost and none comes back, as long as the first node of the   *)
(* list is the smallest there will ever be: then setos_remove may read     *)
(* head->next before it locks the sentinel.                                *)
THEOREM NoNodeLost == FrontStays => (Spec => []NoLostNode)
<1>1. SUFFICES ASSUME FrontStays PROVE Spec => []NoLostNode
  OBVIOUS
<1>2. ListInv => NoLostNode
  BY NothingLost DEF ListInv
<1>3. Spec => []ListInv
  BY <1>1, ListInvariance
<1>4. QED
  BY <1>2, <1>3, PTL
-----------------------------------------------------------------------------
(* Linearizability, as long as the first node stays and no mutex fails to  *)
(* initialise (setos_add would return 1 without having added its key).     *)

(* A remove walks to the end of the list past larger keys: once it is past *)
(* the place of its key, it has seen it absent.  A contains reads `next'   *)
(* with no lock held, and may be on nodes that are out of the list.        *)
WalkOK(t) ==
    /\ op[t] = "remove" /\ pc[t] # "unlock" => 0 \in seen[t] \/ key[prev[t]] < arg[t]
    /\ op[t] = "contains" =>
           /\ Way(node[t], arg[t], seen[t])
           /\ pc[t] = "next" => key[node[t]] # arg[t]

LinInv == ListInv /\ HistoryOK /\ \A t \in Threads : WalkOK(t)

Locations == {"idle", "lock_prev", "lock_node", "scan", "next", "unlock"}

(* The frames have the types the lemmas about the history ask for. *)
LEMMA Frame ==
    ASSUME LinInv
    PROVE  /\ Inv /\ ListOK /\ HeapTypeOK /\ FrameTypeOK(Locations) /\ HistoryOK
           /\ \A t \in Threads : PointersOK(t) /\ FrameOK(t) /\ PairOK(t) /\ WalkOK(t)
BY DEF LinInv, ListInv, Inv, TypeOK, Locations, ListOK, Threadwise

LEMMA InitLin == FrontStays /\ LinInit => LinInv /\ Abs!Init
<1>1. SUFFICES ASSUME FrontStays, LinInit PROVE LinInv /\ Abs!Init
  OBVIOUS
<1>2. ListInv
  BY <1>1, InitListInv DEF LinInit
<1>3. HistoryOK /\ Abs!Init
  BY <1>1, InitHistory DEF LinInit, Init
<1>4. \A t \in Threads : WalkOK(t)
  BY <1>1 DEF LinInit, Init, FrameInit, WalkOK
<1>5. QED
  BY <1>2, <1>3, <1>4 DEF LinInv

(* What the lemmas on the walks ask of the state, whichever the variant. *)
SharedOK == ListOK /\ FrontOK /\ HistoryOK

LEMMA LinShared == ASSUME LinInv PROVE SharedOK /\ \A t \in Threads : CallOK(t) /\ WalkOK(t)
BY CallsOK DEF LinInv, ListInv, SharedOK

(* The key of a call, and the answer it has seen last. *)
LEMMA ArgFacts ==
    ASSUME HistoryOK, FrontStays, NEW t \in Threads, CallOK(t), op[t] # "none"
    PROVE  /\ arg[t] \in Int /\ IntMin < arg[t] /\ arg[t] # IntMin
           /\ Answer(arg[t], LinkedKeys) \in seen[t]
<1>1. arg[t] \in Int /\ IntMin < arg[t]
  BY FirstKey DEF CallOK
<1>2. QED
  BY <1>1, NodeAssumption DEF HistoryOK

(* No step takes another thread off its walk. *)
LEMMA OtherWalks ==
    ASSUME SharedOK, FrontStays, HistoryOK', Observe,
           NEW t \in Threads, CallOK(t), Others(t),
           UNCHANGED heap \/ AddLink(t) \/ RemoveUnlink(t),
           NEW u \in Threads \ {t}, CallOK(u), WalkOK(u)
    PROVE  WalkOK(u)'
<1>1. /\ pc'[u] = pc[u] /\ op'[u] = op[u] /\ arg'[u] = arg[u]
      /\ node'[u] = node[u] /\ prev'[u] = prev[u]
  BY DEF Others
<1>2. seen[u] \subseteq seen'[u]
  BY <1>1, HistoryNext DEF SharedOK
<1>3. \A n \in 0..used : key'[n] = key[n]
  <2>1. used \in Nat /\ key \in [Node -> Int] /\ 0..used \subseteq Node
    BY NodeAssumption DEF SharedOK, ListOK, HeapTypeOK, Node
  <2>2. CASE UNCHANGED heap
    BY <2>2 DEF heap
  <2>3. CASE AddLink(t)
    BY <2>1, <2>3 DEF AddLink, Link
  <2>4. CASE RemoveUnlink(t)
    BY <2>4 DEF RemoveUnlink, Unlink
  <2>5. QED
    BY <2>2, <2>3, <2>4
<1>4. ASSUME op[u] = "remove", pc[u] # "unlock"
      PROVE  0 \in seen'[u] \/ key'[prev[u]] < arg[u]
  <2>1. prev[u] \in 0..used
    BY <1>4 DEF CallOK
  <2>2. QED
    BY <1>2, <1>3, <1>4, <2>1 DEF WalkOK
<1>5. ASSUME op[u] = "contains"
      PROVE  Way(node[u], arg[u], seen[u])' /\ (pc[u] = "next" => key'[node[u]] # arg[u])
  <2>1. PICK k, n, s, ss : k = arg[u] /\ n = node[u] /\ s = seen[u] /\ ss = seen'[u]
    OBVIOUS
  <2>2. /\ k \in Int /\ s \subseteq ss /\ Way(n, k, s)
        /\ Answer(k, LinkedKeys) \in s
    BY <1>2, <1>5, <2>1, ArgFacts DEF WalkOK, SharedOK
  <2>3. Answer(k, LinkedKeys') \in ss
    <3>1. Answer(arg'[u], LinkedKeys') \in seen'[u]
      BY <1>1, <1>5 DEF HistoryOK
    <3>2. QED
      BY <1>1, <2>1, <3>1
  <2>4. (0 \notin ss => WillMeet(n, k)') /\ (1 \notin ss => WillMiss(n, k)')
    <3>1. CASE UNCHANGED heap
      BY <2>2, <3>1, WayStays
    <3>2. CASE AddLink(t) \/ RemoveUnlink(t)
      <4>1. PICK p, x : p = prev[t] /\ x = arg[t]
        OBVIOUS
      <4>2. /\ p \in linked \cup {HeadNode} /\ x \in Int
            /\ \/ /\ key[p] < x /\ (next[p] # Null => x < key[next[p]])
                  /\ Link(p, next[p], x)
               \/ next[p] # Null /\ Unlink(p, next[p])
        BY <3>2, <4>1, WritePair DEF SharedOK
      <4>3. ListOK
        BY DEF SharedOK
      <4>4. QED
        BY <2>2, <2>3, <4>2, <4>3, WayKept
    <3>3. QED
      BY <3>1, <3>2
  <2>5. Way(node[u], arg[u], seen[u])'
    BY <1>1, <2>1, <2>4, WayNext
  <2>6. pc[u] = "next" => key'[node[u]] # arg[u]
    BY <1>3, <1>5 DEF WalkOK, CallOK
  <2>7. QED
    BY <2>5, <2>6
<1>6. QED
  BY <1>1, <1>4, <1>5 DEF WalkOK

(* The walk of a remove stands still, or goes on to the next node. *)
LEMMA RemoveWalk ==
    ASSUME SharedOK, FrontStays, Observe, UNCHANGED heap,
           NEW t \in Threads, CallOK(t), WalkOK(t), op[t] = "remove", pc[t] # "unlock",
           op'[t] = op[t], arg'[t] = arg[t],
           \/ prev'[t] = prev[t]
           \/ pc[t] = "scan" /\ node[t] # Null /\ key[node[t]] # arg[t] /\ prev'[t] = node[t]
    PROVE  WalkOK(t)'
<1>1. seen[t] \subseteq seen'[t] /\ key' = key
  BY HistoryNext DEF SharedOK, heap
<1>2. 0 \in seen[t] \/ key[prev[t]] < arg[t]
  BY DEF WalkOK
<1>3. 0 \in seen'[t] \/ key[prev'[t]] < arg[t]
  <2>1. CASE prev'[t] = prev[t]
    BY <1>1, <1>2, <2>1
  <2>2. CASE 0 \in seen[t]
    BY <1>1, <2>2
  <2>3. CASE /\ 0 \notin seen[t]
             /\ pc[t] = "scan" /\ node[t] # Null /\ key[node[t]] # arg[t]
             /\ prev'[t] = node[t]
    <3>1. /\ prev[t] \in linked \cup {HeadNode} /\ node[t] = next[prev[t]]
          /\ arg[t] \in Int
      BY <2>3, ArgFacts DEF CallOK, PairOK, SharedOK
    <3>2. key[node[t]] \in Int
      BY <2>3, NodeAssumption DEF CallOK, SharedOK, ListOK, HeapTypeOK, Node
    <3>3. ASSUME arg[t] < key[node[t]] PROVE FALSE
      <4>1. key[prev[t]] < arg[t] /\ arg[t] < key[next[prev[t]]]
        BY <1>2, <2>3, <3>1, <3>3
      <4>2. arg[t] \notin LinkedKeys
        BY <3>1, <4>1, Between DEF SharedOK
      <4>3. QED
        BY <2>3, <4>2, SeenNow DEF SharedOK
    <3>4. QED
      BY <2>3, <3>1, <3>2, <3>3
  <2>4. QED
    BY <2>1, <2>2, <2>3
<1>4. QED
  BY <1>1, <1>3 DEF WalkOK

(* So does that of a contains. *)
LEMMA ContainsWalk ==
    ASSUME SharedOK, FrontStays, Observe, UNCHANGED heap,
           NEW t \in Threads, CallOK(t), WalkOK(t), op[t] = "contains",
           op'[t] = op[t], arg'[t] = arg[t],
           \/ node'[t] = node[t] /\ (pc'[t] = "next" => key[node[t]] # arg[t])
           \/ pc[t] = "next" /\ node'[t] = next[node[t]] /\ pc'[t] # "next"
    PROVE  WalkOK(t)'
<1>1. PICK k, n, s, ss : k = arg[t] /\ n = node[t] /\ s = seen[t] /\ ss = seen'[t]
  OBVIOUS
<1>2. k \in Int /\ s \subseteq ss /\ Way(n, k, s) /\ key' = key
  BY <1>1, ArgFacts, HistoryNext DEF WalkOK, SharedOK, heap
<1>3. PICK m : node'[t] = m /\ Way(m, k, s)
  <2>1. CASE node'[t] = node[t]
    BY <1>1, <1>2, <2>1
  <2>2. CASE pc[t] = "next" /\ node'[t] = next[node[t]]
    <3>1. n # Null /\ key[n] # k
      BY <1>1, <2>2 DEF WalkOK, CallOK
    <3>2. HeapTypeOK
      BY DEF SharedOK, ListOK
    <3>3. Way(next[n], k, s)
      BY <1>2, <3>1, <3>2, WayGoesOn
    <3>4. QED
      BY <1>1, <2>2, <3>3
  <2>3. QED
    BY <2>1, <2>2
<1>4. (0 \notin ss => WillMeet(m, k)') /\ (1 \notin ss => WillMiss(m, k)')
  BY <1>2, <1>3, WayStays
<1>5. Way(node[t], arg[t], seen[t])'
  BY <1>1, <1>3, <1>4, WayNext
<1>6. pc'[t] = "next" => key'[node'[t]] # arg'[t]
  BY <1>2
<1>7. QED
  BY <1>5, <1>6 DEF WalkOK

(* A walk starts at the front of the list. *)
LEMMA CallWalk ==
    ASSUME ListOK, FrontStays, HistoryOK', NEW t \in Threads,
           UNCHANGED heap, LinkedKeys' = LinkedKeys, arg'[t] \in Keys,
           \/ op'[t] = "add"
           \/ op'[t] = "remove" /\ prev'[t] = HeadNode
           \/ op'[t] = "contains" /\ pc'[t] = "lock_node" /\ node'[t] = next[HeadNode]
    PROVE  WalkOK(t)'
<1>1. key' = key /\ key[HeadNode] = IntMin
  BY DEF ListOK, KeysDistinct, heap
<1>2. arg'[t] \in Int /\ IntMin < arg'[t]
  BY FirstKey
<1>3. CASE op'[t] = "add"
  BY <1>3 DEF WalkOK
<1>4. CASE op'[t] = "remove" /\ prev'[t] = HeadNode
  BY <1>1, <1>2, <1>4 DEF WalkOK
<1>5. CASE op'[t] = "contains" /\ pc'[t] = "lock_node" /\ node'[t] = next[HeadNode]
  <2>1. PICK k, n, s : k = arg'[t] /\ n = next[HeadNode] /\ s = seen'[t]
    OBVIOUS
  <2>2. k \in Int /\ k # IntMin /\ s \subseteq s
    BY <1>2, <2>1, NodeAssumption
  <2>3. Answer(k, LinkedKeys) \in s
    BY <1>5, <2>1 DEF HistoryOK, Answer
  <2>4. Way(n, k, s)
    BY <1>1, <2>1, <2>2, <2>3, WayStarts
  <2>5. (0 \notin s => WillMeet(n, k)') /\ (1 \notin s => WillMiss(n, k)')
    BY <2>2, <2>4, WayStays
  <2>6. Way(node[t], arg[t], seen[t])'
    BY <1>5, <2>1, <2>5, WayNext
  <2>7. QED
    BY <1>5, <2>6 DEF WalkOK
<1>6. QED
  BY <1>3, <1>4, <1>5

(* What a walk that stops has seen of its key. *)
LEMMA WalkStops ==
    ASSUME SharedOK, FrontStays, NEW t \in Threads, CallOK(t), WalkOK(t)
    PROVE  /\ At(t, "add", "scan") /\ AtKey(t) => 1 \in seen[t]
           /\ At(t, "remove", "scan") /\ AtEnd(t) => 0 \in seen[t]
           /\ op[t] = "contains" /\ AtKey(t) => 1 \in seen[t]
           /\ op[t] = "contains" /\ AtEnd(t) => 0 \in seen[t]
<1>1. ListOK /\ HeapTypeOK /\ HistoryOK /\ PairOK(t)
  BY DEF SharedOK, ListOK, CallOK
<1>2. ASSUME At(t, "add", "scan"), AtKey(t) PROVE 1 \in seen[t]
  <2>1. /\ arg[t] # IntMin /\ key[HeadNode] = IntMin /\ op[t] = "add" /\ pc[t] = "scan"
        /\ node[t] # Null /\ key[node[t]] = arg[t]
    BY <1>1, <1>2, ArgFacts DEF At, AtKey, ListOK, KeysDistinct
  <2>2. prev[t] # Null
    BY <2>1 DEF CallOK
  <2>3. node[t] \in linked
    BY <1>1, <2>1, <2>2 DEF PairOK, ListOK, Adjacent
  <2>4. arg[t] \in LinkedKeys
    BY <2>1, <2>3 DEF LinkedKeys
  <2>5. QED
    BY <1>1, <2>1, <2>4, SeenNow
<1>3. ASSUME At(t, "remove", "scan"), AtEnd(t) PROVE 0 \in seen[t]
  <2>1. op[t] = "remove" /\ pc[t] = "scan" /\ node[t] = Null
    BY <1>3 DEF At, AtEnd
  <2>2. SUFFICES ASSUME key[prev[t]] < arg[t] PROVE 0 \in seen[t]
    BY <2>1 DEF WalkOK
  <2>3. /\ prev[t] \in linked \cup {HeadNode} /\ next[prev[t]] = Null
        /\ arg[t] \in Int
    BY <1>1, <2>1, ArgFacts DEF PairOK, CallOK
  <2>4. arg[t] \notin LinkedKeys
    BY <1>1, <2>2, <2>3, Between
  <2>5. QED
    BY <1>1, <2>1, <2>4, SeenNow
<1>4. ASSUME op[t] = "contains"
      PROVE  (AtKey(t) => 1 \in seen[t]) /\ (AtEnd(t) => 0 \in seen[t])
  <2>1. arg[t] \in Int /\ Way(node[t], arg[t], seen[t])
    BY <1>1, <1>4, ArgFacts DEF WalkOK
  <2>2. /\ node[t] = Null => 0 \in seen[t]
        /\ node[t] # Null /\ key[node[t]] = arg[t] => 1 \in seen[t]
    BY <1>1, <2>1, WayEnds
  <2>3. QED
    BY <2>2 DEF AtKey, AtEnd
<1>5. QED
  BY <1>2, <1>3, <1>4

(* A walk goes on. *)
LEMMA OwnWalk ==
    ASSUME LinInv, FrontStays, Observe, NEW t \in Threads, QuietMove(t)
    PROVE  WalkOK(t)'
<1>1. /\ Inv /\ SharedOK /\ CallOK(t) /\ WalkOK(t) /\ FrameOK(t)
      /\ UNCHANGED heap /\ pc[t] # "unlock"
  BY Frame, LinShared DEF QuietMove
<1>2. PICK where \in {"lock_node", "scan", "next"} :
          \/ /\ Goto(t, where, node[t], prev[t])
             /\ where = "next" => op[t] = "contains" /\ key[node[t]] # arg[t]
          \/ /\ pc[t] = "scan" /\ node[t] # Null /\ op[t] \in {"add", "remove"}
             /\ op[t] = "remove" => key[node[t]] # arg[t]
             /\ Goto(t, where, next[node[t]], node[t])
          \/ /\ op[t] = "contains" /\ pc[t] = "next" /\ where # "next"
             /\ Goto(t, where, next[node[t]], Null)
  BY DEF QuietMove
<1>3. PICK n, p : Goto(t, where, n, p) /\ n \in {node[t], next[node[t]]}
  BY <1>2
<1>4. op'[t] = op[t] /\ arg'[t] = arg[t] /\ pc'[t] = where /\ node'[t] = n /\ prev'[t] = p
  BY <1>1, <1>3, MoveFrame
<1>5. CASE op[t] \notin {"remove", "contains"}
  BY <1>4, <1>5 DEF WalkOK
<1>6. CASE op[t] = "remove"
  <2>1. \/ prev'[t] = prev[t]
        \/ pc[t] = "scan" /\ node[t] # Null /\ key[node[t]] # arg[t] /\ prev'[t] = node[t]
    BY <1>1, <1>2, <1>6, MoveFrame
  <2>2. QED
    BY <1>1, <1>4, <1>6, <2>1, RemoveWalk
<1>7. CASE op[t] = "contains"
  <2>1. \/ node'[t] = node[t] /\ (pc'[t] = "next" => key[node[t]] # arg[t])
        \/ pc[t] = "next" /\ node'[t] = next[node[t]] /\ pc'[t] # "next"
    BY <1>1, <1>2, <1>7, MoveFrame
  <2>2. QED
    BY <1>1, <1>4, <1>7, <2>1, ContainsWalk
<1>8. QED
  BY <1>5, <1>6, <1>7

(* Every step of the code is a step of the abstract set or none, and keeps *)
(* the invariant.                                                          *)
LEMMA NextLin ==
    ASSUME LinInv, FrontStays, ~MutexInitCanFail, [LinNext]_<<vars, seen>>
    PROVE  LinInv' /\ [Abs!Next]_(Abs!vars)
<1>1. /\ Inv /\ ListInv /\ ListOK /\ FrameTypeOK(Locations) /\ HistoryOK
  BY Frame DEF LinInv
<1>2. UNCHANGED absVars => UNCHANGED Abs!vars
  BY DEF absVars, Abs!vars
<1>3. CASE UNCHANGED <<vars, seen>>
  <2>1. UNCHANGED <<key, next, used, linked, pc, op, arg, node, prev, ret, calls, lock,
                    failed, seen>>
    BY <1>3 DEF vars
  <2>2. ListInv'
    BY <1>1, <1>3, ListNextInv DEF vars
  <2>3. HistoryOK'
    BY <1>1, <2>1 DEF HistoryOK, LinkedKeys
  <2>4. \A t \in Threads : WalkOK(t)'
    BY <2>1 DEF LinInv, WalkOK, Way, WillMeet, WillMiss, MeetsKey, MissesKey
  <2>5. UNCHANGED absVars
    BY <2>1 DEF absVars, LinkedKeys
  <2>6. QED
    BY <1>2, <2>2, <2>3, <2>4, <2>5 DEF LinInv
<1>4. CASE LinNext
  <2>1. Next /\ Observe /\ HistoryOK' /\ ListInv' /\ Inv'
    BY <1>1, <1>4, HistoryNext, ListNextInv DEF LinNext, ListInv
  <2>2. ASSUME NEW t \in Threads, Others(t), WalkOK(t)',
               UNCHANGED heap \/ AddLink(t) \/ RemoveUnlink(t)
        PROVE  LinInv'
    <3>1. SharedOK /\ \A u \in Threads : CallOK(u) /\ WalkOK(u)
      BY LinShared
    <3>2. \A u \in Threads \ {t} : WalkOK(u)'
      BY <2>1, <2>2, <3>1, OtherWalks
    <3>3. QED
      BY <2>1, <2>2, <3>2 DEF LinInv
  <2>3. ASSUME NEW t \in Threads, Call(t) PROVE LinInv' /\ Abs!Invoke(t)
    <3>1. /\ LinkedKeys' = LinkedKeys /\ UNCHANGED heap
          /\ Others(t) /\ arg'[t] \in Keys
          /\ \/ op'[t] = "add"
             \/ op'[t] = "remove" /\ prev'[t] = HeadNode
             \/ op'[t] = "contains" /\ pc'[t] = "lock_node" /\ node'[t] = next[HeadNode]
      BY <1>1, <2>1, <2>3, CallListInv
    <3>2. WalkOK(t)'
      BY <1>1, <2>1, <3>1, CallWalk
    <3>3. PICK o \in Operations, where \in {"lock_prev", "lock_node"} :
              \E n, p : Begin(t, o, where, n, p)
      BY <2>3 DEF Call, AddCall, RemoveCall, ContainsCall, Operations
    <3>4. PICK n, p : Begin(t, o, where, n, p)
      BY <3>3
    <3>5. pc[t] # "unlock" /\ where # "unlock"
      BY <1>1, <3>4, CallFrame
    <3>6. Abs!Invoke(t)
      BY <1>1, <2>1, <3>1, <3>4, <3>5, CallLin
    <3>7. QED
      BY <2>2, <3>1, <3>2, <3>6
  <2>4. ASSUME NEW t \in Threads, QuietMove(t) PROVE LinInv' /\ UNCHANGED absVars
    <3>1. LinkedKeys' = LinkedKeys /\ UNCHANGED heap /\ Others(t)
      BY <1>1, <2>1, <2>4, QuietMoveInv DEF QuietMove
    <3>2. PICK where \in {"lock_node", "scan", "next"} : \E n, p : Goto(t, where, n, p)
      BY <2>4 DEF QuietMove
    <3>3. PICK n, p : Goto(t, where, n, p)
      BY <3>2
    <3>4. pc[t] # "unlock" /\ where # "unlock"
      BY <2>4 DEF QuietMove
    <3>5. UNCHANGED absVars
      BY <1>1, <2>1, <3>1, <3>3, <3>4, MoveLin
    <3>6. QED
      BY <2>1, <2>2, <2>4, <3>1, <3>5, OwnWalk
  <2>5. ASSUME NEW t \in Threads, QuietReturn(t) PROVE LinInv' /\ Abs!Return(t)
    <3>1. /\ LinkedKeys' = LinkedKeys /\ UNCHANGED heap /\ Others(t)
          /\ op'[t] = "none"
      BY <1>1, <2>1, <2>5, QuietReturnInv DEF QuietReturn
    <3>2. PICK r \in {0, 1} :
              /\ Finish(t, r)
              /\ \/ pc[t] = "unlock" /\ r = 1
                 \/ At(t, "add", "scan") /\ r = 0 /\ AtKey(t)
                 \/ At(t, "remove", "scan") /\ r = 0 /\ AtEnd(t)
                 \/ At(t, "contains", "scan") /\ r = 1 /\ AtKey(t)
                 \/ At(t, "contains", "scan") /\ r = 0 /\ AtEnd(t)
      BY <2>5 DEF QuietReturn, AddInitFails
    <3>3. \/ pc[t] = "unlock" /\ r = 1
          \/ pc[t] # "unlock" /\ op[t] = "add" /\ r = 0 /\ 1 \in seen[t]
          \/ pc[t] # "unlock" /\ op[t] = "remove" /\ r = 0 /\ 0 \in seen[t]
          \/ op[t] = "contains" /\ r \in seen[t]
      BY <3>2, LinShared, WalkStops DEF At
    <3>4. op[t] # "none"
      BY <3>2, Frame DEF FrameOK, At
    <3>5. Abs!Return(t)
      BY <1>1, <2>1, <3>1, <3>2, <3>3, <3>4, ReturnLin
    <3>6. WalkOK(t)'
      BY <3>1 DEF WalkOK
    <3>7. QED
      BY <2>2, <3>1, <3>5, <3>6
  <2>6. ASSUME NEW t \in Threads, AddLink(t) \/ RemoveUnlink(t)
        PROVE  LinInv' /\ (Abs!Add(t) \/ Abs!Remove(t))
    <3>1. Others(t)
      BY <1>1, <2>1, <2>6, WriteListInv
    <3>2. /\ pc[t] = "scan" /\ Proceed(t, "unlock")
          /\ AddLink(t) => op[t] = "add"
          /\ RemoveUnlink(t) => op[t] = "remove"
      BY <2>6 DEF AddLink, RemoveUnlink, At
    <3>3. pc'[t] = "unlock" /\ op'[t] = op[t]
      BY <1>1, <3>2, MoveFrame DEF Proceed
    <3>4. WalkOK(t)'
      BY <2>6, <3>2, <3>3 DEF WalkOK
    <3>5. \/ /\ op[t] = "add" /\ arg[t] \notin LinkedKeys
             /\ LinkedKeys' = LinkedKeys \cup {arg[t]}
          \/ /\ op[t] = "remove" /\ arg[t] \in LinkedKeys
             /\ LinkedKeys' = LinkedKeys \ {arg[t]}
      BY <1>1, <2>6, <3>2, CallsOK, WriteList DEF ListInv
    <3>6. Abs!Add(t) \/ Abs!Remove(t)
      BY <1>1, <2>1, <3>2, <3>5, EffectLin
    <3>7. QED
      BY <2>2, <2>6, <3>1, <3>4, <3>6
  <2>7. ASSUME Done PROVE LinInv' /\ UNCHANGED absVars
    <3>1. /\ UNCHANGED heap /\ UNCHANGED <<op, arg, ret, pc>> /\ LinkedKeys' = LinkedKeys
      BY <2>7 DEF Done, vars, heap, LinkedKeys
    <3>2. UNCHANGED absVars
      BY <1>1, <2>1, <3>1, Stutter
    <3>3. seen' = seen
      BY <3>2 DEF absVars
    <3>4. \A t \in Threads : WalkOK(t)'
      BY <2>7, <3>3 DEF LinInv, WalkOK, Way, WillMeet, WillMiss, MeetsKey, MissesKey, Done, vars
    <3>5. QED
      BY <2>1, <3>2, <3>4 DEF LinInv
  <2>8. ASSUME NEW t \in Threads, Step(t)
        PROVE  LinInv' /\ (Abs!Add(t) \/ Abs!Remove(t) \/ Abs!Return(t) \/ UNCHANGED absVars)
    BY <2>4, <2>5, <2>6, <2>8, StepKinds
  <2>9. QED
    BY <1>2, <2>1, <2>3, <2>7, <2>8 DEF Next, Abs!Next
<1>5. QED
  BY <1>3, <1>4

LEMMA LinInvariance == FrontStays /\ ~MutexInitCanFail => (LinSpec => []LinInv)
<1>1. SUFFICES ASSUME FrontStays, ~MutexInitCanFail PROVE LinSpec => []LinInv
  OBVIOUS
<1>2. LinInit => LinInv
  BY <1>1, InitLin
<1>3. LinInv /\ [LinNext]_<<vars, seen>> => LinInv'
  BY <1>1, NextLin
<1>4. QED
  BY <1>2, <1>3, PTL DEF LinSpec

(* setos.h holds of the fine-grained set, as long as the first node of the *)
(* list stays and no mutex fails to initialise: every call takes effect at *)
(* one instant between its start and its return.                           *)
THEOREM FineLinearizable ==
    FrontStays /\ ~MutexInitCanFail => (LinSpec => Linearizable)
<1>1. SUFFICES ASSUME FrontStays, ~MutexInitCanFail PROVE LinSpec => Linearizable
  OBVIOUS
<1>2. LinInit => Abs!Init
  BY <1>1, InitLin
<1>3. LinInv /\ [LinNext]_<<vars, seen>> => [Abs!Next]_(Abs!vars)
  BY <1>1, NextLin
<1>4. LinSpec => []LinInv
  BY <1>1, LinInvariance
<1>5. QED
  BY <1>2, <1>3, <1>4, PTL DEF LinSpec, Linearizable, Abs!Spec
-----------------------------------------------------------------------------
(* setos_fine-ref.c adds and removes like setos_fine.c, but its            *)
(* setos_contains holds a node and the next one, and reads node->next      *)
(* again when it has unlocked node.  That is safe behind every node but    *)
(* the last, where there is no next one to hold: the last node must stay   *)
(* the last.                                                               *)
LastNode == Len(InitKeys)

EndsStay == FrontStays /\ \A k \in Keys : k < InitKeys[LastNode]

BackOK ==
    /\ LastNode \in linked
    /\ key[LastNode] = InitKeys[LastNode]
    /\ next[LastNode] = Null

(* The places where setos_contains has unlocked node. *)
Past == {"found", "unlock_next", "next"}

RefLocations == Locations \cup {"lock_next", "holds", "found", "unlock_next", "crashed"}

(* The places of each operation: none is the one after a crash. *)
PlaceOK(t) ==
    /\ op[t] = "none" <=> pc[t] = "idle"
    /\ op[t] = "add" => pc[t] \in {"lock_node", "scan", "unlock"}
    /\ op[t] = "remove" => pc[t] \in {"lock_prev", "lock_node", "scan", "unlock"}
    /\ op[t] = "contains" =>
           pc[t] \in {"lock_node", "scan", "lock_next", "holds"} \cup Past

(* The mutexes a contains holds. *)
HoldsHere(t) ==
    CASE pc[t] \in {"scan", "lock_next"} -> {node[t]} \ {Null}
      [] pc[t] = "holds" -> {node[t], next[node[t]]} \ {Null}
      [] pc[t] \in Past -> {next[node[t]]} \ {Null}
      [] OTHER -> {}

(* A contains goes from list node to list node.  The one it stands on may  *)
(* be out of the list when it has been unlocked, but what that points to   *)
(* is held, and so in the list.                                            *)
ContainsOK(t) ==
    op[t] = "contains" =>
        /\ prev[t] = Null
        /\ pc[t] = "lock_node" => node[t] = 1
        /\ pc[t] # "scan" => node[t] # Null
        /\ pc[t] \notin Past => node[t] \in linked \cup {Null}
        /\ pc[t] \in {"lock_next", "unlock_next"} => next[node[t]] # Null
        /\ pc[t] \in Past => node[t] = LastNode \/ next[node[t]] \in linked
        /\ \A n \in HoldsHere(t) : lock[n] = t

RefThreadOK(t) == CallOK(t) /\ PlaceOK(t) /\ ContainsOK(t)

RefInv ==
    /\ FrameTypeOK(RefLocations)
    /\ lock \in Locks
    /\ ListOK /\ FrontOK /\ BackOK
    /\ \A t \in Threads : RefThreadOK(t)

LEMMA InitRefInv == EndsStay /\ RefInit => RefInv
<1>1. SUFFICES ASSUME EndsStay, RefInit PROVE RefInv
  OBVIOUS
<1>2. ListInv
  BY <1>1, InitListInv DEF RefInit, EndsStay
<1>3. ListOK /\ FrontOK /\ \A t \in Threads : CallOK(t)
  BY <1>2, CallsOK DEF ListInv
<1>4. FrameTypeOK(RefLocations) /\ lock \in Locks
  BY <1>2 DEF ListInv, Inv, TypeOK, FrameTypeOK, RefLocations, Locations, Locks
<1>5. BackOK
  <2>1. LastNode \in 1..LastNode /\ LastNode \in Node /\ ~(LastNode < Len(InitKeys))
    BY <1>1, FirstKey, NodeAssumption DEF EndsStay, LastNode, Node
  <2>2. QED
    BY <1>1, <2>1 DEF RefInit, Init, HeapInit, BackOK, LastNode
<1>6. \A t \in Threads : PlaceOK(t) /\ ContainsOK(t)
  BY <1>1 DEF RefInit, Init, FrameInit, PlaceOK, ContainsOK
<1>7. QED
  BY <1>3, <1>4, <1>5, <1>6 DEF RefInv, RefThreadOK

(* The addresses a step of t deals with. *)
LEMMA RefFacts ==
    ASSUME RefInv, NEW t \in Threads
    PROVE  /\ CallOK(t) /\ PlaceOK(t) /\ ContainsOK(t) /\ PairOK(t)
           /\ HeapTypeOK /\ used \in Nat /\ 0..used \subseteq Node
           /\ HeadNode \in 0..used /\ linked \subseteq 1..used /\ 1 \in linked
           /\ Null \notin Node /\ HeadNode # Null
           /\ node[t] \in Addr /\ prev[t] \in Addr /\ HeadNode \in Addr /\ Null \in Addr
           /\ \A n \in 0..used : next[n] \in Addr /\ key[n] \in Int
<1>1. CallOK(t) /\ PlaceOK(t) /\ ContainsOK(t) /\ PairOK(t) /\ HeapTypeOK /\ 1 \in linked
  BY DEF RefInv, RefThreadOK, CallOK, ListOK, FrontOK
<1>2. /\ used \in Nat /\ 0..used \subseteq Node
      /\ HeadNode \in 0..used /\ linked \subseteq 1..used
      /\ Null \notin Node /\ HeadNode # Null /\ HeadNode \in Addr /\ Null \in Addr
  BY <1>1, NodeAssumption DEF HeapTypeOK, Node, HeadNode, Null, Addr
<1>3. node[t] \in Addr /\ prev[t] \in Addr
  BY DEF RefInv, FrameTypeOK
<1>4. \A n \in 0..used : next[n] \in Addr /\ key[n] \in Int
  BY <1>1, <1>2 DEF HeapTypeOK
<1>5. QED
  BY <1>1, <1>2, <1>3, <1>4

(* The only node without a next one is the last. *)
LEMMA EndIsLast ==
    ASSUME RefInv, NEW n \in linked
    PROVE  /\ next[n] \in linked \cup {Null} /\ next[n] # n
           /\ next[n] = Null <=> n = LastNode
<1>1. /\ next[n] \in linked \cup {Null}
      /\ next[n] # Null => key[n] < key[next[n]]
      /\ n # Null /\ key[n] \in Int /\ key[LastNode] \in Int
  BY ListTypes DEF RefInv, BackOK, ListOK, Adjacent
<1>2. next[n] # n
  BY <1>1
<1>3. ASSUME next[n] = Null, n # LastNode PROVE FALSE
  <2>1. key[n] # key[LastNode]
    BY <1>3 DEF RefInv, BackOK, ListOK, KeysDistinct
  <2>2. ~(key[n] < key[LastNode]) /\ ~(key[LastNode] < key[n])
    BY <1>3 DEF RefInv, BackOK, ListOK, Adjacent
  <2>3. QED
    BY <1>1, <2>1, <2>2
<1>4. n = LastNode => next[n] = Null
  BY DEF RefInv, BackOK
<1>5. QED
  BY <1>1, <1>2, <1>3, <1>4

(* Nothing is written behind the last node, nor is it taken out. *)
LEMMA LastStays ==
    ASSUME RefInv, EndsStay, NEW t \in Threads, AddLink(t) \/ RemoveUnlink(t)
    PROVE  prev[t] # LastNode /\ BackOK'
<1>1. ListOK /\ FrontOK /\ CallOK(t) /\ FrontStays /\ BackOK
  BY DEF RefInv, RefThreadOK, EndsStay
<1>2. /\ prev[t] \in linked /\ arg[t] \in Keys /\ arg[t] \in Int
      /\ key[LastNode] \in Int /\ arg[t] < key[LastNode] /\ key[prev[t]] \in Int
  BY <1>1, WritePair, ListTypes DEF EndsStay, BackOK
<1>3. /\ LastNode \in Node /\ LastNode # used + 1 /\ prev[t] \in Node
  BY <1>1, <1>2, RefFacts DEF BackOK
<1>4. CASE AddLink(t)
  <2>1. key[prev[t]] < arg[t] /\ Link(prev[t], next[prev[t]], arg[t])
    BY <1>1, <1>4, WritePair
  <2>2. prev[t] # LastNode
    BY <1>2, <2>1
  <2>3. QED
    BY <1>1, <1>3, <2>1, <2>2, RefFacts DEF BackOK, Link, HeapTypeOK
<1>5. CASE RemoveUnlink(t)
  <2>1. /\ next[prev[t]] # Null /\ key[next[prev[t]]] = arg[t]
        /\ Unlink(prev[t], next[prev[t]])
    BY <1>1, <1>5, WritePair
  <2>2. prev[t] # LastNode /\ next[prev[t]] # LastNode
    BY <1>1, <1>2, <2>1 DEF BackOK
  <2>3. QED
    BY <1>1, <1>3, <2>1, <2>2, RefFacts DEF BackOK, Unlink, HeapTypeOK
<1>6. QED
  BY <1>4, <1>5

(* Thread t takes free mutexes and gives back its own, no others. *)
LocksMoved(t) ==
    \A n \in Node : lock'[n] # lock[n] => lock[n] \in {t, NoThread}

(* What a step of t does to t itself. *)
StepOK(t) ==
    /\ FrameTypeOK(RefLocations)' /\ lock' \in Locks
    /\ Others(t) /\ LocksMoved(t) /\ RefThreadOK(t)'

(* Another thread keeps what it holds, so that what it relies on stays.    *)
LEMMA RefOthers ==
    ASSUME RefInv, EndsStay, NEW t \in Threads, Others(t), LocksMoved(t),
           UNCHANGED heap \/ AddLink(t) \/ RemoveUnlink(t),
           NEW u \in Threads \ {t}
    PROVE  RefThreadOK(u)'
<1>1. /\ pc'[u] = pc[u] /\ op'[u] = op[u] /\ arg'[u] = arg[u]
      /\ node'[u] = node[u] /\ prev'[u] = prev[u]
  BY DEF Others
<1>2. /\ ListOK /\ FrontOK /\ FrontStays /\ CallOK(t) /\ BackOK
      /\ CallOK(u) /\ PlaceOK(u) /\ ContainsOK(u)
  BY DEF RefInv, RefThreadOK, EndsStay
<1>3. \A n \in Node : lock[n] = u => lock'[n] = u
  BY CallAssumption DEF LocksMoved
<1>4. /\ used' \in Nat /\ used <= used' /\ used \in Nat
      /\ \A n \in 0..used : key'[n] = key[n]
  <2>1. used \in Nat /\ key \in [Node -> Int] /\ 0..used \subseteq Node
    BY RefFacts DEF HeapTypeOK
  <2>2. CASE UNCHANGED heap
    BY <2>1, <2>2 DEF heap
  <2>3. CASE AddLink(t)
    BY <2>1, <2>3 DEF AddLink, Link
  <2>4. CASE RemoveUnlink(t)
    BY <2>1, <2>4 DEF RemoveUnlink, Unlink
  <2>5. QED
    BY <2>2, <2>3, <2>4
<1>5. PairOK(u)'
  <2>1. CASE UNCHANGED heap
    BY <1>1, <1>2, <2>1 DEF CallOK, PairOK, heap
  <2>2. CASE AddLink(t) \/ RemoveUnlink(t)
    BY <1>2, <2>2, PairSurvives
  <2>3. QED
    BY <2>1, <2>2
<1>6. CallOK(u)'
  <2>1. node[u] \in (0..used') \cup {Null} /\ prev[u] \in (0..used') \cup {Null}
    BY <1>2, <1>4 DEF CallOK
  <2>2. op[u] = "add" /\ prev[u] # Null => key'[prev[u]] < arg[u]
    BY <1>2, <1>4 DEF CallOK
  <2>3. ASSUME op[u] \in {"add", "remove"}, NEW n \in Expected(u) PROVE lock'[n] = u
    <3>1. lock[n] = u /\ n \in {node[u], prev[u]} \ {Null}
      BY <1>2, <2>3 DEF CallOK, Expected
    <3>2. n \in Node
      BY <1>2, <3>1, RefFacts DEF CallOK
    <3>3. QED
      BY <1>3, <3>1, <3>2
  <2>4. Expected(u)' = Expected(u)
    BY <1>1 DEF Expected
  <2>5. QED
    BY <1>1, <1>2, <1>5, <2>1, <2>2, <2>3, <2>4 DEF CallOK
<1>7. PlaceOK(u)'
  BY <1>1, <1>2 DEF PlaceOK
<1>8. ContainsOK(u)'
  <2>1. SUFFICES ASSUME op[u] = "contains" PROVE ContainsOK(u)'
    BY <1>1 DEF ContainsOK
  <2>2. /\ prev[u] = Null
        /\ pc[u] = "lock_node" => node[u] = 1
        /\ pc[u] # "scan" => node[u] # Null
        /\ pc[u] \notin Past => node[u] \in linked \cup {Null}
        /\ pc[u] \in {"lock_next", "unlock_next"} => next[node[u]] # Null
        /\ pc[u] \in Past => node[u] = LastNode \/ next[node[u]] \in linked
        /\ \A n \in HoldsHere(u) : lock[n] = u
    BY <1>2, <2>1 DEF ContainsOK
  <2>3. /\ pc[u] \notin Past => node[u] \in linked' \cup {Null}
        /\ pc[u] \notin {"lock_node", "scan"} => next'[node[u]] = next[node[u]]
        /\ pc[u] \in Past => node[u] = LastNode \/ next[node[u]] \in linked'
    <3>1. CASE UNCHANGED heap
      BY <2>2, <3>1 DEF heap
    <3>2. CASE AddLink(t) \/ RemoveUnlink(t)
      <4>1. /\ prev[t] \in linked /\ prev[t] \in Node /\ node[t] = next[prev[t]]
            /\ lock[prev[t]] = t
            /\ linked' = linked \cup {used + 1} \/ linked' = linked \ {node[t]}
            /\ \A n \in 0..used : n # prev[t] => next'[n] = next[n]
        <5>1. prev[t] \in linked /\ prev[t] \in Node /\ node[t] = next[prev[t]]
              /\ lock[prev[t]] = t /\ 0..used \subseteq Node /\ used \in Nat
          BY <1>2, <3>2, WritePair, RefFacts
        <5>2. CASE AddLink(t)
          BY <5>1, <5>2, RefFacts DEF AddLink, Link, HeapTypeOK
        <5>3. CASE RemoveUnlink(t)
          BY <5>1, <5>3, RefFacts DEF RemoveUnlink, Unlink, HeapTypeOK
        <5>4. QED
          BY <3>2, <5>1, <5>2, <5>3
      <4>2. node[t] # Null => lock[node[t]] = t
        BY <1>2, <3>2 DEF CallOK, Expected, AddLink, RemoveUnlink, At
      <4>3. FrontOK'
        BY <1>2, <3>2, WriteList
      <4>4. prev[t] # LastNode
        BY <3>2, LastStays
      <4>5. node[u] # Null => node[u] \in 0..used
        BY <1>2 DEF CallOK
      <4>6. \A n \in linked : lock[n] = u => n \in linked' /\ n # prev[t] /\ n # Null
        BY <4>1, <4>2, RefFacts
      <4>7. pc[u] \notin Past => node[u] \in linked' \cup {Null}
        <5>1. CASE pc[u] = "lock_node"
          BY <2>2, <4>3, <5>1 DEF FrontOK
        <5>2. CASE pc[u] \notin Past \cup {"lock_node"} /\ node[u] # Null
          <6>1. node[u] \in HoldsHere(u)
            BY <1>2, <2>1, <5>2 DEF HoldsHere, PlaceOK, Past
          <6>2. QED
            BY <2>2, <4>6, <5>2, <6>1
        <5>3. QED
          BY <5>1, <5>2
      <4>8. /\ pc[u] \in Past /\ next[node[u]] \notin linked => node[u] = LastNode
            /\ pc[u] \in Past /\ next[node[u]] \in linked =>
                   lock[next[node[u]]] = u /\ next[node[u]] # Null
        <5>1. \A n \in linked : n # Null
          BY RefFacts
        <5>2. pc[u] \in Past => HoldsHere(u) = {next[node[u]]} \ {Null}
          BY DEF HoldsHere, Past
        <5>3. QED
          BY <2>2, <5>1, <5>2
      <4>9. pc[u] \notin {"lock_node", "scan"} => node[u] # prev[t]
        <5>1. CASE pc[u] \in {"lock_next", "holds"}
          <6>1. node[u] \in HoldsHere(u)
            BY <2>2, <5>1 DEF HoldsHere, Past
          <6>2. QED
            BY <2>2, <4>1, <6>1
        <5>2. CASE pc[u] \in Past
          <6>1. SUFFICES ASSUME node[u] = prev[t] PROVE FALSE
            OBVIOUS
          <6>2. next[node[u]] \in linked /\ lock[next[node[u]]] = u
            BY <4>4, <4>8, <5>2, <6>1
          <6>3. QED
            BY <4>1, <4>2, <4>8, <5>2, <6>1, <6>2
        <5>3. QED
          BY <1>2, <2>1, <5>1, <5>2 DEF PlaceOK
      <4>10. QED
        BY <2>2, <4>1, <4>5, <4>6, <4>7, <4>8, <4>9
    <3>3. QED
      BY <3>1, <3>2
  <2>4. \A n \in HoldsHere(u)' : lock'[n] = u
    <3>1. HoldsHere(u)' = HoldsHere(u)
      BY <1>1, <2>3 DEF HoldsHere, Past
    <3>2. HoldsHere(u) \subseteq Node
      <4>1. node[u] # Null => node[u] \in Node /\ next[node[u]] \in Addr
        BY <1>2, RefFacts DEF CallOK
      <4>2. HoldsHere(u) \subseteq {node[u], next[node[u]]} \ {Null}
        BY DEF HoldsHere, Past
      <4>3. node[u] = Null => HoldsHere(u) = {}
        BY <1>2, <2>1, <2>2 DEF HoldsHere, Past, PlaceOK
      <4>4. QED
        BY <4>1, <4>2, <4>3 DEF Addr
    <3>3. QED
      BY <1>3, <2>2, <3>1, <3>2
  <2>5. QED
    BY <1>1, <2>2, <2>3, <2>4 DEF ContainsOK, Past
<1>9. QED
  BY <1>6, <1>7, <1>8 DEF RefThreadOK

(* The frame of t after it moved on, returned or called. *)
LEMMA RefGoto ==
    ASSUME RefInv, NEW t \in Threads, NEW where \in RefLocations,
           NEW n \in Addr, NEW p \in Addr, Goto(t, where, n, p)
    PROVE  /\ FrameTypeOK(RefLocations)' /\ Others(t)
           /\ pc'[t] = where /\ node'[t] = n /\ prev'[t] = p
           /\ op'[t] = op[t] /\ arg'[t] = arg[t]
BY DEF RefInv, FrameTypeOK, Goto, Others

LEMMA RefFinish ==
    ASSUME RefInv, NEW t \in Threads, NEW r \in {0, 1}, Finish(t, r), UNCHANGED heap
    PROVE  /\ FrameTypeOK(RefLocations)' /\ Others(t) /\ RefThreadOK(t)' /\ op'[t] = "none"
<1>1. /\ pc' = [pc EXCEPT ![t] = "idle"]
      /\ op' = [op EXCEPT ![t] = "none"]
      /\ arg' = [arg EXCEPT ![t] = IntMin]
      /\ node' = [node EXCEPT ![t] = Null]
      /\ prev' = [prev EXCEPT ![t] = Null]
      /\ ret' = [ret EXCEPT ![t] = r]
      /\ calls' = calls
  BY DEF Finish
<1>2. FrameTypeOK(RefLocations)' /\ Others(t)
  BY <1>1, NodeAssumption
  DEF RefInv, FrameTypeOK, RefLocations, Locations, Others, Addr, NoResult
<1>3. pc'[t] = "idle" /\ op'[t] = "none" /\ node'[t] = Null /\ prev'[t] = Null
  BY <1>1 DEF RefInv, FrameTypeOK
<1>4. QED
  BY <1>2, <1>3 DEF RefThreadOK, CallOK, PairOK, PlaceOK, ContainsOK

LEMMA RefBegin ==
    ASSUME RefInv, NEW t \in Threads, NEW o \in Operations, NEW where \in RefLocations,
           NEW n \in Addr, NEW p \in Addr, Begin(t, o, where, n, p)
    PROVE  /\ FrameTypeOK(RefLocations)' /\ Others(t)
           /\ pc'[t] = where /\ node'[t] = n /\ prev'[t] = p
           /\ op'[t] = o /\ arg'[t] \in Keys /\ pc[t] = "idle"
<1>1. PICK k \in Keys : arg' = [arg EXCEPT ![t] = k]
  BY DEF Begin
<1>2. k \in Int
  BY CallAssumption
<1>3. FrameTypeOK(RefLocations)'
  BY <1>1, <1>2 DEF Begin, RefInv, FrameTypeOK, NoResult
<1>4. pc[t] = "idle"
  BY RefFacts DEF Begin, PlaceOK
<1>5. QED
  BY <1>1, <1>3, <1>4 DEF Begin, RefInv, FrameTypeOK, Others

(* DoUnlock() and DoLock(): t gives back its own and takes a free one. *)
LEMMA RefUnlocks ==
    ASSUME RefInv, NEW t \in Threads, NEW S, DoUnlock(S),
           \A n \in S : n \in Node => lock[n] = t
    PROVE  /\ lock' \in Locks /\ LocksMoved(t)
           /\ \A n \in Node \ S : lock'[n] = lock[n]
BY DEF RefInv, Locks, DoUnlock, LocksMoved

LEMMA RefLocks ==
    ASSUME RefInv, NEW t \in Threads, NEW m \in Addr, DoLock(t, m)
    PROVE  /\ lock' \in Locks /\ LocksMoved(t)
           /\ \A n \in Node : lock[n] = t \/ n = m => lock'[n] = t
<1>1. CASE m = Null /\ UNCHANGED lock
  BY <1>1, RefFacts DEF RefInv, LocksMoved
<1>2. CASE m # Null /\ lock[m] = NoThread /\ lock' = [lock EXCEPT ![m] = t]
  BY <1>2 DEF RefInv, LocksMoved, Locks, Addr
<1>3. QED
  BY <1>1, <1>2 DEF DoLock
-----------------------------------------------------------------------------
(* The steps of setos_fine-ref.c. *)

(* Within an add or a remove, or when a contains locks the first node. *)
LEMMA LockingOK ==
    ASSUME RefInv, NEW t \in Threads, RefLock(t)
    PROVE  StepOK(t) /\ UNCHANGED heap
<1>1. PICK m, where :
          /\ m = IF pc[t] = "lock_prev" THEN prev[t] ELSE node[t]
          /\ where = IF pc[t] = "lock_prev" THEN "lock_node" ELSE "scan"
  OBVIOUS
<1>2. /\ DoLock(t, m) /\ Goto(t, where, node[t], prev[t]) /\ UNCHANGED heap
      /\ pc[t] \in {"lock_prev", "lock_node"}
  BY <1>1 DEF RefLock, LockPrev, LockNode, Proceed
<1>3. /\ CallOK(t) /\ PlaceOK(t) /\ ContainsOK(t) /\ PairOK(t)
      /\ node[t] \in Addr /\ prev[t] \in Addr /\ 1 \in linked /\ linked \subseteq Node
      /\ where \in RefLocations
  BY <1>1, RefFacts DEF RefLocations, Locations
<1>4. /\ lock' \in Locks /\ LocksMoved(t)
      /\ \A n \in Node : lock[n] = t \/ n = m => lock'[n] = t
  BY <1>1, <1>2, <1>3, RefLocks
<1>5. /\ FrameTypeOK(RefLocations)' /\ Others(t)
      /\ pc'[t] = where /\ node'[t] = node[t] /\ prev'[t] = prev[t]
      /\ op'[t] = op[t] /\ arg'[t] = arg[t]
  BY <1>2, <1>3, RefGoto
<1>6. used' = used /\ key' = key /\ next' = next /\ linked' = linked
  BY <1>2 DEF heap
<1>7. op[t] \in {"add", "remove"} => \A n \in Expected(t)' : lock'[n] = t
  <2>1. SUFFICES ASSUME op[t] \in {"add", "remove"}, NEW n \in Expected(t)'
                 PROVE  lock'[n] = t
    OBVIOUS
  <2>2. n \in {node[t], prev[t]} /\ n \in Node /\ (where = "lock_node" => n = prev[t])
    BY <1>1, <1>2, <1>3, <1>5, <2>1 DEF Expected, Addr
  <2>3. n = m \/ n \in Expected(t)
    BY <1>1, <1>2, <2>1, <2>2 DEF Expected
  <2>4. QED
    BY <1>3, <1>4, <2>1, <2>2, <2>3 DEF CallOK
<1>8. CallOK(t)'
  BY <1>1, <1>2, <1>3, <1>5, <1>6, <1>7 DEF CallOK, PairOK
<1>9. PlaceOK(t)'
  BY <1>1, <1>2, <1>3, <1>5 DEF PlaceOK, Past
<1>10. ContainsOK(t)'
  <2>1. CASE op[t] = "contains"
    <3>1. pc[t] = "lock_node" /\ node[t] = 1 /\ prev[t] = Null /\ m = 1 /\ where = "scan"
      BY <1>1, <1>2, <1>3, <2>1 DEF PlaceOK, ContainsOK, Past
    <3>2. lock'[1] = t
      BY <1>3, <1>4, <3>1
    <3>3. HoldsHere(t)' = {1} \ {Null}
      BY <1>5, <3>1 DEF HoldsHere, Past
    <3>4. QED
      BY <1>3, <1>5, <1>6, <3>1, <3>2, <3>3 DEF ContainsOK, Past
  <2>2. CASE op[t] # "contains"
    BY <1>5, <2>2 DEF ContainsOK
  <2>3. QED
    BY <2>1, <2>2
<1>11. QED
  BY <1>2, <1>4, <1>5, <1>8, <1>9, <1>10 DEF StepOK, RefThreadOK

(* The walk of an add or a remove goes on. *)
LEMMA AdvanceOK ==
    ASSUME RefInv, NEW t \in Threads, AddStep(t) \/ RemoveStep(t)
    PROVE  StepOK(t) /\ UNCHANGED heap
<1>1. /\ op[t] \in {"add", "remove"} /\ pc[t] = "scan" /\ node[t] # Null
      /\ op[t] = "add" => key[node[t]] < arg[t]
      /\ DoUnlock({prev[t]}) /\ Goto(t, "lock_node", next[node[t]], node[t])
      /\ UNCHANGED heap
  BY DEF AddStep, RemoveStep, Advance, At, BeforeKey, AtEnd
<1>2. /\ CallOK(t) /\ PlaceOK(t) /\ PairOK(t) /\ used \in Nat /\ linked \subseteq 1..used
      /\ HeadNode \in 0..used /\ 0..used \subseteq Node /\ Null \notin Node
      /\ "lock_node" \in RefLocations /\ prev[t] \in Addr /\ node[t] \in Addr
  BY RefFacts DEF RefLocations, Locations
<1>3. /\ node[t] \in linked \cup {HeadNode} /\ node[t] \in 0..used
      /\ prev[t] # Null => node[t] # prev[t]
  <2>1. CASE prev[t] = Null
    <3>1. op[t] # "remove"
      BY <1>2, <2>1 DEF CallOK
    <3>2. node[t] = HeadNode
      BY <1>1, <1>2, <2>1, <3>1 DEF CallOK
    <3>3. QED
      BY <1>2, <2>1, <3>2
  <2>2. CASE prev[t] # Null
    <3>1. prev[t] \in linked \cup {HeadNode} /\ node[t] = next[prev[t]]
      BY <1>1, <1>2, <2>2 DEF PairOK
    <3>2. node[t] \in linked /\ key[prev[t]] < key[node[t]] /\ key[prev[t]] \in Int
      BY <1>1, <3>1, ListTypes DEF RefInv, ListOK, Adjacent
    <3>3. linked \subseteq 0..used
      BY <1>2
    <3>4. node[t] # prev[t]
      BY <3>2
    <3>5. QED
      BY <3>2, <3>3, <3>4
  <2>3. QED
    BY <2>1, <2>2
<1>4. next[node[t]] \in (0..used) \cup {Null} /\ next[node[t]] \in Addr
  <2>1. next[node[t]] \in linked \cup {Null}
    BY <1>3 DEF RefInv, ListOK, Adjacent
  <2>2. linked \subseteq 0..used
    BY <1>2
  <2>3. QED
    BY <1>2, <2>1, <2>2 DEF Addr
<1>5. /\ FrameTypeOK(RefLocations)' /\ Others(t)
      /\ pc'[t] = "lock_node" /\ node'[t] = next[node[t]] /\ prev'[t] = node[t]
      /\ op'[t] = op[t] /\ arg'[t] = arg[t]
  BY <1>1, <1>2, <1>4, RefGoto
<1>6. \A n \in {node[t], prev[t]} \ {Null} : lock[n] = t
  BY <1>1, <1>2 DEF CallOK, Expected
<1>7. /\ lock' \in Locks /\ LocksMoved(t)
      /\ \A n \in Node \ {prev[t]} : lock'[n] = lock[n]
  <2>1. \A n \in {prev[t]} : n \in Node => lock[n] = t
    BY <1>2, <1>6
  <2>2. QED
    BY <1>1, <2>1, RefUnlocks
<1>8. lock'[node[t]] = t
  <2>1. node[t] \in Node \ {prev[t]}
    BY <1>1, <1>2, <1>3
  <2>2. QED
    BY <1>1, <1>6, <1>7, <2>1
<1>9. used' = used /\ key' = key /\ next' = next /\ linked' = linked
  BY <1>1 DEF heap
<1>10. Expected(t)' = {node[t]} \ {Null}
  BY <1>5 DEF Expected
<1>11. PairOK(t)'
  BY <1>3, <1>5, <1>9 DEF PairOK
<1>12. CallOK(t)'
  BY <1>1, <1>2, <1>3, <1>4, <1>5, <1>8, <1>9, <1>10, <1>11 DEF CallOK
<1>13. PlaceOK(t)' /\ ContainsOK(t)'
  BY <1>1, <1>2, <1>5 DEF PlaceOK, ContainsOK
<1>14. QED
  BY <1>1, <1>5, <1>7, <1>12, <1>13 DEF StepOK, RefThreadOK

(* A call returns, and gives back what it holds. *)
RefLeave(t) ==
    \E r \in {0, 1} :
        /\ Leave(t, r)
        /\ \/ pc[t] = "unlock" /\ r = 1
           \/ At(t, "add", "scan") /\ AtKey(t) /\ r = 0
           \/ At(t, "remove", "scan") /\ AtEnd(t) /\ r = 0
           \/ At(t, "contains", "scan") /\ AtEnd(t) /\ r = 0

LEMMA LeaveOK ==
    ASSUME RefInv, NEW t \in Threads, RefLeave(t)
    PROVE  StepOK(t) /\ UNCHANGED heap
<1>1. PICK r \in {0, 1} :
          /\ DoUnlock({node[t], prev[t]}) /\ Finish(t, r) /\ UNCHANGED heap
          /\ \/ pc[t] = "unlock"
             \/ pc[t] = "scan" /\ op[t] \in {"add", "remove"}
             \/ pc[t] = "scan" /\ op[t] = "contains" /\ node[t] = Null
  BY DEF RefLeave, Leave, At, AtEnd
<1>2. CallOK(t) /\ PlaceOK(t) /\ ContainsOK(t) /\ Null \notin Node
      /\ op[t] \in Operations \cup {"none"}
  BY RefFacts DEF RefInv, FrameTypeOK
<1>3. \A n \in {node[t], prev[t]} : n \in Node => lock[n] = t
  <2>1. CASE op[t] \in {"add", "remove"}
    <3>1. Expected(t) = {node[t], prev[t]} \ {Null}
      BY <1>1, <2>1 DEF Expected
    <3>2. QED
      BY <1>2, <2>1, <3>1 DEF CallOK
  <2>2. CASE op[t] \notin {"add", "remove"}
    <3>1. op[t] = "contains" /\ node[t] = Null
      BY <1>1, <1>2, <2>2 DEF Operations, PlaceOK, Past
    <3>2. QED
      BY <1>2, <3>1 DEF ContainsOK
  <2>3. QED
    BY <2>1, <2>2
<1>4. lock' \in Locks /\ LocksMoved(t)
  BY <1>1, <1>3, RefUnlocks
<1>5. FrameTypeOK(RefLocations)' /\ Others(t) /\ RefThreadOK(t)'
  BY <1>1, RefFinish
<1>6. QED
  BY <1>1, <1>4, <1>5 DEF StepOK

(* The two writes. *)
LEMMA WritesOK ==
    ASSUME RefInv, EndsStay, NEW t \in Threads, AddLink(t) \/ RemoveUnlink(t)
    PROVE  StepOK(t)
<1>1. /\ op[t] \in {"add", "remove"} /\ pc[t] = "scan" /\ UNCHANGED lock
      /\ Goto(t, "unlock", node[t], prev[t])
  BY DEF AddLink, RemoveUnlink, At, Proceed
<1>2. /\ CallOK(t) /\ PlaceOK(t) /\ prev[t] \in Addr /\ node[t] \in Addr
      /\ "unlock" \in RefLocations /\ used \in Nat /\ 0..used \subseteq Node
  BY RefFacts DEF RefLocations, Locations
<1>3. /\ FrameTypeOK(RefLocations)' /\ Others(t)
      /\ pc'[t] = "unlock" /\ node'[t] = node[t] /\ prev'[t] = prev[t]
      /\ op'[t] = op[t] /\ arg'[t] = arg[t]
  BY <1>1, <1>2, RefGoto
<1>4. /\ used' \in Nat /\ used <= used'
      /\ \A n \in 0..used : key'[n] = key[n]
  <2>1. CASE AddLink(t)
    BY <1>2, <2>1, RefFacts DEF AddLink, Link, HeapTypeOK
  <2>2. CASE RemoveUnlink(t)
    BY <1>2, <2>2 DEF RemoveUnlink, Unlink
  <2>3. QED
    BY <2>1, <2>2
<1>5. Expected(t)' = Expected(t)
  BY <1>1, <1>3 DEF Expected
<1>6. CallOK(t)'
  <2>1. /\ node[t] \in (0..used') \cup {Null} /\ prev[t] \in (0..used') \cup {Null}
        /\ op[t] = "add" /\ prev[t] # Null => key'[prev[t]] < arg[t]
    BY <1>2, <1>4 DEF CallOK
  <2>2. PairOK(t)'
    BY <1>3 DEF PairOK
  <2>3. QED
    BY <1>1, <1>2, <1>3, <1>5, <2>1, <2>2 DEF CallOK
<1>7. PlaceOK(t)' /\ ContainsOK(t)'
  BY <1>1, <1>2, <1>3 DEF PlaceOK, ContainsOK
<1>8. lock' \in Locks /\ LocksMoved(t)
  BY <1>1 DEF RefInv, LocksMoved
<1>9. QED
  BY <1>3, <1>6, <1>7, <1>8 DEF StepOK, RefThreadOK

(* Where a contains goes, it must be entitled to be. *)
LEMMA ContainsMove ==
    ASSUME RefInv, NEW t \in Threads, UNCHANGED heap, op[t] = "contains",
           lock' \in Locks, LocksMoved(t),
           NEW where \in {"scan", "lock_next", "holds"} \cup Past,
           NEW n \in (0..used) \cup {Null}, Goto(t, where, n, Null),
           where # "scan" => n # Null,
           where \notin Past => n \in linked \cup {Null} /\ (n # Null => lock'[n] = t),
           where \in {"lock_next", "unlock_next"} => next[n] # Null,
           where \in Past => n = LastNode \/ next[n] \in linked,
           where \in {"holds"} \cup Past => (next[n] # Null => lock'[next[n]] = t)
    PROVE  StepOK(t)
<1>1. /\ CallOK(t) /\ PlaceOK(t) /\ n \in Addr /\ Null \in Addr /\ where \in RefLocations
  BY RefFacts DEF RefLocations, Locations, Past, Addr
<1>2. /\ FrameTypeOK(RefLocations)' /\ Others(t)
      /\ pc'[t] = where /\ node'[t] = n /\ prev'[t] = Null
      /\ op'[t] = op[t] /\ arg'[t] = arg[t]
  BY <1>1, RefGoto
<1>3. used' = used /\ key' = key /\ next' = next /\ linked' = linked
  BY DEF heap
<1>4. PairOK(t)'
  BY <1>2 DEF PairOK
<1>5. CallOK(t)'
  BY <1>1, <1>2, <1>3, <1>4 DEF CallOK, Past
<1>6. PlaceOK(t)'
  BY <1>1, <1>2 DEF PlaceOK, Past
<1>7. \A m \in HoldsHere(t)' : lock'[m] = t
  <2>1. HoldsHere(t)' = CASE where \in {"scan", "lock_next"} -> {n} \ {Null}
                          [] where = "holds" -> {n, next[n]} \ {Null}
                          [] where \in Past -> {next[n]} \ {Null}
                          [] OTHER -> {}
    BY <1>2, <1>3 DEF HoldsHere, Past
  <2>2. QED
    BY <2>1 DEF Past
<1>8. ContainsOK(t)'
  BY <1>2, <1>3, <1>7 DEF ContainsOK, Past
<1>9. QED
  BY <1>2, <1>5, <1>6, <1>8 DEF StepOK, RefThreadOK

ContainsGoes(t) ==
    \/ NextTested(t) \/ NextLocked(t) \/ KeyFound(t) \/ Found(t)
    \/ NextUnlocked(t) \/ KeyPassed(t) \/ GoOn(t)

LEMMA ContainsOwnOK ==
    ASSUME RefInv, NEW t \in Threads, ContainsGoes(t)
    PROVE  StepOK(t) /\ UNCHANGED heap
<1>1. UNCHANGED heap /\ op[t] = "contains"
  BY DEF ContainsGoes, NextTested, NextLocked, KeyFound, Found, NextUnlocked,
     KeyPassed, GoOn, At
<1>2. /\ CallOK(t) /\ PlaceOK(t) /\ ContainsOK(t) /\ lock \in Locks
      /\ UNCHANGED lock => LocksMoved(t) /\ lock' \in Locks
      /\ used \in Nat /\ 0..used \subseteq Node /\ linked \subseteq 1..used
      /\ Null \notin Node
  BY RefFacts DEF RefInv, LocksMoved
<1>3. /\ linked \subseteq 0..used /\ linked \subseteq Node /\ Null \notin linked
      /\ \A n \in linked : n \in 0..used /\ n \in Node /\ n # Null
  <2>1. linked \subseteq 0..used
    BY <1>2
  <2>2. QED
    BY <1>2, <2>1
<1>4. /\ prev[t] = Null
      /\ pc[t] # "scan" => node[t] # Null
      /\ pc[t] \notin Past => node[t] \in linked \cup {Null}
      /\ pc[t] \in {"lock_next", "unlock_next"} => next[node[t]] # Null
      /\ pc[t] \in Past => node[t] = LastNode \/ next[node[t]] \in linked
      /\ \A n \in HoldsHere(t) : lock[n] = t
      /\ node[t] \in (0..used) \cup {Null}
  BY <1>1, <1>2 DEF ContainsOK, CallOK
<1>5. /\ pc[t] \in {"scan", "lock_next", "holds"} /\ node[t] # Null => lock[node[t]] = t
      /\ pc[t] \in {"holds"} \cup Past /\ next[node[t]] # Null => lock[next[node[t]]] = t
  BY <1>4 DEF HoldsHere, Past
<1>6. pc[t] \notin Past /\ node[t] # Null =>
          /\ node[t] \in linked
          /\ next[node[t]] \in linked \cup {Null} /\ next[node[t]] # node[t]
          /\ next[node[t]] = Null <=> node[t] = LastNode
  BY <1>4, EndIsLast
<1>7. pc[t] \in Past => next[node[t]] \in linked \cup {Null}
  BY <1>4 DEF RefInv, BackOK
<1> DEFINE n == node[t]
<1>8. CASE NextTested(t)
  <2>1. /\ pc[t] = "scan" /\ n # Null /\ UNCHANGED lock
        /\ Goto(t, IF next[n] = Null THEN "holds" ELSE "lock_next", n, Null)
    BY <1>4, <1>8 DEF NextTested, At, AtEnd, Proceed
  <2>2. CASE next[n] = Null
    <3>1. Goto(t, "holds", n, Null)
      BY <2>1, <2>2
    <3>2. n \in linked /\ lock'[n] = t
      BY <1>5, <1>6, <2>1 DEF Past
    <3>3. QED
      BY <1>1, <1>2, <1>3, <2>1, <2>2, <3>1, <3>2, ContainsMove DEF Past
  <2>3. CASE next[n] # Null
    <3>1. Goto(t, "lock_next", n, Null)
      BY <2>1, <2>3
    <3>2. n \in linked /\ lock'[n] = t
      BY <1>5, <1>6, <2>1 DEF Past
    <3>3. QED
      BY <1>1, <1>2, <1>3, <2>1, <2>3, <3>1, <3>2, ContainsMove DEF Past
  <2>4. QED
    BY <2>2, <2>3
<1>9. CASE NextLocked(t)
  <2>1. /\ pc[t] = "lock_next" /\ n # Null /\ n \in linked
        /\ next[n] \in linked /\ lock[n] = t
        /\ DoLock(t, next[n]) /\ Goto(t, "holds", n, Null)
    BY <1>4, <1>5, <1>6, <1>9 DEF NextLocked, At, Proceed, Past
  <2>2. next[n] \in Addr /\ n \in Node /\ next[n] \in Node
    BY <1>3, <2>1 DEF Addr
  <2>3. /\ lock' \in Locks /\ LocksMoved(t)
        /\ \A m \in Node : lock[m] = t \/ m = next[n] => lock'[m] = t
    BY <2>1, <2>2, RefLocks
  <2>4. lock'[n] = t /\ lock'[next[n]] = t
    BY <2>1, <2>2, <2>3
  <2>5. QED
    BY <1>1, <1>3, <2>1, <2>3, <2>4, ContainsMove DEF Past
<1>10. CASE KeyFound(t) \/ KeyPassed(t)
  <2>1. PICK where \in {"found", "next"} : Goto(t, where, n, Null)
    BY <1>4, <1>10 DEF KeyFound, KeyPassed, Proceed
  <2>2. /\ pc[t] = "holds" /\ n # Null /\ n \in linked /\ lock[n] = t
        /\ next[n] \in linked \cup {Null} /\ next[n] # n
        /\ n = LastNode \/ next[n] \in linked
        /\ next[n] # Null => lock[next[n]] = t
        /\ DoUnlock({n})
    BY <1>4, <1>5, <1>6, <1>10 DEF KeyFound, KeyPassed, At, Past
  <2>3. /\ lock' \in Locks /\ LocksMoved(t)
        /\ \A m \in Node \ {n} : lock'[m] = lock[m]
    BY <2>2, RefUnlocks
  <2>4. next[n] # Null => lock'[next[n]] = t
    BY <1>3, <2>2, <2>3
  <2>5. QED
    BY <1>1, <1>3, <2>1, <2>2, <2>3, <2>4, ContainsMove DEF Past
<1>11. CASE Found(t)
  <2>1. pc[t] = "found" /\ UNCHANGED lock /\ n # Null /\ n \in 0..used
    BY <1>4, <1>11 DEF Found, At
  <2>2. CASE next[n] = Null
    <3>1. Finish(t, 1)
      BY <1>11, <2>2 DEF Found
    <3>2. QED
      BY <1>1, <1>2, <2>1, <3>1, RefFinish DEF StepOK
  <2>3. CASE next[n] # Null
    <3>1. Goto(t, "unlock_next", n, Null)
      BY <1>4, <1>11, <2>3 DEF Found, Proceed
    <3>2. lock'[next[n]] = t /\ (n = LastNode \/ next[n] \in linked)
      BY <1>4, <1>5, <2>1, <2>3 DEF Past
    <3>3. QED
      BY <1>1, <1>2, <2>1, <2>3, <3>1, <3>2, ContainsMove DEF Past
  <2>4. QED
    BY <2>2, <2>3
<1>12. CASE NextUnlocked(t)
  <2>1. /\ pc[t] = "unlock_next" /\ next[n] # Null /\ lock[next[n]] = t
        /\ DoUnlock({next[n]}) /\ Finish(t, 1)
    BY <1>4, <1>5, <1>12 DEF NextUnlocked, At, Past
  <2>2. lock' \in Locks /\ LocksMoved(t)
    BY <2>1, RefUnlocks
  <2>3. QED
    BY <1>1, <2>1, <2>2, RefFinish DEF StepOK
<1>13. CASE GoOn(t)
  <2>1. pc[t] = "next" /\ UNCHANGED lock /\ Goto(t, "scan", next[n], Null)
    BY <1>13 DEF GoOn, At
  <2>2. /\ next[n] \in linked \cup {Null} /\ next[n] \in (0..used) \cup {Null}
        /\ next[n] # Null => lock'[next[n]] = t
    BY <1>3, <1>5, <1>7, <2>1 DEF Past
  <2>3. QED
    BY <1>1, <1>2, <2>1, <2>2, ContainsMove DEF Past
<1>14. QED
  BY <1>1, <1>8, <1>9, <1>10, <1>11, <1>12, <1>13 DEF ContainsGoes

(* A call starts at the front of the list. *)
LEMMA CallOwnOK ==
    ASSUME RefInv, EndsStay, NEW t \in Threads, Call(t)
    PROVE  /\ StepOK(t) /\ UNCHANGED heap /\ LinkedKeys' = LinkedKeys /\ arg'[t] \in Keys
           /\ \/ op'[t] = "add"
              \/ op'[t] = "remove" /\ prev'[t] = HeadNode
              \/ op'[t] = "contains" /\ pc'[t] = "lock_node" /\ node'[t] = next[HeadNode]
<1>1. UNCHANGED heap /\ UNCHANGED lock /\ next[HeadNode] = 1 /\ 1 \in linked
  BY DEF Call, AddCall, RemoveCall, ContainsCall, RefInv, FrontOK
<1>2. /\ HeadNode \in 0..used /\ HeadNode # Null /\ HeadNode \in Addr /\ Null \in Addr
      /\ 1 \in Addr /\ 1 \in 0..used /\ 1 # Null
      /\ "lock_node" \in RefLocations /\ "lock_prev" \in RefLocations
  BY <1>1, RefFacts DEF Addr, RefLocations, Locations
<1>3. /\ used' = used /\ key' = key /\ next' = next /\ linked' = linked
      /\ LinkedKeys' = LinkedKeys
  BY <1>1 DEF heap, LinkedKeys
<1>4. lock' \in Locks /\ LocksMoved(t)
  BY <1>1 DEF RefInv, LocksMoved
<1>5. PICK o \in Operations, where \in RefLocations, n \in Addr, p \in Addr :
          /\ Begin(t, o, where, n, p)
          /\ \/ o = "add" /\ where = "lock_node" /\ n = HeadNode /\ p = Null
             \/ o = "remove" /\ where = "lock_prev" /\ n = 1 /\ p = HeadNode
             \/ o = "contains" /\ where = "lock_node" /\ n = 1 /\ p = Null
  <2>1. CASE AddCall(t)
    BY <1>2, <2>1 DEF AddCall, Operations
  <2>2. CASE RemoveCall(t)
    BY <1>1, <1>2, <2>2 DEF RemoveCall, Operations
  <2>3. CASE ContainsCall(t)
    BY <1>1, <1>2, <2>3 DEF ContainsCall, Operations
  <2>4. QED
    BY <2>1, <2>2, <2>3 DEF Call
<1>6. /\ FrameTypeOK(RefLocations)' /\ Others(t)
      /\ pc'[t] = where /\ node'[t] = n /\ prev'[t] = p
      /\ op'[t] = o /\ arg'[t] \in Keys
  BY <1>5, RefBegin
<1>7. Expected(t)' = IF where = "lock_node" THEN {p} \ {Null} ELSE {}
  BY <1>5, <1>6 DEF Expected
<1>8. PairOK(t)'
  BY <1>1, <1>3, <1>5, <1>6 DEF PairOK
<1>9. CallOK(t)'
  BY <1>2, <1>3, <1>5, <1>6, <1>7, <1>8 DEF CallOK
<1>10. PlaceOK(t)'
  BY <1>5, <1>6 DEF PlaceOK
<1>11. HoldsHere(t)' = {}
  BY <1>5, <1>6 DEF HoldsHere, Past
<1>12. ContainsOK(t)'
  BY <1>1, <1>2, <1>3, <1>5, <1>6, <1>11 DEF ContainsOK, Past
<1>13. QED
  BY <1>1, <1>3, <1>4, <1>5, <1>6, <1>9, <1>10, <1>12 DEF StepOK, RefThreadOK

(* Every step keeps the invariant. *)
LEMMA RefStepInv ==
    ASSUME RefInv, EndsStay, NEW t \in Threads, StepOK(t),
           UNCHANGED heap \/ AddLink(t) \/ RemoveUnlink(t)
    PROVE  RefInv'
<1>1. ListOK' /\ FrontOK' /\ BackOK'
  <2>1. CASE UNCHANGED heap
    BY <2>1
    DEF RefInv, ListOK, HeapTypeOK, KeysDistinct, Adjacent, FrontOK, BackOK, heap
  <2>2. CASE AddLink(t) \/ RemoveUnlink(t)
    BY <2>2, WriteList, LastStays DEF RefInv, RefThreadOK, EndsStay
  <2>3. QED
    BY <2>1, <2>2
<1>2. ASSUME NEW u \in Threads \ {t} PROVE RefThreadOK(u)'
  BY RefOthers DEF StepOK
<1>3. QED
  BY <1>1, <1>2 DEF RefInv, StepOK

RefMoves(t) == RefLock(t) \/ AddStep(t) \/ RemoveStep(t) \/ ContainsGoes(t)

RefKinds(t) == RefMoves(t) \/ RefLeave(t) \/ AddLink(t) \/ RemoveUnlink(t)

LEMMA RefStepKinds == ASSUME NEW t \in Threads, RefStep(t) PROVE RefKinds(t)
<1>1. AddPresent(t) \/ RemoveAbsent(t) \/ ContainsAbsent(t) \/ Unlock(t) => RefLeave(t)
  BY DEF AddPresent, RemoveAbsent, ContainsAbsent, Unlock, RefLeave
<1>2. QED
  BY <1>1 DEF RefStep, RefAdd, RefRemove, RefContains, RefKinds, RefMoves, ContainsGoes

LEMMA RefStepOK ==
    ASSUME RefInv, EndsStay, NEW t \in Threads, RefStep(t)
    PROVE  RefInv' /\ StepOK(t)
<1>1. CASE AddLink(t) \/ RemoveUnlink(t)
  BY <1>1, WritesOK, RefStepInv
<1>2. CASE RefMoves(t) \/ RefLeave(t)
  <2>1. StepOK(t) /\ UNCHANGED heap
    BY <1>2, LockingOK, AdvanceOK, LeaveOK, ContainsOwnOK DEF RefMoves
  <2>2. QED
    BY <2>1, RefStepInv
<1>3. QED
  BY <1>1, <1>2, RefStepKinds DEF RefKinds

LEMMA RefNextInv == EndsStay /\ RefInv /\ [RefNext]_<<vars, seen>> => RefInv'
<1>1. SUFFICES ASSUME EndsStay, RefInv, [RefNext]_<<vars, seen>> PROVE RefInv'
  OBVIOUS
<1>2. ASSUME NEW t \in Threads, RefStep(t) PROVE RefInv'
  BY <1>1, <1>2, RefStepOK
<1>3. ASSUME NEW t \in Threads, Call(t) PROVE RefInv'
  <2>1. StepOK(t) /\ UNCHANGED heap
    BY <1>1, <1>3, CallOwnOK
  <2>2. QED
    BY <1>1, <2>1, RefStepInv
<1>4. CASE UNCHANGED vars
  BY <1>1, <1>4
  DEF vars, RefInv, FrameTypeOK, ListOK, HeapTypeOK, KeysDistinct, Adjacent, FrontOK,
      BackOK, RefThreadOK, CallOK, Expected, PairOK, PlaceOK, ContainsOK, HoldsHere
<1>5. QED
  BY <1>1, <1>2, <1>3, <1>4 DEF RefNext, Done

(* The other setos_contains: when it reads node->next again, the node it   *)
(* finds there is the one it has locked, as long as the first and the last *)
(* node of the list stay.                                                  *)
THEOREM HoldKept == EndsStay => (RefSpec => []KeepsItsHold)
<1>1. SUFFICES ASSUME EndsStay PROVE RefSpec => []KeepsItsHold
  OBVIOUS
<1>2. RefInit => RefInv
  BY <1>1, InitRefInv
<1>3. RefInv /\ [RefNext]_<<vars, seen>> => RefInv'
  BY <1>1, RefNextInv
<1>4. RefInv => KeepsItsHold
  <2>1. SUFFICES ASSUME RefInv, NEW t \in Threads,
                        pc[t] \in {"found", "unlock_next", "next"}, next[node[t]] # Null
                 PROVE  lock[next[node[t]]] = t
    BY DEF KeepsItsHold
  <2>2. /\ PlaceOK(t) /\ ContainsOK(t) /\ op[t] \in Operations \cup {"none"}
    BY <2>1, RefFacts DEF RefInv, FrameTypeOK
  <2>3. op[t] = "contains"
    BY <2>1, <2>2 DEF PlaceOK, Operations
  <2>4. next[node[t]] \in HoldsHere(t)
    BY <2>1 DEF HoldsHere, Past
  <2>5. QED
    BY <2>2, <2>3, <2>4 DEF ContainsOK
<1>5. QED
  BY <1>2, <1>3, <1>4, PTL DEF RefSpec
-----------------------------------------------------------------------------
(* Linearizability of the other solution: its contains decides while it    *)
(* holds the node, and answers after it has let it go.                     *)
FoundOK(t) == pc[t] \in {"found", "unlock_next"} => 1 \in seen[t]

RefLinInv == RefInv /\ HistoryOK /\ \A t \in Threads : WalkOK(t) /\ FoundOK(t)

LEMMA InitRefLin == EndsStay /\ RefInit => RefLinInv /\ Abs!Init
<1>1. SUFFICES ASSUME EndsStay, RefInit PROVE RefLinInv /\ Abs!Init
  OBVIOUS
<1>2. RefInv
  BY <1>1, InitRefInv
<1>3. HistoryOK /\ Abs!Init
  BY <1>1, InitHistory DEF RefInit, Init
<1>4. \A t \in Threads : WalkOK(t) /\ FoundOK(t)
  BY <1>1 DEF RefInit, Init, FrameInit, WalkOK, FoundOK
<1>5. QED
  BY <1>2, <1>3, <1>4 DEF RefLinInv

(* What a step of t within a call does to its walk. *)
WalkStep(t, where, n, p) ==
    /\ Goto(t, where, n, p)
    /\ pc[t] # "unlock" /\ where # "unlock"
    /\ op[t] = "remove" =>
           \/ p = prev[t]
           \/ pc[t] = "scan" /\ node[t] # Null /\ key[node[t]] # arg[t] /\ p = node[t]
    /\ op[t] = "contains" =>
           \/ n = node[t] /\ (where = "next" => key[node[t]] # arg[t])
           \/ pc[t] = "next" /\ n = next[node[t]] /\ where # "next"
    /\ where \in {"found", "unlock_next"} =>
           pc[t] = "found" \/ (op[t] = "contains" /\ AtKey(t))

(* A contains that has found its key returns 1. *)
Answers(t) ==
    /\ Finish(t, 1)
    /\ op[t] = "contains" /\ pc[t] \in {"found", "unlock_next"}

LEMMA RefMovesKinds ==
    ASSUME RefInv, NEW t \in Threads, RefMoves(t)
    PROVE  Answers(t) \/ \E where, n, p : WalkStep(t, where, n, p)
<1>1. CallOK(t) /\ PlaceOK(t) /\ ContainsOK(t)
  BY RefFacts
<1>2. CASE RefLock(t)
  <2>1. PICK where, n, p :
            /\ where = IF pc[t] = "lock_prev" THEN "lock_node" ELSE "scan"
            /\ n = node[t] /\ p = prev[t]
    OBVIOUS
  <2>2. Goto(t, where, n, p) /\ pc[t] \in {"lock_prev", "lock_node"}
    BY <1>2, <2>1 DEF RefLock, LockPrev, LockNode, Proceed
  <2>3. WalkStep(t, where, n, p)
    BY <2>1, <2>2 DEF WalkStep
  <2>4. QED
    BY <2>3
<1>3. CASE AddStep(t) \/ RemoveStep(t)
  <2>1. WalkStep(t, "lock_node", next[node[t]], node[t])
    BY <1>3 DEF AddStep, RemoveStep, Advance, At, AtEnd, AtKey, WalkStep
  <2>2. QED
    BY <2>1
<1>4. CASE NextTested(t)
  <2>1. PICK where : where = IF next[node[t]] = Null THEN "holds" ELSE "lock_next"
    OBVIOUS
  <2>2. WalkStep(t, where, node[t], prev[t])
    BY <1>4, <2>1 DEF NextTested, Proceed, At, WalkStep
  <2>3. QED
    BY <2>2
<1>5. CASE NextLocked(t)
  <2>1. PICK where : where = IF next[node[t]] = Null THEN "crashed" ELSE "holds"
    OBVIOUS
  <2>2. WalkStep(t, where, node[t], prev[t])
    BY <1>5, <2>1 DEF NextLocked, Proceed, At, WalkStep
  <2>3. QED
    BY <2>2
<1>6. CASE KeyFound(t)
  <2>1. WalkStep(t, "found", node[t], prev[t])
    BY <1>6 DEF KeyFound, Proceed, At, WalkStep
  <2>2. QED
    BY <2>1
<1>7. CASE KeyPassed(t)
  <2>1. WalkStep(t, "next", node[t], prev[t])
    <3>1. pc[t] = "holds" /\ op[t] = "contains" /\ node[t] # Null /\ key[node[t]] # arg[t]
      BY <1>1, <1>7 DEF KeyPassed, At, AtKey, ContainsOK
    <3>2. QED
      BY <1>7, <3>1 DEF KeyPassed, Proceed, WalkStep
  <2>2. QED
    BY <2>1
<1>8. CASE Found(t)
  <2>1. CASE next[node[t]] = Null
    BY <1>8, <2>1 DEF Found, At, Answers
  <2>2. CASE next[node[t]] # Null
    <3>1. WalkStep(t, "unlock_next", node[t], prev[t])
      BY <1>8, <2>2 DEF Found, Proceed, At, WalkStep
    <3>2. QED
      BY <3>1
  <2>3. QED
    BY <2>1, <2>2
<1>9. CASE NextUnlocked(t)
  <2>1. next[node[t]] # Null
    BY <1>1, <1>9 DEF NextUnlocked, At, ContainsOK
  <2>2. QED
    BY <1>9, <2>1 DEF NextUnlocked, At, Answers
<1>10. CASE GoOn(t)
  <2>1. WalkStep(t, "scan", next[node[t]], Null)
    BY <1>10 DEF GoOn, At, WalkStep
  <2>2. QED
    BY <2>1
<1>11. QED
  BY <1>2, <1>3, <1>4, <1>5, <1>6, <1>7, <1>8, <1>9, <1>10 DEF RefMoves, ContainsGoes

(* The walk of t goes on. *)
LEMMA RefOwnWalk ==
    ASSUME RefLinInv, EndsStay, Observe, UNCHANGED heap,
           NEW t \in Threads, NEW where, NEW n, NEW p, WalkStep(t, where, n, p)
    PROVE  WalkOK(t)' /\ FoundOK(t)'
<1>1. /\ SharedOK /\ HistoryOK /\ FrontStays /\ CallOK(t) /\ WalkOK(t) /\ FoundOK(t)
      /\ op[t] \in Operations \cup {"none"} /\ Goto(t, where, n, p)
  BY DEF RefLinInv, RefInv, RefThreadOK, SharedOK, EndsStay, FrameTypeOK, WalkStep
<1>2. op'[t] = op[t] /\ arg'[t] = arg[t] /\ pc'[t] = where /\ node'[t] = n /\ prev'[t] = p
  BY <1>1 DEF RefLinInv, RefInv, FrameTypeOK, Goto
<1>3. seen[t] \subseteq seen'[t]
  BY <1>1, <1>2, HistoryNext
<1>4. FoundOK(t)'
  <2>1. SUFFICES ASSUME where \in {"found", "unlock_next"} PROVE 1 \in seen'[t]
    BY <1>2 DEF FoundOK
  <2>2. 1 \in seen[t]
    BY <1>1, <2>1, WalkStops DEF WalkStep, FoundOK
  <2>3. QED
    BY <1>3, <2>2
<1>5. WalkOK(t)'
  <2>1. CASE op[t] \notin {"remove", "contains"}
    BY <1>2, <2>1 DEF WalkOK
  <2>2. CASE op[t] = "remove"
    <3>1. /\ pc[t] # "unlock"
          /\ \/ prev'[t] = prev[t]
             \/ /\ pc[t] = "scan" /\ node[t] # Null /\ key[node[t]] # arg[t]
                /\ prev'[t] = node[t]
      BY <1>2, <2>2 DEF WalkStep
    <3>2. QED
      BY <1>1, <1>2, <2>2, <3>1, RemoveWalk
  <2>3. CASE op[t] = "contains"
    <3>1. \/ node'[t] = node[t] /\ (pc'[t] = "next" => key[node[t]] # arg[t])
          \/ pc[t] = "next" /\ node'[t] = next[node[t]] /\ pc'[t] # "next"
      BY <1>2, <2>3 DEF WalkStep
    <3>2. QED
      BY <1>1, <1>2, <2>3, <3>1, ContainsWalk
  <2>4. QED
    BY <2>1, <2>2, <2>3
<1>6. QED
  BY <1>4, <1>5

(* Every step of this code, too, is a step of the abstract set or none. *)
LEMMA RefNextLin ==
    ASSUME RefLinInv, EndsStay, [RefNext]_<<vars, seen>>
    PROVE  RefLinInv' /\ [Abs!Next]_(Abs!vars)
<1>1. /\ RefInv /\ FrameTypeOK(RefLocations) /\ HistoryOK /\ SharedOK /\ FrontStays
      /\ ListOK /\ FrontOK
      /\ \A t \in Threads : /\ CallOK(t) /\ PlaceOK(t) /\ WalkOK(t) /\ FoundOK(t)
                            /\ op[t] \in Operations \cup {"none"}
  BY DEF RefLinInv, RefInv, RefThreadOK, SharedOK, EndsStay, FrameTypeOK
<1>2. UNCHANGED absVars => UNCHANGED Abs!vars
  BY DEF absVars, Abs!vars
<1>3. RefInv'
  BY <1>1, RefNextInv
<1>4. CASE UNCHANGED <<vars, seen>>
  <2>1. UNCHANGED <<key, next, used, linked, pc, op, arg, node, prev, ret, calls, lock,
                    failed, seen>>
    BY <1>4 DEF vars
  <2>2. HistoryOK'
    BY <1>1, <2>1 DEF HistoryOK, LinkedKeys
  <2>3. \A t \in Threads : WalkOK(t)' /\ FoundOK(t)'
    BY <1>1, <2>1 DEF FoundOK, WalkOK, Way, WillMeet, WillMiss, MeetsKey, MissesKey
  <2>4. UNCHANGED absVars
    BY <2>1 DEF absVars, LinkedKeys
  <2>5. QED
    BY <1>2, <1>3, <2>2, <2>3, <2>4 DEF RefLinInv
<1>5. CASE RefNext
  <2>1. Observe /\ HistoryOK'
    BY <1>1, <1>5, HistoryNext DEF RefNext
  <2>2. ASSUME NEW t \in Threads, Others(t), WalkOK(t)', FoundOK(t)',
               UNCHANGED heap \/ AddLink(t) \/ RemoveUnlink(t)
        PROVE  RefLinInv'
    <3>1. ASSUME NEW u \in Threads \ {t} PROVE WalkOK(u)' /\ FoundOK(u)'
      <4>1. pc'[u] = pc[u] /\ op'[u] = op[u]
        BY <2>2 DEF Others
      <4>2. seen[u] \subseteq seen'[u]
        BY <1>1, <2>1, <4>1, HistoryNext
      <4>3. WalkOK(u)'
        BY <1>1, <2>1, <2>2, OtherWalks
      <4>4. QED
        BY <1>1, <4>1, <4>2, <4>3 DEF FoundOK
    <3>2. QED
      BY <1>3, <2>1, <2>2, <3>1 DEF RefLinInv
  <2>3. ASSUME NEW t \in Threads, Call(t) PROVE RefLinInv' /\ Abs!Invoke(t)
    <3>1. /\ StepOK(t) /\ UNCHANGED heap /\ LinkedKeys' = LinkedKeys /\ arg'[t] \in Keys
          /\ \/ op'[t] = "add"
             \/ op'[t] = "remove" /\ prev'[t] = HeadNode
             \/ op'[t] = "contains" /\ pc'[t] = "lock_node" /\ node'[t] = next[HeadNode]
      BY <1>1, <2>3, CallOwnOK
    <3>2. WalkOK(t)'
      BY <1>1, <2>1, <3>1, CallWalk
    <3>3. PICK o \in Operations, where \in {"lock_prev", "lock_node"} :
              \E n, p : Begin(t, o, where, n, p)
      BY <2>3 DEF Call, AddCall, RemoveCall, ContainsCall, Operations
    <3>4. PICK n, p : Begin(t, o, where, n, p)
      BY <3>3
    <3>5. pc[t] # "unlock" /\ where # "unlock" /\ pc'[t] = where
      BY <1>1, <3>4 DEF Begin, PlaceOK, FrameTypeOK
    <3>6. Abs!Invoke(t)
      BY <1>1, <2>1, <3>1, <3>4, <3>5, CallLin
    <3>7. FoundOK(t)'
      BY <3>5 DEF FoundOK
    <3>8. QED
      BY <2>2, <3>1, <3>2, <3>6, <3>7 DEF StepOK
  <2>4. ASSUME NEW t \in Threads, RefMoves(t)
        PROVE  RefLinInv' /\ (UNCHANGED absVars \/ Abs!Return(t))
    <3>1. StepOK(t) /\ UNCHANGED heap
      BY <1>1, <2>4, LockingOK, AdvanceOK, ContainsOwnOK DEF RefMoves
    <3>2. LinkedKeys' = LinkedKeys
      BY <3>1 DEF heap, LinkedKeys
    <3>3. CASE Answers(t)
      <4>1. /\ op[t] # "none" /\ Finish(t, 1) /\ op[t] = "contains"
            /\ pc[t] \in {"found", "unlock_next"} /\ 1 \in seen[t]
        BY <1>1, <3>3 DEF Answers, FoundOK
      <4>2. Abs!Return(t)
        BY <1>1, <2>1, <3>2, <4>1, ReturnLin
      <4>3. pc'[t] = "idle" /\ op'[t] = "none"
        BY <1>1, <4>1 DEF Finish, FrameTypeOK
      <4>4. WalkOK(t)' /\ FoundOK(t)'
        BY <4>3 DEF WalkOK, FoundOK
      <4>5. QED
        BY <2>2, <3>1, <4>2, <4>4 DEF StepOK
    <3>4. CASE \E where, n, p : WalkStep(t, where, n, p)
      <4>1. PICK where, n, p : WalkStep(t, where, n, p)
        BY <3>4
      <4>2. WalkOK(t)' /\ FoundOK(t)'
        BY <2>1, <3>1, <4>1, RefOwnWalk
      <4>3. pc[t] # "unlock" /\ where # "unlock" /\ Goto(t, where, n, p)
        BY <4>1 DEF WalkStep
      <4>4. UNCHANGED absVars
        BY <1>1, <2>1, <3>2, <4>3, MoveLin
      <4>5. QED
        BY <2>2, <3>1, <4>2, <4>4 DEF StepOK
    <3>5. QED
      BY <1>1, <2>4, <3>3, <3>4, RefMovesKinds
  <2>5. ASSUME NEW t \in Threads, RefLeave(t) PROVE RefLinInv' /\ Abs!Return(t)
    <3>1. StepOK(t) /\ UNCHANGED heap
      BY <1>1, <2>5, LeaveOK
    <3>2. LinkedKeys' = LinkedKeys
      BY <3>1 DEF heap, LinkedKeys
    <3>3. PICK r \in {0, 1} :
              /\ Finish(t, r)
              /\ \/ pc[t] = "unlock" /\ r = 1
                 \/ At(t, "add", "scan") /\ AtKey(t) /\ r = 0
                 \/ At(t, "remove", "scan") /\ AtEnd(t) /\ r = 0
                 \/ At(t, "contains", "scan") /\ AtEnd(t) /\ r = 0
      BY <2>5 DEF RefLeave, Leave
    <3>4. \/ pc[t] = "unlock" /\ r = 1
          \/ pc[t] # "unlock" /\ op[t] = "add" /\ r = 0 /\ 1 \in seen[t]
          \/ pc[t] # "unlock" /\ op[t] = "remove" /\ r = 0 /\ 0 \in seen[t]
          \/ op[t] = "contains" /\ r \in seen[t]
      BY <1>1, <3>3, WalkStops DEF At
    <3>5. op[t] # "none"
      BY <1>1, <3>3 DEF PlaceOK, At
    <3>6. Abs!Return(t)
      BY <1>1, <2>1, <3>2, <3>3, <3>4, <3>5, ReturnLin
    <3>7. pc'[t] = "idle" /\ op'[t] = "none"
      BY <1>1, <3>3 DEF Finish, FrameTypeOK
    <3>8. WalkOK(t)' /\ FoundOK(t)'
      BY <3>7 DEF WalkOK, FoundOK
    <3>9. QED
      BY <2>2, <3>1, <3>6, <3>8 DEF StepOK
  <2>6. ASSUME NEW t \in Threads, AddLink(t) \/ RemoveUnlink(t)
        PROVE  RefLinInv' /\ (Abs!Add(t) \/ Abs!Remove(t))
    <3>1. StepOK(t)
      BY <1>1, <2>6, WritesOK
    <3>2. /\ pc[t] = "scan" /\ Proceed(t, "unlock")
          /\ AddLink(t) => op[t] = "add"
          /\ RemoveUnlink(t) => op[t] = "remove"
      BY <2>6 DEF AddLink, RemoveUnlink, At
    <3>3. pc'[t] = "unlock" /\ op'[t] = op[t]
      BY <1>1, <3>2 DEF Proceed, Goto, FrameTypeOK
    <3>4. WalkOK(t)' /\ FoundOK(t)'
      BY <2>6, <3>2, <3>3 DEF WalkOK, FoundOK
    <3>5. \/ /\ op[t] = "add" /\ arg[t] \notin LinkedKeys
             /\ LinkedKeys' = LinkedKeys \cup {arg[t]}
          \/ /\ op[t] = "remove" /\ arg[t] \in LinkedKeys
             /\ LinkedKeys' = LinkedKeys \ {arg[t]}
      BY <1>1, <2>6, <3>2, WriteList
    <3>6. Abs!Add(t) \/ Abs!Remove(t)
      BY <1>1, <2>1, <3>2, <3>5, EffectLin
    <3>7. QED
      BY <2>2, <2>6, <3>1, <3>4, <3>6 DEF StepOK
  <2>7. ASSUME Done PROVE RefLinInv' /\ UNCHANGED absVars
    <3>1. /\ UNCHANGED heap /\ UNCHANGED <<op, arg, ret, pc>> /\ LinkedKeys' = LinkedKeys
      BY <2>7 DEF Done, vars, heap, LinkedKeys
    <3>2. UNCHANGED absVars
      BY <1>1, <2>1, <3>1, Stutter
    <3>3. seen' = seen
      BY <3>2 DEF absVars
    <3>4. \A t \in Threads : WalkOK(t)' /\ FoundOK(t)'
      BY <1>1, <2>7, <3>3
      DEF FoundOK, WalkOK, Way, WillMeet, WillMiss, MeetsKey, MissesKey, Done, vars
    <3>5. QED
      BY <1>3, <2>1, <3>2, <3>4 DEF RefLinInv
  <2>8. ASSUME NEW t \in Threads, RefStep(t)
        PROVE  RefLinInv' /\ (Abs!Add(t) \/ Abs!Remove(t) \/ Abs!Return(t) \/ UNCHANGED absVars)
    BY <2>4, <2>5, <2>6, <2>8, RefStepKinds DEF RefKinds
  <2>9. QED
    BY <1>2, <1>5, <2>3, <2>7, <2>8 DEF RefNext, Abs!Next
<1>6. QED
  BY <1>4, <1>5

(* setos.h holds of the other solution as well, as long as the first and   *)
(* the last node of the list stay.                                         *)
THEOREM FineRefLinearizable == EndsStay => (RefSpec => Linearizable)
<1>1. SUFFICES ASSUME EndsStay PROVE RefSpec => Linearizable
  OBVIOUS
<1>2. RefInit => RefLinInv /\ Abs!Init
  BY <1>1, InitRefLin
<1>3. RefLinInv /\ [RefNext]_<<vars, seen>> => RefLinInv' /\ [Abs!Next]_(Abs!vars)
  BY <1>1, RefNextLin
<1>4. QED
  BY <1>2, <1>3, PTL DEF RefSpec, Linearizable, Abs!Spec
=============================================================================
