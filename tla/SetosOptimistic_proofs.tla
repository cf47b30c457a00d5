----------------------- MODULE SetosOptimistic_proofs ----------------------
(***************************************************************************)
(* What is right about the optimistic set, for any number of threads, keys *)
(* and calls: links ascend, and a call holds the mutexes of the two nodes  *)
(* it works on exactly while it validates and writes, however often it     *)
(* starts over and whether or not pthread_mutex_init fails.  And what is   *)
(* right as long as one thread makes the calls that change the set: no     *)
(* node is lost, and the set is linearizable.                              *)
(***************************************************************************)
EXTENDS SetosOptimisticLin, SetosNode_proofs

Checking == {"check_node", "check_prev"}
Holding == {"check_node", "check_prev", "valid", "unlock"}
Places == {"start", "scan", "lock_node", "lock_prev"} \cup Holding

(* The pointers of t name linked nodes, in ascending order. *)
PointersOK(t) ==
    /\ node[t] \in (0..used) \cup {Null}
    /\ prev[t] \in (0..used) \cup {Null}
    /\ prev[t] # Null /\ node[t] # Null => key[prev[t]] < key[node[t]]

(* What its location says of its operation, key and pointers. *)
FrameOK(t) ==
    /\ op[t] = "none" <=> pc[t] = "idle"
    /\ op[t] # "none" => arg[t] \in Keys
    /\ op[t] = "add" /\ pc[t] # "start" =>
           /\ prev[t] = Null => node[t] = HeadNode /\ pc[t] = "scan"
           /\ prev[t] # Null => key[prev[t]] < arg[t]
           /\ pc[t] # "scan" /\ node[t] # Null => arg[t] < key[node[t]]
    /\ op[t] = "remove" /\ pc[t] # "start" =>
           /\ prev[t] # Null
           /\ pc[t] # "scan" => node[t] # Null
    /\ op[t] = "contains" => pc[t] \in {"start", "scan"}
    /\ pc[t] \in Checking => seek[t] # Null

(* The mutexes its location says it holds. *)
Expected(t) ==
    IF pc[t] \in Holding THEN {node[t], prev[t]} \ {Null}
    ELSE IF op[t] = "add" /\ pc[t] = "lock_prev" THEN {node[t]} \ {Null}
    ELSE IF op[t] = "remove" /\ pc[t] = "lock_node" THEN {prev[t]}
    ELSE {}

LocksExact == \A t \in Threads, n \in Node : lock[n] = t <=> n \in Expected(t)

Threadwise == \A t \in Threads : PointersOK(t) /\ FrameOK(t)

Inv == TypeOK /\ HeapOK /\ Threadwise /\ LocksExact

-----------------------------------------------------------------------------
(* setos_init leaves a sorted list and every mutex free. *)
LEMMA InitInv == Init => Inv
<1>1. SUFFICES ASSUME Init PROVE Inv
  OBVIOUS
<1>2. HeapOK
  BY <1>1, InitHeapOK DEF Init
<1>3. TypeOK
  BY <1>1, <1>2, NodeAssumption
  DEF Init, FrameInit, HeapOK, TypeOK, FrameTypeOK, Addr, NoResult
<1>4. Threadwise
  BY <1>1 DEF Init, FrameInit, Threadwise, PointersOK, FrameOK, Checking
<1>5. LocksExact
  BY <1>1, CallAssumption DEF Init, FrameInit, LocksExact, Expected, Holding
<1>6. QED
  BY <1>2, <1>3, <1>4, <1>5 DEF Inv

(* The facts about addresses every step needs. *)
LEMMA AddrFacts ==
    ASSUME Inv
    PROVE  /\ 0..used \subseteq Node /\ HeadNode \in 0..used /\ Null \notin Node
           /\ HeadNode \in Addr /\ Null \in Addr /\ (0..used) \cup {Null} \subseteq Addr
           /\ \A n \in 0..used : key[n] \in Int /\ next[n] \in (0..used) \cup {Null}
<1>1. HeapOK
  BY DEF Inv
<1>2. QED
  BY <1>1, HeapFacts DEF Addr

(* Thread t leaves what it does not own alone: the other threads' frames,  *)
(* the keys of the nodes that exist.                                       *)
Local(t) ==
    /\ \A u \in Threads \ {t} :
           /\ pc'[u] = pc[u] /\ op'[u] = op[u] /\ arg'[u] = arg[u]
           /\ node'[u] = node[u] /\ prev'[u] = prev[u] /\ seek'[u] = seek[u]
    /\ KeysKept

(* Of a step of t only what it does to t itself, to the heap and to the    *)
(* mutexes remains to be shown.                                            *)
LEMMA ThreadStep ==
    ASSUME Inv, NEW t \in Threads, Local(t), PointersOK(t)', FrameOK(t)'
    PROVE  Threadwise'
<1>1. SUFFICES ASSUME NEW u \in Threads \ {t} PROVE PointersOK(u)' /\ FrameOK(u)'
  BY DEF Threadwise
<1>2. PointersOK(u) /\ FrameOK(u) /\ used \in Nat
  BY DEF Inv, Threadwise, HeapOK, HeapTypeOK, Node
<1>3. PointersOK(u)'
  BY <1>2, AddrFacts DEF Local, KeysKept, PointersOK, Null
<1>4. FrameOK(u)'
  BY <1>2, AddrFacts DEF Local, KeysKept, FrameOK, PointersOK
<1>5. QED
  BY <1>3, <1>4

(* Thread t gives back the mutexes of S, which it held, and takes the free *)
(* ones of T.                                                              *)
LEMMA LockStep ==
    ASSUME Inv, NEW t \in Threads, Local(t), NEW S, NEW T,
           \A n \in Node : lock'[n] = IF n \in S THEN NoThread
                                      ELSE IF n \in T THEN t ELSE lock[n],
           \A n \in S : n \in Node => n \in Expected(t),
           \A n \in T : n \in Node => lock[n] = NoThread,
           \A n \in Node : n \in Expected(t)' <=> n \in T \/ (n \in Expected(t) /\ n \notin S)
    PROVE  LocksExact'
<1>1. SUFFICES ASSUME NEW u \in Threads, NEW n \in Node
               PROVE  lock'[n] = u <=> n \in Expected(u)'
  BY DEF LocksExact
<1>2. /\ lock[n] = u <=> n \in Expected(u)
      /\ lock[n] = t <=> n \in Expected(t)
      /\ u # NoThread /\ t # NoThread
  BY CallAssumption DEF Inv, LocksExact
<1>3. CASE u = t
  BY <1>2, <1>3
<1>4. CASE u # t
  <2>1. Expected(u)' = Expected(u)
    BY <1>4 DEF Local, Expected
  <2>2. QED
    BY <1>2, <1>4, <2>1
<1>5. QED
  BY <1>3, <1>4

-----------------------------------------------------------------------------
(* The frame of t after it moved on, returned or called. *)

Locks == [Node -> Threads \cup {NoThread}]

LEMMA ScanPlace == "scan" \in Places
BY DEF Places

(* A step within a call keeps the types, and disturbs no other thread. *)
LEMMA GotoFrame ==
    ASSUME Inv, HeapOK', KeysKept, lock' \in Locks, NEW t \in Threads,
           NEW v \in Addr, seek' = [seek EXCEPT ![t] = v],
           NEW where \in Places, NEW n \in Addr, NEW p \in Addr, Goto(t, where, n, p)
    PROVE  /\ TypeOK' /\ Local(t) /\ seek'[t] = v
           /\ pc'[t] = where /\ node'[t] = n /\ prev'[t] = p
           /\ op'[t] = op[t] /\ arg'[t] = arg[t]
BY DEF Inv, TypeOK, FrameTypeOK, HeapOK, Locks, Goto, Local, Places, Holding

(* So does a return. *)
LEMMA FinishFrame ==
    ASSUME Inv, HeapOK', KeysKept, lock' \in Locks, UNCHANGED seek,
           NEW t \in Threads, NEW r \in {0, 1}, Finish(t, r)
    PROVE  TypeOK' /\ Local(t) /\ PointersOK(t)' /\ FrameOK(t)' /\ Expected(t)' = {}
<1>1. /\ pc' = [pc EXCEPT ![t] = "idle"]
      /\ op' = [op EXCEPT ![t] = "none"]
      /\ arg' = [arg EXCEPT ![t] = IntMin]
      /\ node' = [node EXCEPT ![t] = Null]
      /\ prev' = [prev EXCEPT ![t] = Null]
      /\ ret' = [ret EXCEPT ![t] = r]
      /\ calls' = calls
  BY DEF Finish
<1>2. TypeOK' /\ Local(t)
  BY <1>1, NodeAssumption
  DEF Inv, TypeOK, FrameTypeOK, HeapOK, Locks, Local, Addr, NoResult
<1>3. pc'[t] = "idle" /\ op'[t] = "none" /\ node'[t] = Null /\ prev'[t] = Null
  BY <1>1 DEF Inv, TypeOK, FrameTypeOK
<1>4. QED
  BY <1>2, <1>3 DEF PointersOK, FrameOK, Expected, Holding, Checking

(* A step of t that leaves the mutexes alone, as its locations say. *)
LEMMA LocksStay ==
    ASSUME Inv, NEW t \in Threads, HeapOK', TypeOK', Local(t), UNCHANGED lock,
           PointersOK(t)', FrameOK(t)', Expected(t)' = Expected(t)
    PROVE  Inv'
<1>1. Threadwise'
  BY ThreadStep
<1>2. LocksExact'
  <2>1. PICK S, T : S = {} /\ T = {}
    OBVIOUS
  <2>2. \A m \in Node : lock'[m] = IF m \in S THEN NoThread
                                   ELSE IF m \in T THEN t ELSE lock[m]
    BY <2>1
  <2>3. QED
    BY <2>1, <2>2, LockStep
<1>3. QED
  BY <1>1, <1>2 DEF Inv

(* The facts a step starts from. *)
LEMMA ThreadFacts ==
    ASSUME Inv, NEW t \in Threads
    PROVE  /\ PointersOK(t) /\ FrameOK(t)
           /\ node[t] \in Addr /\ prev[t] \in Addr /\ seek[t] \in Addr
           /\ seek = [seek EXCEPT ![t] = seek[t]]
           /\ lock \in Locks
BY DEF Inv, Threadwise, TypeOK, FrameTypeOK, Locks

(* A step of the walk touches neither the mutexes nor `seek'. *)
LEMMA WalkFrame ==
    ASSUME Inv, HeapOK', KeysKept, UNCHANGED <<lock, seek>>, NEW t \in Threads,
           NEW where \in Places, NEW n \in Addr, NEW p \in Addr, Goto(t, where, n, p)
    PROVE  /\ TypeOK' /\ Local(t) /\ seek'[t] = seek[t]
           /\ pc'[t] = where /\ node'[t] = n /\ prev'[t] = p
           /\ op'[t] = op[t] /\ arg'[t] = arg[t]
<1>1. lock' \in Locks /\ seek[t] \in Addr /\ seek' = [seek EXCEPT ![t] = seek[t]]
  BY ThreadFacts
<1>2. QED
  BY <1>1, GotoFrame

-----------------------------------------------------------------------------
(* The steps. *)

(* A new call has read nothing yet. *)
LEMMA CallInv == ASSUME Inv, NEW t \in Threads, Call(t) PROVE Inv'
<1>1. PICK o \in Operations : Begin(t, o, "start", Null, Null)
  BY DEF Call
<1>2. HeapOK' /\ KeysKept /\ UNCHANGED <<heap, lock, seek>>
  BY HeapKept DEF Inv, Call
<1>3. PICK k \in Keys : arg' = [arg EXCEPT ![t] = k]
  BY <1>1 DEF Begin
<1>4. k \in Int
  BY CallAssumption
<1>5. TypeOK'
  BY <1>1, <1>2, <1>3, <1>4, AddrFacts
  DEF Begin, Inv, TypeOK, FrameTypeOK, HeapOK, NoResult
<1>6. /\ pc'[t] = "start" /\ op'[t] = o /\ arg'[t] = k /\ op[t] = "none"
      /\ node'[t] = Null /\ prev'[t] = Null
  BY <1>1, <1>3 DEF Begin, Inv, TypeOK, FrameTypeOK
<1>7. Local(t)
  BY <1>1, <1>2, <1>3 DEF Begin, Inv, TypeOK, FrameTypeOK, Local
<1>8. pc[t] = "idle"
  BY <1>6, ThreadFacts DEF FrameOK
<1>9. PointersOK(t)' /\ FrameOK(t)' /\ Expected(t)' = {} /\ Expected(t) = {}
  BY <1>6, <1>8 DEF PointersOK, FrameOK, Expected, Holding, Checking, Operations
<1>10. QED
  BY <1>2, <1>5, <1>7, <1>9, LocksStay

(* A walk starts, behind the sentinel or on it. *)
LEMMA StartInv ==
    ASSUME Inv, NEW t \in Threads, AddStart(t) \/ RemoveStart(t) \/ ContainsStart(t)
    PROVE  Inv'
<1>1. PICK n, p : /\ Goto(t, "scan", n, p) /\ pc[t] = "start"
                  /\ \/ op[t] = "add" /\ n = HeadNode /\ p = Null
                     \/ op[t] \in {"remove", "contains"} /\ n = next[HeadNode] /\ p = HeadNode
  BY DEF AddStart, RemoveStart, ContainsStart, Start, At
<1>2. HeapOK' /\ KeysKept /\ UNCHANGED <<heap, lock, seek>> /\ used' = used /\ key' = key
  BY HeapKept DEF Inv, heap, AddStart, RemoveStart, ContainsStart, Start
<1>3. /\ n \in (0..used) \cup {Null} /\ p \in (0..used) \cup {Null}
      /\ n \in Addr /\ p \in Addr
      /\ p # Null /\ n # Null => key[p] < key[n]
  BY <1>1, AddrFacts DEF Inv, HeapOK, SortedLinks
<1>4. /\ TypeOK' /\ Local(t)
      /\ pc'[t] = "scan" /\ node'[t] = n /\ prev'[t] = p
      /\ op'[t] = op[t] /\ arg'[t] = arg[t]
  BY <1>1, <1>2, <1>3, WalkFrame, ScanPlace
<1>5. HeadNode # Null
  BY DEF HeadNode, Null
<1>6. PointersOK(t)' /\ FrameOK(t)' /\ Expected(t)' = {} /\ Expected(t) = {}
  BY <1>1, <1>2, <1>3, <1>4, <1>5, ThreadFacts
  DEF PointersOK, FrameOK, Expected, Holding, Checking
<1>7. QED
  BY <1>2, <1>4, <1>6, LocksStay

(* prev = node; node = node->next: whatever `next' holds by now, its key   *)
(* is larger.                                                              *)
LEMMA AdvanceInv ==
    ASSUME Inv, NEW t \in Threads, AddStep(t) \/ RemoveStep(t) \/ ContainsStep(t)
    PROVE  Inv'
<1> DEFINE n == node[t]
<1>1. /\ Goto(t, "scan", next[n], n) /\ pc[t] = "scan" /\ n # Null
      /\ op[t] \in {"add", "remove", "contains"}
      /\ op[t] = "add" => key[n] < arg[t]
  BY DEF AddStep, RemoveStep, ContainsStep, Advance, At, BeforeKey, AtEnd
<1>2. HeapOK' /\ KeysKept /\ UNCHANGED <<heap, lock, seek>> /\ used' = used /\ key' = key
  BY HeapKept DEF Inv, heap, AddStep, RemoveStep, ContainsStep, Advance
<1>3. /\ n \in 0..used /\ next[n] \in (0..used) \cup {Null}
      /\ n \in Addr /\ next[n] \in Addr
      /\ next[n] # Null => key[n] < key[next[n]]
  BY <1>1, AddrFacts, ThreadFacts DEF PointersOK, Inv, HeapOK, SortedLinks
<1>4. /\ TypeOK' /\ Local(t)
      /\ pc'[t] = "scan" /\ node'[t] = next[n] /\ prev'[t] = n
      /\ op'[t] = op[t] /\ arg'[t] = arg[t]
  BY <1>1, <1>2, <1>3, WalkFrame, ScanPlace
<1>5. PointersOK(t)' /\ FrameOK(t)' /\ Expected(t)' = {} /\ Expected(t) = {}
  BY <1>1, <1>2, <1>3, <1>4, ThreadFacts
  DEF PointersOK, FrameOK, Expected, Holding, Checking
<1>6. QED
  BY <1>2, <1>4, <1>5, LocksStay

(* A call that holds no mutex returns. *)
LEMMA ReturnInv ==
    ASSUME Inv, NEW t \in Threads,
           \/ AddPresent(t) \/ AddInitFails(t) \/ RemoveAbsent(t)
           \/ ContainsFound(t) \/ ContainsAbsent(t)
    PROVE  Inv'
<1>1. PICK r \in {0, 1} : pc[t] = "scan" /\ Return(t, r)
  BY DEF AddPresent, AddInitFails, RemoveAbsent, ContainsFound, ContainsAbsent, At
<1>2. HeapOK' /\ KeysKept /\ UNCHANGED <<lock, seek>>
  BY <1>1, HeapKept DEF Inv, Return
<1>3. TypeOK' /\ Local(t) /\ PointersOK(t)' /\ FrameOK(t)' /\ Expected(t)' = {}
  BY <1>1, <1>2, ThreadFacts, FinishFrame DEF Return
<1>4. Expected(t) = {}
  BY <1>1 DEF Expected, Holding
<1>5. QED
  BY <1>2, <1>3, <1>4, LocksStay

(* The place is found, and the first mutex is waited for. *)
LEMMA FoundInv ==
    ASSUME Inv, NEW t \in Threads, AddFound(t) \/ RemoveFound(t) PROVE Inv'
<1>1. PICK where \in {"lock_node", "lock_prev"} :
          /\ Goto(t, where, node[t], prev[t]) /\ pc[t] = "scan"
          /\ \/ /\ op[t] = "add" /\ where = "lock_node"
                /\ ~BeforeKey(t) /\ ~AtKey(t)
             \/ op[t] = "remove" /\ where = "lock_prev" /\ node[t] # Null
  BY DEF AddFound, RemoveFound, At, Proceed, AtKey
<1>2. HeapOK' /\ KeysKept /\ UNCHANGED <<heap, lock, seek>> /\ used' = used /\ key' = key
  BY HeapKept DEF Inv, heap, AddFound, RemoveFound
<1>3. /\ TypeOK' /\ Local(t)
      /\ pc'[t] = where /\ node'[t] = node[t] /\ prev'[t] = prev[t]
      /\ op'[t] = op[t] /\ arg'[t] = arg[t]
  <2>1. where \in Places /\ node[t] \in Addr /\ prev[t] \in Addr
    BY ThreadFacts DEF Places
  <2>2. QED
    BY <1>1, <1>2, <2>1, WalkFrame
<1>4. op[t] = "add" => prev[t] # Null /\ (node[t] # Null => arg[t] < key[node[t]])
  <2>1. SUFFICES ASSUME op[t] = "add"
                 PROVE  prev[t] # Null /\ (node[t] # Null => arg[t] < key[node[t]])
    OBVIOUS
  <2>2. arg[t] \in Int /\ IntMin <= arg[t] /\ IntMin \in Int
    BY <2>1, ThreadFacts, CallAssumption, NodeAssumption DEF FrameOK
  <2>3. node[t] # Null => key[node[t]] \in Int
    BY AddrFacts, ThreadFacts DEF PointersOK
  <2>4. node[t] # Null => arg[t] < key[node[t]]
    BY <1>1, <2>1, <2>2, <2>3 DEF BeforeKey, AtKey
  <2>5. prev[t] # Null
    <3>1. SUFFICES ASSUME prev[t] = Null PROVE FALSE
      OBVIOUS
    <3>2. node[t] = HeadNode /\ key[HeadNode] = IntMin
      BY <1>1, <2>1, <3>1, ThreadFacts DEF FrameOK, Inv, HeapOK
    <3>3. QED
      BY <1>1, <2>1, <2>2, <3>2 DEF BeforeKey, AtKey, HeadNode, Null
  <2>6. QED
    BY <2>4, <2>5
<1>5. PointersOK(t)' /\ FrameOK(t)' /\ Expected(t)' = {} /\ Expected(t) = {}
  BY <1>1, <1>2, <1>3, <1>4, ThreadFacts
  DEF PointersOK, FrameOK, Expected, Holding, Checking
<1>6. QED
  BY <1>2, <1>3, <1>5, LocksStay

(* A thread that found its place keeps its pointers until it writes,       *)
(* returns or starts over.                                                 *)
LEMMA PlaceKept ==
    ASSUME Inv, NEW t \in Threads, UNCHANGED heap, lock' \in Locks,
           op[t] \in {"add", "remove"}, pc[t] \notin {"idle", "start", "scan"},
           NEW where \in {"lock_node", "lock_prev"} \cup Holding,
           NEW v \in Addr, seek' = [seek EXCEPT ![t] = v],
           where \in Checking => v # Null,
           Proceed(t, where)
    PROVE  /\ HeapOK' /\ TypeOK' /\ Threadwise' /\ Local(t)
           /\ pc'[t] = where /\ node'[t] = node[t] /\ prev'[t] = prev[t]
           /\ op'[t] = op[t]
<1>1. HeapOK' /\ KeysKept /\ used' = used /\ key' = key
  BY HeapKept DEF Inv, heap
<1>2. /\ where \in Places /\ node[t] \in Addr /\ prev[t] \in Addr
      /\ Goto(t, where, node[t], prev[t])
  BY ThreadFacts DEF Places, Proceed
<1>3. /\ TypeOK' /\ Local(t) /\ seek'[t] = v
      /\ pc'[t] = where /\ node'[t] = node[t] /\ prev'[t] = prev[t]
      /\ op'[t] = op[t] /\ arg'[t] = arg[t]
  BY <1>1, <1>2, GotoFrame
<1>4. PointersOK(t)' /\ FrameOK(t)'
  BY <1>1, <1>3, ThreadFacts DEF PointersOK, FrameOK, Holding, Checking
<1>5. QED
  BY <1>1, <1>3, <1>4, ThreadStep

(* DoLock(m) returns: t holds m, unless it is NULL, and what it held.      *)
LEMMA DoLockExact ==
    ASSUME Inv, NEW t \in Threads, Local(t), NEW m \in Addr, DoLock(t, m),
           Expected(t)' = Expected(t) \cup ({m} \ {Null})
    PROVE  LocksExact'
<1>1. PICK S, T : S = {} /\ T = {m}
  OBVIOUS
<1>2. /\ \A n \in Node : lock'[n] = IF n \in S THEN NoThread
                                    ELSE IF n \in T THEN t ELSE lock[n]
      /\ \A n \in T : n \in Node => lock[n] = NoThread
  BY <1>1, AddrFacts DEF DoLock, Inv, TypeOK
<1>3. \A n \in Node : n \in Expected(t)' <=> n \in T \/ (n \in Expected(t) /\ n \notin S)
  BY <1>1, AddrFacts
<1>4. QED
  BY <1>1, <1>2, <1>3, LockStep

(* DoUnlock(node); DoUnlock(prev), of two mutexes t holds. *)
LEMMA UnlockBothExact ==
    ASSUME Inv, NEW t \in Threads, Local(t), pc[t] \in Holding, DoUnlockBoth(t),
           Expected(t)' = {}
    PROVE  LocksExact'
<1>1. PICK S, T : S = {node[t], prev[t]} /\ T = {}
  OBVIOUS
<1>2. \A n \in Node : lock'[n] = IF n \in S THEN NoThread
                                 ELSE IF n \in T THEN t ELSE lock[n]
  BY <1>1 DEF DoUnlockBoth
<1>3. \A n \in S : n \in Node => n \in Expected(t)
  BY <1>1, AddrFacts DEF Expected
<1>4. \A n \in Node : n \in Expected(t) => n \in S
  BY <1>1 DEF Expected
<1>5. QED
  BY <1>1, <1>2, <1>3, <1>4, LockStep

LEMMA LockTypes ==
    ASSUME Inv, NEW t \in Threads, NEW m \in Addr, DoLock(t, m) \/ DoUnlockBoth(t)
    PROVE  lock' \in Locks
BY DEF DoLock, DoUnlockBoth, Inv, TypeOK, Locks

(* The first mutex. *)
LEMMA LockFirstInv ==
    ASSUME Inv, NEW t \in Threads, AddLockNode(t) \/ RemoveLockPrev(t) PROVE Inv'
<1>1. PICK m \in {node[t], prev[t]}, where \in {"lock_node", "lock_prev"} :
          /\ DoLock(t, m) /\ Proceed(t, where) /\ UNCHANGED <<heap, seek>>
          /\ \/ op[t] = "add" /\ pc[t] = "lock_node" /\ m = node[t] /\ where = "lock_prev"
             \/ op[t] = "remove" /\ pc[t] = "lock_prev" /\ m = prev[t] /\ where = "lock_node"
  BY DEF AddLockNode, RemoveLockPrev, At
<1>2. /\ m \in Addr /\ lock' \in Locks /\ seek[t] \in Addr
      /\ seek' = [seek EXCEPT ![t] = seek[t]] /\ where \notin Checking
  BY <1>1, ThreadFacts, LockTypes DEF Checking
<1>3. /\ HeapOK' /\ TypeOK' /\ Threadwise' /\ Local(t)
      /\ pc'[t] = where /\ node'[t] = node[t] /\ prev'[t] = prev[t]
      /\ op'[t] = op[t]
  BY <1>1, <1>2, PlaceKept
<1>4. op[t] = "remove" => prev[t] # Null
  BY <1>1, ThreadFacts DEF FrameOK
<1>5. Expected(t)' = Expected(t) \cup ({m} \ {Null})
  BY <1>1, <1>3, <1>4 DEF Expected, Holding
<1>6. LocksExact'
  BY <1>1, <1>2, <1>3, <1>5, DoLockExact
<1>7. QED
  BY <1>3, <1>6 DEF Inv

(* The validation goes on, or it is over and the nodes are written next. *)
Validating(t) ==
    \E where \in Holding, v \in Addr :
        /\ Proceed(t, where)
        /\ seek' = [seek EXCEPT ![t] = v]
        /\ where \in Checking => v # Null

LEMMA ValidatingSteps ==
    ASSUME Inv, NEW t \in Threads,
           \/ \E where \in Checking : StartCheck(t, where)
           \/ Validated(t)
           \/ CheckPrev(t)
    PROVE  Validating(t)
<1>1. HeadNode \in Addr /\ Null \in Addr /\ HeadNode # Null
  BY AddrFacts DEF HeadNode, Null
<1>2. QED
  BY <1>1 DEF StartCheck, Validated, CheckPrev, Validating, Holding, Checking

(* The second mutex, and the validation starts. *)
LEMMA LockSecondInv ==
    ASSUME Inv, NEW t \in Threads, AddLockPrev(t) \/ RemoveLockNode(t) PROVE Inv'
<1>1. PICK m \in {node[t], prev[t]} :
          /\ DoLock(t, m) /\ UNCHANGED heap
          /\ \/ op[t] = "add" /\ pc[t] = "lock_prev" /\ m = prev[t]
             \/ op[t] = "remove" /\ pc[t] = "lock_node" /\ m = node[t]
          /\ CheckPrev(t) \/ StartCheck(t, "check_node")
  BY DEF AddLockPrev, RemoveLockNode, At
<1>2. PICK where \in Holding, v \in Addr :
          /\ Proceed(t, where)
          /\ seek' = [seek EXCEPT ![t] = v]
          /\ where \in Checking => v # Null
  BY <1>1, ValidatingSteps DEF Validating, Checking
<1>3. m \in Addr /\ lock' \in Locks
  BY <1>1, ThreadFacts, LockTypes
<1>4. /\ HeapOK' /\ TypeOK' /\ Threadwise' /\ Local(t)
      /\ pc'[t] = where /\ node'[t] = node[t] /\ prev'[t] = prev[t]
      /\ op'[t] = op[t]
  BY <1>1, <1>2, <1>3, PlaceKept
<1>5. op[t] = "remove" => prev[t] # Null
  BY <1>1, ThreadFacts DEF FrameOK
<1>6. Expected(t)' = Expected(t) \cup ({m} \ {Null})
  BY <1>1, <1>4, <1>5 DEF Expected, Holding
<1>7. LocksExact'
  BY <1>1, <1>3, <1>4, <1>6, DoLockExact
<1>8. QED
  BY <1>4, <1>7 DEF Inv

(* A turn of the validation: it fails and the call starts over with no     *)
(* mutex; or the walk goes on, or succeeds, and both stay held.            *)
LEMMA CheckInv ==
    ASSUME Inv, NEW t \in Threads,
           AddCheckNode(t) \/ AddCheckPrev(t) \/ RemoveCheckNode(t)
    PROVE  Inv'
<1>1. /\ op[t] \in {"add", "remove"} /\ pc[t] \in Checking /\ UNCHANGED heap
      /\ \/ ValidateEnds(t)
         \/ \E k \in {key[node[t]], key[prev[t]], arg[t]} : ValidateStep(t, k)
         \/ (Validated(t) \/ CheckPrev(t)) /\ UNCHANGED lock
  BY DEF AddCheckNode, AddCheckPrev, RemoveCheckNode, At, Checking, ValidateEnds,
         ValidateStep, heap
<1>2. pc[t] \in Holding /\ pc[t] \notin {"idle", "start", "scan"}
  BY <1>1 DEF Holding, Checking
<1>3. CASE ValidateEnds(t)
  <2>1. /\ DoUnlockBoth(t) /\ Goto(t, "start", Null, Null)
        /\ seek' = [seek EXCEPT ![t] = Null]
    BY <1>3 DEF ValidateEnds
  <2>2. HeapOK' /\ KeysKept
    BY <1>1, HeapKept DEF Inv
  <2>3. "start" \in Places /\ Null \in Addr /\ lock' \in Locks
    BY <2>1, AddrFacts, LockTypes DEF Places
  <2>4. /\ TypeOK' /\ Local(t)
        /\ pc'[t] = "start" /\ node'[t] = Null /\ prev'[t] = Null
        /\ op'[t] = op[t] /\ arg'[t] = arg[t]
    BY <2>1, <2>2, <2>3, GotoFrame
  <2>5. PointersOK(t)' /\ FrameOK(t)' /\ Expected(t)' = {}
    BY <1>1, <2>4, ThreadFacts DEF PointersOK, FrameOK, Expected, Holding, Checking
  <2>6. Threadwise' /\ LocksExact'
    BY <1>2, <2>1, <2>4, <2>5, ThreadStep, UnlockBothExact
  <2>7. QED
    BY <2>2, <2>4, <2>6 DEF Inv
<1>4. CASE ~ValidateEnds(t)
  <2>1. Validating(t) /\ UNCHANGED lock
    <3>1. CASE Validated(t) \/ CheckPrev(t)
      BY <1>1, <1>4, <3>1, ValidatingSteps DEF ValidateStep
    <3>2. CASE \E k \in {key[node[t]], key[prev[t]], arg[t]} : ValidateStep(t, k)
      <4>1. /\ next[seek[t]] # Null /\ Proceed(t, pc[t]) /\ UNCHANGED lock
            /\ seek' = [seek EXCEPT ![t] = next[seek[t]]]
        BY <3>2 DEF ValidateStep
      <4>2. seek[t] # Null /\ seek[t] \in Addr
        BY <1>1, ThreadFacts DEF FrameOK
      <4>3. next[seek[t]] \in Addr
        BY <4>2 DEF Addr, Inv, TypeOK, HeapTypeOK
      <4>4. QED
        BY <1>2, <4>1, <4>3 DEF Validating
    <3>3. QED
      BY <1>1, <1>4, <3>1, <3>2
  <2>2. PICK where \in Holding, v \in Addr :
            /\ Proceed(t, where)
            /\ seek' = [seek EXCEPT ![t] = v]
            /\ where \in Checking => v # Null
    BY <2>1 DEF Validating
  <2>3. lock' \in Locks
    BY <2>1, ThreadFacts
  <2>4. /\ HeapOK' /\ TypeOK' /\ Threadwise' /\ Local(t)
        /\ pc'[t] = where /\ node'[t] = node[t] /\ prev'[t] = prev[t]
        /\ op'[t] = op[t]
    BY <1>1, <1>2, <2>2, <2>3, PlaceKept
  <2>5. Expected(t)' = Expected(t)
    BY <1>2, <2>4 DEF Expected
  <2>6. PointersOK(t)' /\ FrameOK(t)'
    BY <2>4 DEF Threadwise
  <2>7. QED
    BY <2>1, <2>4, <2>5, <2>6, LocksStay
<1>5. QED
  BY <1>3, <1>4

(* prev->next is written on the strength of the validation, both mutexes   *)
(* held: the two nodes need not be neighbours any more, but their keys     *)
(* are still on both sides of the key added, or in order.                  *)
LEMMA WriteInv ==
    ASSUME Inv, NEW t \in Threads, AddLink(t) \/ RemoveUnlink(t) PROVE Inv'
<1>1. /\ pc[t] = "valid" /\ op[t] \in {"add", "remove"}
      /\ Goto(t, "unlock", node[t], prev[t]) /\ UNCHANGED <<lock, seek>>
  BY DEF AddLink, RemoveUnlink, At, Proceed
<1>2. HeapOK' /\ KeysKept
  <2>1. CASE AddLink(t)
    <3>1. op[t] = "add" /\ Link(prev[t], node[t], arg[t])
      BY <2>1 DEF AddLink, At
    <3>2. arg[t] \in Int /\ IntMin <= arg[t]
      BY <3>1, ThreadFacts, CallAssumption DEF FrameOK
    <3>3. /\ prev[t] \in 0..used /\ node[t] \in (0..used) \cup {Null}
          /\ key[prev[t]] < arg[t] /\ (node[t] # Null => arg[t] < key[node[t]])
      BY <1>1, <3>1, ThreadFacts DEF PointersOK, FrameOK
    <3>4. QED
      BY <3>1, <3>2, <3>3, LinkHeap DEF Inv
  <2>2. CASE RemoveUnlink(t)
    <3>1. op[t] = "remove" /\ Unlink(prev[t], node[t])
      BY <2>2 DEF RemoveUnlink, At
    <3>2. prev[t] \in 0..used /\ node[t] \in 0..used /\ key[prev[t]] < key[node[t]]
      BY <1>1, <3>1, ThreadFacts DEF PointersOK, FrameOK
    <3>3. QED
      BY <3>1, <3>2, UnlinkHeap DEF Inv
  <2>3. QED
    BY <2>1, <2>2
<1>3. "unlock" \in Places /\ node[t] \in Addr /\ prev[t] \in Addr
  BY ThreadFacts DEF Places, Holding
<1>4. /\ TypeOK' /\ Local(t)
      /\ pc'[t] = "unlock" /\ node'[t] = node[t] /\ prev'[t] = prev[t]
      /\ op'[t] = op[t] /\ arg'[t] = arg[t]
  BY <1>1, <1>2, <1>3, WalkFrame
<1>5. used \in Nat /\ used' \in Nat /\ used <= used'
  BY <1>2 DEF KeysKept, Inv, HeapOK, HeapTypeOK, Node
<1>6. PointersOK(t)'
  BY <1>2, <1>4, <1>5, ThreadFacts DEF PointersOK, KeysKept, Null
<1>7. FrameOK(t)'
  BY <1>1, <1>2, <1>4, ThreadFacts DEF PointersOK, FrameOK, KeysKept, Checking
<1>8. Expected(t)' = Expected(t)
  BY <1>1, <1>4 DEF Expected, Holding
<1>9. QED
  BY <1>1, <1>2, <1>4, <1>6, <1>7, <1>8, LocksStay

LEMMA UnlockInv == ASSUME Inv, NEW t \in Threads, Unlock(t) PROVE Inv'
<1>1. pc[t] \in Holding /\ DoUnlockBoth(t) /\ Finish(t, 1) /\ UNCHANGED <<heap, seek>>
  BY DEF Unlock, Holding
<1>2. HeapOK' /\ KeysKept /\ lock' \in Locks
  BY <1>1, HeapKept, ThreadFacts, LockTypes DEF Inv
<1>3. TypeOK' /\ Local(t) /\ PointersOK(t)' /\ FrameOK(t)' /\ Expected(t)' = {}
  BY <1>1, <1>2, FinishFrame
<1>4. Threadwise' /\ LocksExact'
  BY <1>1, <1>3, ThreadStep, UnlockBothExact
<1>5. QED
  BY <1>2, <1>3, <1>4 DEF Inv

(* No step of any thread breaks the invariant. *)
LEMMA NextInv == Inv /\ [Next]_vars => Inv'
<1>1. SUFFICES ASSUME Inv, [Next]_vars PROVE Inv'
  OBVIOUS
<1>2. ASSUME NEW t \in Threads, Step(t) PROVE Inv'
  BY <1>1, <1>2, StartInv, AdvanceInv, ReturnInv, FoundInv, LockFirstInv, LockSecondInv,
     CheckInv, WriteInv, UnlockInv DEF Step
<1>3. CASE UNCHANGED vars
  BY <1>1, <1>3
  DEF Inv, vars, TypeOK, HeapTypeOK, FrameTypeOK, HeapOK, SortedLinks, Threadwise,
      PointersOK, FrameOK, LocksExact, Expected
<1>4. QED
  BY <1>1, <1>2, <1>3, CallInv DEF Next, Done

(* The invariant holds of every run of setos_optimistic.c. *)
THEOREM Invariance == Spec => []Inv
BY InitInv, NextInv, PTL DEF Spec

-----------------------------------------------------------------------------
(* Every value keeps its type. *)
THEOREM TypeCorrect == Spec => []TypeOK
<1>1. Inv => TypeOK
  BY DEF Inv
<1>2. QED
  BY <1>1, Invariance, PTL

(* Every pointer leads to a larger key, whatever pair of nodes a call      *)
(* validated and wrote to: no walk loops, the walks of the validations     *)
(* and those of the nodes taken out of the list included.                  *)
THEOREM AlwaysSorted == Spec => []SortedLinks
<1>1. Inv => SortedLinks
  BY DEF Inv, HeapOK
<1>2. QED
  BY <1>1, Invariance, PTL

(* A call holds the mutexes of the two nodes it validates and writes to,   *)
(* and of no other; no retry and no failing pthread_mutex_init leaks one.  *)
THEOREM NoLockLeaked == Spec => []LocksInFrame
<1>1. Inv => LocksInFrame
  <2>1. SUFFICES ASSUME Inv, NEW t \in Threads
                 PROVE  {n \in Node : lock[n] = t} =
                            IF pc[t] \in {"check_node", "check_prev", "valid", "unlock"}
                            THEN {node[t], prev[t]} \ {Null}
                            ELSE IF At(t, "add", "lock_prev") THEN {node[t]} \ {Null}
                            ELSE IF At(t, "remove", "lock_node") THEN {prev[t]}
                            ELSE {}
    BY DEF LocksInFrame
  <2>2. Expected(t) \subseteq Node
    BY <2>1, AddrFacts, ThreadFacts DEF Expected, PointersOK, FrameOK
  <2>3. {n \in Node : lock[n] = t} = Expected(t)
    BY <2>1, <2>2 DEF Inv, LocksExact
  <2>4. QED
    BY <2>3 DEF Expected, Holding, At
<1>2. QED
  BY <1>1, Invariance, PTL

(* A list node's `next' is written only by the thread that holds the       *)
(* node's mutex.                                                           *)
THEOREM WritesUnderLock == Spec => NextWrittenUnderLock
<1> DEFINE Guarded ==
        \A n \in 0..used : next'[n] # next[n] =>
            lock[n] # NoThread /\ pc'[lock[n]] # pc[lock[n]]
<1>1. Inv /\ [Next]_vars => [Guarded]_vars
  <2>1. SUFFICES ASSUME Inv, Next PROVE Guarded
    OBVIOUS
  <2>2. ASSUME UNCHANGED heap PROVE Guarded
    BY <2>2 DEF heap
  <2>3. ASSUME NEW t \in Threads, AddLink(t) \/ RemoveUnlink(t) PROVE Guarded
    <3>1. /\ pc[t] = "valid" /\ Proceed(t, "unlock")
          /\ Link(prev[t], node[t], arg[t]) \/ Unlink(prev[t], node[t])
      BY <2>3 DEF AddLink, RemoveUnlink, At
    <3>2. pc'[t] # pc[t]
      BY <2>1, <3>1 DEF Proceed, Goto, Inv, TypeOK, FrameTypeOK
    <3>3. SUFFICES ASSUME NEW n \in 0..used, next'[n] # next[n]
                   PROVE  lock[n] # NoThread /\ pc'[lock[n]] # pc[lock[n]]
      OBVIOUS
    <3>4. n # used + 1 /\ n \in Node /\ n # Null
      BY <2>1, AddrFacts DEF Inv, HeapOK, HeapTypeOK, Node
    <3>5. n = prev[t]
      BY <2>1, <3>1, <3>3, <3>4 DEF Link, Unlink, Inv, HeapOK, HeapTypeOK
    <3>6. lock[n] = t
      BY <2>1, <3>1, <3>4, <3>5 DEF Inv, LocksExact, Expected, Holding
    <3>7. QED
      BY <3>2, <3>6, CallAssumption
  <2>4. ASSUME NEW t \in Threads, Step(t), ~AddLink(t), ~RemoveUnlink(t)
        PROVE  UNCHANGED heap
    BY <2>4 DEF Step, AddStart, AddStep, AddPresent, AddFound, AddInitFails, AddLockNode,
        AddLockPrev, AddCheckNode, AddCheckPrev, RemoveStart, RemoveStep, RemoveAbsent,
        RemoveFound, RemoveLockPrev, RemoveLockNode, RemoveCheckNode, ContainsStart,
        ContainsStep, ContainsFound, ContainsAbsent, Unlock, Start, Advance, Return,
        ValidateEnds, ValidateStep, heap
  <2>5. ASSUME NEW t \in Threads, Call(t) PROVE UNCHANGED heap
    BY <2>5 DEF Call
  <2>6. Done => UNCHANGED heap
    BY DEF Done, vars, heap
  <2>7. QED
    BY <2>1, <2>2, <2>3, <2>4, <2>5, <2>6 DEF Next
<1>2. QED
  BY <1>1, Invariance, PTL DEF Spec, NextWrittenUnderLock
-----------------------------------------------------------------------------
(* The list stays whole as long as one thread writes.  The validation asks *)
(* whether the list holds the keys of prev and node, not whether the two   *)
(* are neighbours in it: with a second writer they need not be.            *)
Writing == {"add", "remove"}

OneThreadWrites ==
    \A t, u \in Threads :
        Workload[t] \cap Writing # {} /\ Workload[u] \cap Writing # {} => t = u

(* prev and node are neighbours in the list from the start of the walk     *)
(* until the list is changed.                                              *)
PairOK(t) ==
    /\ op[t] # "none" => op[t] \in Workload[t]
    /\ op[t] \in Writing /\ pc[t] \notin {"start", "unlock"} /\ prev[t] # Null
       => /\ prev[t] \in linked \cup {HeadNode}
          /\ node[t] = next[prev[t]]
          /\ op[t] = "remove" /\ pc[t] # "scan" => key[node[t]] = arg[t]

ListInv == Inv /\ ListOK /\ \A t \in Threads : PairOK(t)

LEMMA InitListInv == Init => ListInv
<1>1. SUFFICES ASSUME Init PROVE ListInv
  OBVIOUS
<1>2. Inv /\ ListOK
  BY <1>1, InitInv, InitListOK DEF Init
<1>3. \A t \in Threads : PairOK(t)
  BY <1>1 DEF Init, FrameInit, PairOK, Writing
<1>4. QED
  BY <1>2, <1>3 DEF ListInv

(* While a thread is in an add or a remove, no other is. *)
LEMMA Alone ==
    ASSUME OneThreadWrites, ListInv, NEW t \in Threads, op[t] \in Writing,
           NEW u \in Threads \ {t}
    PROVE  op[u] \notin Writing
<1>1. SUFFICES ASSUME op[u] \in Writing PROVE FALSE
  OBVIOUS
<1>2. op[t] \in Workload[t] /\ op[u] \in Workload[u]
  BY <1>1 DEF ListInv, PairOK, Writing
<1>3. QED
  BY <1>1, <1>2 DEF OneThreadWrites

(* What a step of t leaves to the other threads. *)
Others(t) ==
    \A u \in Threads \ {t} :
        /\ pc'[u] = pc[u] /\ op'[u] = op[u] /\ arg'[u] = arg[u]
        /\ node'[u] = node[u] /\ prev'[u] = prev[u]

LEMMA MoveFrame ==
    ASSUME Inv, NEW t \in Threads, NEW where, NEW n, NEW p, Goto(t, where, n, p)
    PROVE  /\ Others(t)
           /\ pc'[t] = where /\ node'[t] = n /\ prev'[t] = p
           /\ op'[t] = op[t] /\ arg'[t] = arg[t]
BY DEF Inv, TypeOK, FrameTypeOK, Goto, Others

LEMMA ReturnFrame ==
    ASSUME Inv, NEW t \in Threads, NEW r, Finish(t, r)
    PROVE  Others(t) /\ pc'[t] = "idle" /\ op'[t] = "none"
BY DEF Inv, TypeOK, FrameTypeOK, Finish, Others

LEMMA CallFrame ==
    ASSUME Inv, NEW t \in Threads, Call(t)
    PROVE  /\ Others(t) /\ UNCHANGED heap
           /\ pc'[t] = "start" /\ prev'[t] = Null /\ op'[t] # "none"
           /\ op'[t] \in Workload[t] /\ arg'[t] \in Keys /\ pc[t] = "idle"
           /\ \E o \in Operations : Begin(t, o, "start", Null, Null)
<1>1. PICK o \in Operations : Begin(t, o, "start", Null, Null) /\ UNCHANGED heap
  BY DEF Call
<1>2. PICK k \in Keys : arg' = [arg EXCEPT ![t] = k]
  BY <1>1 DEF Begin
<1>3. pc[t] = "idle"
  BY <1>1 DEF Begin, Inv, Threadwise, FrameOK
<1>4. QED
  BY <1>1, <1>2, <1>3 DEF Begin, Inv, TypeOK, FrameTypeOK, Others, Operations

(* A step that does not write to the list: only the pair of t can become   *)
(* wrong.                                                                  *)
LEMMA QuietStep ==
    ASSUME ListInv, Inv', UNCHANGED heap, NEW t \in Threads, Others(t), PairOK(t)'
    PROVE  ListInv' /\ LinkedKeys' = LinkedKeys
<1>1. ListOK' /\ LinkedKeys' = LinkedKeys
  BY DEF ListInv, ListOK, HeapTypeOK, KeysDistinct, Adjacent, LinkedKeys, heap
<1>2. ASSUME NEW u \in Threads \ {t} PROVE PairOK(u)'
  <2>1. PairOK(u)
    BY DEF ListInv
  <2>2. QED
    BY <2>1 DEF Others, PairOK, heap
<1>3. QED
  BY <1>1, <1>2 DEF ListInv

(* The pair a call is about to write to. *)
LEMMA WritePair ==
    ASSUME ListInv, NEW t \in Threads, AddLink(t) \/ RemoveUnlink(t)
    PROVE  /\ pc[t] = "valid" /\ Goto(t, "unlock", node[t], prev[t])
           /\ prev[t] \in linked \cup {HeadNode} /\ arg[t] \in Int
           /\ AddLink(t) => /\ op[t] = "add" /\ ~RemoveUnlink(t)
                            /\ key[prev[t]] < arg[t]
                            /\ next[prev[t]] # Null => arg[t] < key[next[prev[t]]]
                            /\ Link(prev[t], next[prev[t]], arg[t])
           /\ RemoveUnlink(t) => /\ op[t] = "remove"
                                 /\ next[prev[t]] # Null /\ key[next[prev[t]]] = arg[t]
                                 /\ Unlink(prev[t], next[prev[t]])
<1>1. /\ pc[t] = "valid" /\ op[t] \in Writing /\ Goto(t, "unlock", node[t], prev[t])
      /\ AddLink(t) => op[t] = "add" /\ Link(prev[t], node[t], arg[t])
      /\ RemoveUnlink(t) => op[t] = "remove" /\ Unlink(prev[t], node[t])
  BY DEF AddLink, RemoveUnlink, At, Proceed, Writing
<1>2. PointersOK(t) /\ FrameOK(t) /\ PairOK(t)
  BY DEF ListInv, Inv, Threadwise
<1>3. /\ prev[t] # Null /\ arg[t] \in Int
      /\ op[t] = "add" => /\ key[prev[t]] < arg[t]
                          /\ node[t] # Null => arg[t] < key[node[t]]
      /\ op[t] = "remove" => node[t] # Null
  BY <1>1, <1>2, CallAssumption DEF FrameOK, Writing
<1>4. /\ prev[t] \in linked \cup {HeadNode} /\ node[t] = next[prev[t]]
      /\ op[t] = "remove" => key[node[t]] = arg[t]
  BY <1>1, <1>2, <1>3 DEF PairOK
<1>5. QED
  BY <1>1, <1>3, <1>4

(* What both writes do to the list. *)
LEMMA WriteList ==
    ASSUME ListInv, NEW t \in Threads, AddLink(t) \/ RemoveUnlink(t)
    PROVE  /\ ListOK'
           /\ AddLink(t) => /\ arg[t] \notin LinkedKeys
                            /\ LinkedKeys' = LinkedKeys \cup {arg[t]}
           /\ RemoveUnlink(t) => /\ arg[t] \in LinkedKeys
                                 /\ LinkedKeys' = LinkedKeys \ {arg[t]}
<1> DEFINE p == prev[t]
<1>1. p \in linked \cup {HeadNode} /\ arg[t] \in Int /\ ListOK
  BY WritePair DEF ListInv
<1>2. CASE AddLink(t)
  <2>1. /\ key[p] < arg[t]
        /\ next[p] # Null => arg[t] < key[next[p]]
        /\ Link(p, next[p], arg[t])
        /\ ~RemoveUnlink(t)
    BY <1>2, WritePair
  <2>2. ListOK' /\ LinkedKeys' = LinkedKeys \cup {arg[t]}
    BY <1>1, <2>1, LinkListOK
  <2>3. arg[t] \notin LinkedKeys
    BY <1>1, <2>1, Between
  <2>4. QED
    BY <2>1, <2>2, <2>3
<1>3. CASE RemoveUnlink(t)
  <2>1. next[p] # Null /\ key[next[p]] = arg[t] /\ Unlink(p, next[p]) /\ ~AddLink(t)
    BY <1>3, WritePair
  <2>2. ListOK' /\ LinkedKeys' = LinkedKeys \ {arg[t]}
    BY <1>1, <2>1, UnlinkListOK
  <2>3. arg[t] \in LinkedKeys
    BY <1>1, <2>1 DEF LinkedKeys, ListOK, Adjacent
  <2>4. QED
    BY <2>1, <2>2, <2>3
<1>4. QED
  BY <1>2, <1>3

(* The writer has no rival whose pair could be torn. *)
LEMMA WriteListInv ==
    ASSUME OneThreadWrites, ListInv, Inv', NEW t \in Threads, AddLink(t) \/ RemoveUnlink(t)
    PROVE  ListInv' /\ Others(t) /\ pc'[t] = "unlock" /\ op'[t] = op[t]
<1>1. Goto(t, "unlock", node[t], prev[t]) /\ op[t] \in Writing /\ Inv /\ PairOK(t)
  BY WritePair DEF ListInv, Writing
<1>2. Others(t) /\ pc'[t] = "unlock" /\ op'[t] = op[t]
  BY <1>1, MoveFrame
<1>3. ASSUME NEW u \in Threads \ {t} PROVE PairOK(u)'
  <2>1. op[u] \notin Writing /\ op'[u] = op[u] /\ PairOK(u)
    BY <1>1, <1>2, Alone DEF Others, ListInv
  <2>2. QED
    BY <2>1 DEF PairOK
<1>4. PairOK(t)'
  BY <1>1, <1>2 DEF PairOK
<1>5. ListOK'
  BY WriteList
<1>6. QED
  BY <1>2, <1>3, <1>4, <1>5 DEF ListInv

(* The kinds of the steps that do not write to the list. *)
QuietMove(t) ==
    /\ UNCHANGED heap
    /\ pc[t] # "unlock" /\ op[t] # "none"
    /\ \/ op[t] = "add" /\ Goto(t, "scan", HeadNode, Null)
       \/ /\ op[t] \in {"remove", "contains"} /\ pc[t] = "start"
          /\ Goto(t, "scan", next[HeadNode], HeadNode)
       \/ /\ pc[t] = "scan" /\ node[t] # Null
          /\ op[t] # "add" => key[node[t]] # arg[t]
          /\ Goto(t, "scan", next[node[t]], node[t])
       \/ /\ op[t] \in Writing /\ pc[t] # "start"
          /\ op[t] = "remove" /\ pc[t] = "scan" => AtKey(t)
          /\ \E where \in (Places \ {"start", "scan", "unlock"}) :
                 Goto(t, where, node[t], prev[t])
       \/ op[t] \in Writing /\ Goto(t, "start", Null, Null)

QuietReturn(t) ==
    /\ UNCHANGED heap
    /\ op[t] # "none"
    /\ \E r \in {0, 1} :
           /\ Finish(t, r)
           /\ \/ pc[t] = "unlock" /\ r = 1
              \/ At(t, "add", "scan") /\ r = 0 /\ AtKey(t)
              \/ At(t, "remove", "scan") /\ r = 0 /\ AtEnd(t)
              \/ At(t, "contains", "scan") /\ r = 1 /\ AtKey(t)
              \/ At(t, "contains", "scan") /\ r = 0 /\ AtEnd(t)
              \/ AddInitFails(t)

LEMMA CheckKinds ==
    ASSUME NEW t \in Threads, op[t] \in Writing, pc[t] \in Places \ {"start", "scan", "unlock"},
           UNCHANGED heap,
           \/ \E where \in Checking : StartCheck(t, where)
           \/ CheckPrev(t) \/ Validated(t) \/ ValidateEnds(t)
           \/ pc[t] \in Checking /\ \E k : ValidateStep(t, k)
    PROVE  QuietMove(t)
<1>1. \/ Goto(t, "start", Null, Null)
      \/ \E where \in (Places \ {"start", "scan", "unlock"}) :
             Goto(t, where, node[t], prev[t])
  BY DEF StartCheck, CheckPrev, Validated, ValidateEnds, ValidateStep, Proceed, Places,
         Holding, Checking
<1>2. QED
  BY <1>1 DEF QuietMove, Writing, Places, Holding

LEMMA StepKinds ==
    ASSUME Inv, NEW t \in Threads, Step(t)
    PROVE  QuietMove(t) \/ QuietReturn(t) \/ AddLink(t) \/ RemoveUnlink(t)
<1>1. FrameOK(t)
  BY ThreadFacts
<1>2. CASE AddStart(t) \/ RemoveStart(t) \/ ContainsStart(t)
  BY <1>2 DEF AddStart, RemoveStart, ContainsStart, Start, At, QuietMove
<1>3. CASE AddStep(t) \/ RemoveStep(t) \/ ContainsStep(t)
  BY <1>3 DEF AddStep, RemoveStep, ContainsStep, Advance, At, BeforeKey, AtEnd, AtKey, QuietMove
<1>4. CASE \/ AddFound(t) \/ RemoveFound(t) \/ AddLockNode(t) \/ RemoveLockPrev(t)
  BY <1>4 DEF AddFound, RemoveFound, AddLockNode, RemoveLockPrev, At, Proceed, QuietMove,
              Writing, Places, Holding
<1>5. CASE AddLockPrev(t) \/ RemoveLockNode(t)
  <2>1. /\ op[t] \in Writing /\ pc[t] \in Places \ {"start", "scan", "unlock"}
        /\ UNCHANGED heap /\ (CheckPrev(t) \/ StartCheck(t, "check_node"))
    BY <1>5 DEF AddLockPrev, RemoveLockNode, At, Writing, Places, Holding
  <2>2. QED
    BY <2>1, CheckKinds DEF Checking
<1>6. CASE AddCheckNode(t) \/ AddCheckPrev(t) \/ RemoveCheckNode(t)
  <2>1. /\ op[t] \in Writing /\ pc[t] \in Checking
        /\ UNCHANGED heap
        /\ \/ CheckPrev(t) \/ Validated(t) \/ ValidateEnds(t)
           \/ \E k : ValidateStep(t, k)
    BY <1>6 DEF AddCheckNode, AddCheckPrev, RemoveCheckNode, At, Writing, Checking,
                ValidateEnds, ValidateStep, heap
  <2>2. pc[t] \in Places \ {"start", "scan", "unlock"}
    BY <2>1 DEF Places, Holding, Checking
  <2>3. QED
    BY <2>1, <2>2, CheckKinds
<1>7. CASE \/ AddPresent(t) \/ RemoveAbsent(t) \/ ContainsFound(t) \/ ContainsAbsent(t)
           \/ AddInitFails(t)
  BY <1>7 DEF AddPresent, RemoveAbsent, ContainsFound, ContainsAbsent, AddInitFails,
              Return, At, QuietReturn
<1>8. CASE Unlock(t)
  BY <1>1, <1>8 DEF Unlock, FrameOK, QuietReturn
<1>9. QED
  BY <1>2, <1>3, <1>4, <1>5, <1>6, <1>7, <1>8 DEF Step

(* The pair after a step that does not write. *)
LEMMA QuietMoveInv ==
    ASSUME ListInv, Inv', NEW t \in Threads, QuietMove(t)
    PROVE  /\ ListInv' /\ LinkedKeys' = LinkedKeys
           /\ Others(t) /\ op'[t] = op[t] /\ arg'[t] = arg[t]
<1>1. /\ PairOK(t) /\ FrameOK(t) /\ UNCHANGED heap
      /\ HeadNode # Null /\ Inv /\ pc[t] # "unlock"
  BY DEF ListInv, Inv, Threadwise, QuietMove, HeadNode, Null
<1>2. next' = next /\ linked' = linked /\ key' = key
  BY <1>1 DEF heap
<1>3. PICK where, n, p : Goto(t, where, n, p)
  BY DEF QuietMove
<1>4. /\ Others(t) /\ op'[t] = op[t] /\ arg'[t] = arg[t]
  BY <1>1, <1>3, MoveFrame
<1>5. PairOK(t)'
  <2>1. CASE op[t] \notin Writing
    BY <1>1, <1>4, <2>1 DEF PairOK
  <2>2. CASE op[t] = "add" /\ Goto(t, "scan", HeadNode, Null)
    <3>1. prev'[t] = Null
      BY <1>1, <2>2, MoveFrame
    <3>2. QED
      BY <1>1, <1>4, <3>1 DEF PairOK
  <2>3. CASE op[t] = "remove" /\ Goto(t, "scan", next[HeadNode], HeadNode)
    <3>1. pc'[t] = "scan" /\ node'[t] = next[HeadNode] /\ prev'[t] = HeadNode
      BY <1>1, <2>3, MoveFrame
    <3>2. QED
      BY <1>1, <1>2, <1>4, <3>1 DEF PairOK
  <2>4. CASE /\ op[t] \in Writing /\ pc[t] = "scan" /\ node[t] # Null
             /\ Goto(t, "scan", next[node[t]], node[t])
    <3>1. pc'[t] = "scan" /\ node'[t] = next[node[t]] /\ prev'[t] = node[t]
      BY <1>1, <2>4, MoveFrame
    <3>2. node[t] \in linked \cup {HeadNode}
      BY <1>1, <2>4 DEF PairOK, FrameOK, ListInv, ListOK, Adjacent, Writing
    <3>3. QED
      BY <1>1, <1>2, <1>4, <3>1, <3>2 DEF PairOK
  <2>5. CASE \E l \in (Places \ {"start", "scan", "unlock"}) :
                 /\ op[t] \in Writing /\ pc[t] # "start"
                 /\ op[t] = "remove" /\ pc[t] = "scan" => AtKey(t)
                 /\ Goto(t, l, node[t], prev[t])
    <3>1. node'[t] = node[t] /\ prev'[t] = prev[t]
      BY <1>1, <2>5, MoveFrame
    <3>2. QED
      BY <1>1, <1>2, <1>4, <2>5, <3>1 DEF PairOK, AtKey
  <2>6. CASE Goto(t, "start", Null, Null)
    <3>1. pc'[t] = "start"
      BY <1>1, <2>6, MoveFrame
    <3>2. QED
      BY <1>1, <1>4, <3>1 DEF PairOK
  <2>7. QED
    BY <2>1, <2>2, <2>3, <2>4, <2>5, <2>6 DEF QuietMove, Writing
<1>6. QED
  BY <1>1, <1>4, <1>5, QuietStep

(* A return leaves no pair behind, and a call starts with none. *)
LEMMA QuietReturnInv ==
    ASSUME ListInv, Inv', NEW t \in Threads, QuietReturn(t)
    PROVE  ListInv' /\ LinkedKeys' = LinkedKeys /\ Others(t) /\ op'[t] = "none"
<1>1. PICK r \in {0, 1} : Finish(t, r) /\ UNCHANGED heap
  BY DEF QuietReturn
<1>2. Others(t) /\ op'[t] = "none"
  BY <1>1, ReturnFrame DEF ListInv
<1>3. PairOK(t)'
  BY <1>2 DEF PairOK, Writing
<1>4. QED
  BY <1>1, <1>2, <1>3, QuietStep

LEMMA CallListInv ==
    ASSUME ListInv, Inv', NEW t \in Threads, Call(t)
    PROVE  /\ ListInv' /\ LinkedKeys' = LinkedKeys /\ UNCHANGED heap
           /\ Others(t) /\ pc'[t] = "start"
<1>1. /\ Others(t) /\ UNCHANGED heap
      /\ pc'[t] = "start" /\ op'[t] \in Workload[t]
  BY CallFrame DEF ListInv
<1>2. PairOK(t)'
  BY <1>1 DEF PairOK
<1>3. QED
  BY <1>1, <1>2, QuietStep

LEMMA ListNextInv == OneThreadWrites /\ ListInv /\ [Next]_vars => ListInv'
<1>1. SUFFICES ASSUME OneThreadWrites, ListInv, [Next]_vars PROVE ListInv'
  OBVIOUS
<1>2. Inv /\ Inv'
  BY <1>1, NextInv DEF ListInv
<1>3. ASSUME NEW t \in Threads, Step(t) PROVE ListInv'
  BY <1>1, <1>2, <1>3, StepKinds, QuietMoveInv, QuietReturnInv, WriteListInv
<1>4. ASSUME NEW t \in Threads, Call(t) PROVE ListInv'
  BY <1>1, <1>2, <1>4, CallListInv
<1>5. CASE UNCHANGED vars
  BY <1>1, <1>2, <1>5
  DEF vars, ListInv, ListOK, HeapTypeOK, KeysDistinct, Adjacent, PairOK
<1>6. QED
  BY <1>1, <1>3, <1>4, <1>5 DEF Next, Done

LEMMA ListInvariance == OneThreadWrites => (Spec => []ListInv)
<1>1. SUFFICES ASSUME OneThreadWrites PROVE Spec => []ListInv
  OBVIOUS
<1>2. ListInv /\ [Next]_vars => ListInv'
  BY <1>1, ListNextInv
<1>3. QED
  BY <1>2, InitListInv, PTL DEF Spec

(* No node is lost and none comes back, as long as one thread makes the    *)
(* calls that change the list: what the validation checks is then enough.  *)
THEOREM NoNodeLost == OneThreadWrites => (Spec => []NoLostNode)
<1>1. SUFFICES ASSUME OneThreadWrites PROVE Spec => []NoLostNode
  OBVIOUS
<1>2. ListInv => NoLostNode
  BY NothingLost DEF ListInv
<1>3. Spec => []ListInv
  BY <1>1, ListInvariance
<1>4. QED
  BY <1>2, <1>3, PTL
-----------------------------------------------------------------------------
(* Linearizability, as long as one thread writes, no key equals the        *)
(* sentinel's and no mutex fails to initialise (setos_add would return 1   *)
(* without having added its key).                                          *)
NoSentinelKey == \A k \in Keys : IntMin < k

(* A remove walks to the end of the list past larger keys: once it is past *)
(* the place of its key, it has seen it absent.  A contains takes no lock, *)
(* and may be on nodes that are out of the list.                           *)
WalkOK(t) ==
    /\ op[t] = "remove" /\ pc[t] \notin {"start", "unlock"} =>
           0 \in seen[t] \/ key[prev[t]] < arg[t]
    /\ op[t] = "contains" /\ pc[t] = "scan" => Way(node[t], arg[t], seen[t])

LinInv == ListInv /\ HistoryOK /\ \A t \in Threads : WalkOK(t)

Located == {"idle", "start", "scan", "lock_node", "lock_prev", "check_node",
            "check_prev", "valid", "unlock"}

(* The frames have the types the lemmas about the history ask for. *)
LEMMA Frame ==
    ASSUME LinInv
    PROVE  /\ Inv /\ ListOK /\ HeapTypeOK /\ FrameTypeOK(Located) /\ HistoryOK
           /\ \A t \in Threads : PointersOK(t) /\ FrameOK(t) /\ PairOK(t) /\ WalkOK(t)
BY DEF LinInv, ListInv, Inv, TypeOK, Located, ListOK, Threadwise

LEMMA InitLin == LinInit => LinInv /\ Abs!Init
<1>1. SUFFICES ASSUME LinInit PROVE LinInv /\ Abs!Init
  OBVIOUS
<1>2. ListInv
  BY <1>1, InitListInv DEF LinInit
<1>3. HistoryOK /\ Abs!Init
  BY <1>1, InitHistory DEF LinInit, Init
<1>4. \A t \in Threads : WalkOK(t)
  BY <1>1 DEF LinInit, Init, FrameInit, WalkOK
<1>5. QED
  BY <1>2, <1>3, <1>4 DEF LinInv

(* The key of a call, and the answer it has seen last. *)
LEMMA ArgFacts ==
    ASSUME LinInv, NoSentinelKey, NEW t \in Threads, op[t] # "none"
    PROVE  /\ arg[t] \in Int /\ IntMin < arg[t] /\ arg[t] # IntMin
           /\ Answer(arg[t], LinkedKeys) \in seen[t]
<1>1. arg[t] \in Keys
  BY Frame DEF FrameOK
<1>2. arg[t] \in Int /\ IntMin < arg[t]
  BY <1>1, CallAssumption DEF NoSentinelKey
<1>3. QED
  BY <1>2, NodeAssumption DEF LinInv, HistoryOK

(* No step takes another thread off its walk: a write is no rival's write, *)
(* for a rival in an add or a remove there is none.                        *)
LEMMA OtherWalks ==
    ASSUME LinInv, NoSentinelKey, HistoryOK', Observe,
           NEW t \in Threads, Others(t),
           UNCHANGED heap \/ AddLink(t) \/ RemoveUnlink(t),
           NEW u \in Threads \ {t}
    PROVE  WalkOK(u)'
<1>1. /\ pc'[u] = pc[u] /\ op'[u] = op[u] /\ arg'[u] = arg[u]
      /\ node'[u] = node[u] /\ prev'[u] = prev[u]
  BY DEF Others
<1>2. seen[u] \subseteq seen'[u]
  BY <1>1, HistoryNext DEF LinInv
<1>3. \A n \in 0..used : key'[n] = key[n]
  <2>1. used \in Nat /\ key \in [Node -> Int] /\ 0..used \subseteq Node
    BY Frame, AddrFacts DEF HeapTypeOK, Node
  <2>2. CASE UNCHANGED heap
    BY <2>2 DEF heap
  <2>3. CASE AddLink(t)
    BY <2>1, <2>3 DEF AddLink, Link
  <2>4. CASE RemoveUnlink(t)
    BY <2>4 DEF RemoveUnlink, Unlink
  <2>5. QED
    BY <2>2, <2>3, <2>4
<1>4. PointersOK(u) /\ FrameOK(u) /\ WalkOK(u)
  BY Frame
<1>5. ASSUME op[u] = "remove", pc[u] \notin {"start", "unlock"}
      PROVE  0 \in seen'[u] \/ key'[prev[u]] < arg[u]
  <2>1. prev[u] \in 0..used
    BY <1>4, <1>5 DEF PointersOK, FrameOK
  <2>2. QED
    BY <1>2, <1>3, <1>4, <1>5, <2>1 DEF WalkOK
<1>6. ASSUME op[u] = "contains", pc[u] = "scan"
      PROVE  Way(node[u], arg[u], seen[u])'
  <2>1. PICK k, n, s, ss : k = arg[u] /\ n = node[u] /\ s = seen[u] /\ ss = seen'[u]
    OBVIOUS
  <2>2. /\ k \in Int /\ s \subseteq ss /\ Way(n, k, s)
        /\ Answer(k, LinkedKeys) \in s
    BY <1>2, <1>4, <1>6, <2>1, ArgFacts DEF WalkOK
  <2>3. Answer(k, LinkedKeys') \in ss
    <3>1. Answer(arg'[u], LinkedKeys') \in seen'[u]
      BY <1>1, <1>6 DEF HistoryOK
    <3>2. QED
      BY <1>1, <2>1, <3>1
  <2>4. (0 \notin ss => WillMeet(n, k)') /\ (1 \notin ss => WillMiss(n, k)')
    <3>1. CASE UNCHANGED heap
      BY <2>2, <3>1, WayStays
    <3>2. CASE AddLink(t) \/ RemoveUnlink(t)
      <4>1. PICK p, x : p = prev[t] /\ x = arg[t]
        OBVIOUS
      <4>2. /\ p \in linked \cup {HeadNode} /\ x \in Int
            /\ \/ /\ key[p] < x /\ (next[p] # Null => x < key[next[p]])
                  /\ Link(p, next[p], x)
               \/ next[p] # Null /\ Unlink(p, next[p])
        BY <3>2, <4>1, WritePair DEF LinInv
      <4>3. ListOK
        BY Frame
      <4>4. QED
        BY <2>2, <2>3, <4>2, <4>3, WayKept
    <3>3. QED
      BY <3>1, <3>2
  <2>5. QED
    BY <1>1, <2>1, <2>4, WayNext
<1>7. QED
  BY <1>1, <1>5, <1>6 DEF WalkOK

(* A walk starts, goes on, stands still, or is given up. *)
LEMMA OwnWalk ==
    ASSUME LinInv, NoSentinelKey, HistoryOK', Observe, NEW t \in Threads, QuietMove(t)
    PROVE  WalkOK(t)'
<1>1. /\ Inv /\ ListOK /\ HeapTypeOK
      /\ PointersOK(t) /\ FrameOK(t) /\ PairOK(t) /\ WalkOK(t)
      /\ UNCHANGED heap /\ key' = key /\ HeadNode # Null
      /\ pc[t] # "unlock" /\ op[t] # "none"
  BY Frame DEF QuietMove, heap, HeadNode, Null
<1>2. op'[t] = op[t] /\ arg'[t] = arg[t]
  BY <1>1, MoveFrame DEF QuietMove
<1>3. seen[t] \subseteq seen'[t]
  BY <1>2, HistoryNext DEF LinInv
<1>4. /\ arg[t] \in Int /\ IntMin < arg[t] /\ arg[t] # IntMin
      /\ Answer(arg[t], LinkedKeys) \in seen[t]
      /\ key[HeadNode] = IntMin
  BY <1>1, ArgFacts DEF ListOK, KeysDistinct
<1>5. CASE op[t] \notin {"remove", "contains"}
  BY <1>2, <1>5 DEF WalkOK
<1>6. CASE op[t] = "remove"
  <2>1. CASE Goto(t, "scan", next[HeadNode], HeadNode)
    <3>1. prev'[t] = HeadNode
      BY <1>1, <2>1, MoveFrame
    <3>2. QED
      BY <1>1, <1>2, <1>4, <1>6, <3>1 DEF WalkOK
  <2>2. CASE /\ pc[t] = "scan" /\ node[t] # Null /\ key[node[t]] # arg[t]
             /\ Goto(t, "scan", next[node[t]], node[t])
    <3>1. prev'[t] = node[t]
      BY <1>1, <2>2, MoveFrame
    <3>2. /\ prev[t] \in linked \cup {HeadNode} /\ node[t] = next[prev[t]]
          /\ key[node[t]] \in Int
      BY <1>1, <1>6, <2>2, AddrFacts DEF PairOK, FrameOK, PointersOK, Writing
    <3>3. CASE key[node[t]] < arg[t]
      BY <1>1, <1>2, <1>6, <3>1, <3>3 DEF WalkOK
    <3>4. CASE 0 \in seen[t]
      BY <1>2, <1>3, <1>6, <3>4 DEF WalkOK
    <3>5. CASE 0 \notin seen[t] /\ ~(key[node[t]] < arg[t])
      <4>1. key[prev[t]] < arg[t] /\ arg[t] < key[next[prev[t]]]
        BY <1>1, <1>4, <1>6, <2>2, <3>2, <3>5 DEF WalkOK
      <4>2. arg[t] \notin LinkedKeys
        BY <1>1, <1>4, <3>2, <4>1, Between
      <4>3. QED
        BY <1>6, <3>5, <4>2, SeenNow DEF LinInv
    <3>6. QED
      BY <3>3, <3>4, <3>5
  <2>3. CASE \E l : pc[t] # "start" /\ Goto(t, l, node[t], prev[t])
    <3>1. prev'[t] = prev[t]
      BY <1>1, <2>3, MoveFrame
    <3>2. QED
      BY <1>1, <1>2, <1>3, <1>6, <2>3, <3>1 DEF WalkOK
  <2>4. CASE Goto(t, "start", Null, Null)
    <3>1. pc'[t] = "start"
      BY <1>1, <2>4, MoveFrame
    <3>2. QED
      BY <1>2, <1>6, <3>1 DEF WalkOK
  <2>5. QED
    BY <1>6, <2>1, <2>2, <2>3, <2>4 DEF QuietMove
<1>7. CASE op[t] = "contains"
  <2>1. PICK k, s, ss : k = arg[t] /\ s = seen[t] /\ ss = seen'[t]
    OBVIOUS
  <2>2. k \in Int /\ k # IntMin /\ s \subseteq ss /\ Answer(k, LinkedKeys) \in s
    BY <1>3, <1>4, <2>1
  <2>3. PICK m : Way(m, k, s) /\ node'[t] = m
    <3>1. CASE pc[t] = "start" /\ Goto(t, "scan", next[HeadNode], HeadNode)
      <4>1. node'[t] = next[HeadNode]
        BY <1>1, <3>1, MoveFrame
      <4>2. Way(next[HeadNode], k, s)
        BY <1>1, <2>2, WayStarts
      <4>3. QED
        BY <4>1, <4>2
    <3>2. CASE /\ pc[t] = "scan" /\ node[t] # Null /\ key[node[t]] # arg[t]
               /\ Goto(t, "scan", next[node[t]], node[t])
      <4>1. node'[t] = next[node[t]]
        BY <1>1, <3>2, MoveFrame
      <4>2. PICK n : n = node[t]
        OBVIOUS
      <4>3. n # Null /\ key[n] # k /\ Way(n, k, s)
        BY <1>1, <1>7, <2>1, <3>2, <4>2 DEF WalkOK
      <4>4. Way(next[n], k, s)
        BY <1>1, <2>2, <4>3, WayGoesOn
      <4>5. QED
        BY <4>1, <4>2, <4>4
    <3>3. QED
      BY <1>7, <3>1, <3>2 DEF QuietMove, Writing
  <2>4. (0 \notin ss => WillMeet(m, k)') /\ (1 \notin ss => WillMiss(m, k)')
    BY <1>1, <2>2, <2>3, WayStays
  <2>5. Way(node[t], arg[t], seen[t])'
    BY <1>2, <2>1, <2>3, <2>4, WayNext
  <2>6. QED
    BY <1>2, <1>7, <2>5 DEF WalkOK
<1>8. QED
  BY <1>5, <1>6, <1>7

(* What a walk that stops has seen of its key. *)
LEMMA WalkStops ==
    ASSUME LinInv, NoSentinelKey, NEW t \in Threads, pc[t] = "scan"
    PROVE  /\ At(t, "add", "scan") /\ AtKey(t) => 1 \in seen[t]
           /\ At(t, "remove", "scan") /\ AtEnd(t) => 0 \in seen[t]
           /\ At(t, "contains", "scan") /\ AtKey(t) => 1 \in seen[t]
           /\ At(t, "contains", "scan") /\ AtEnd(t) => 0 \in seen[t]
<1>1. /\ Inv /\ ListOK /\ HeapTypeOK /\ HistoryOK
      /\ PointersOK(t) /\ FrameOK(t) /\ PairOK(t) /\ WalkOK(t)
  BY Frame
<1>2. ASSUME op[t] = "add", AtKey(t) PROVE 1 \in seen[t]
  <2>1. /\ arg[t] # IntMin /\ key[HeadNode] = IntMin
        /\ node[t] # Null /\ key[node[t]] = arg[t]
    BY <1>1, <1>2, ArgFacts DEF AtKey, ListOK, KeysDistinct
  <2>2. prev[t] # Null
    BY <1>1, <1>2, <2>1 DEF FrameOK
  <2>3. node[t] \in linked
    BY <1>1, <1>2, <2>1, <2>2 DEF PairOK, ListOK, Adjacent, Writing
  <2>4. arg[t] \in LinkedKeys
    BY <2>1, <2>3 DEF LinkedKeys
  <2>5. QED
    BY <1>1, <1>2, <2>4, SeenNow
<1>3. ASSUME op[t] = "remove", AtEnd(t) PROVE 0 \in seen[t]
  <2>1. SUFFICES ASSUME key[prev[t]] < arg[t] PROVE 0 \in seen[t]
    BY <1>1, <1>3 DEF WalkOK
  <2>2. /\ prev[t] \in linked \cup {HeadNode} /\ next[prev[t]] = Null
        /\ arg[t] \in Int
    BY <1>1, <1>3, ArgFacts DEF PairOK, FrameOK, AtEnd, Writing
  <2>3. arg[t] \notin LinkedKeys
    BY <1>1, <2>1, <2>2, Between
  <2>4. QED
    BY <1>1, <1>3, <2>3, SeenNow
<1>4. ASSUME op[t] = "contains"
      PROVE  (AtKey(t) => 1 \in seen[t]) /\ (AtEnd(t) => 0 \in seen[t])
  <2>1. arg[t] \in Int /\ Way(node[t], arg[t], seen[t])
    BY <1>1, <1>4, ArgFacts DEF WalkOK
  <2>2. /\ node[t] = Null => 0 \in seen[t]
        /\ node[t] # Null /\ key[node[t]] = arg[t] => 1 \in seen[t]
    BY <1>1, <2>1, WayEnds
  <2>3. QED
    BY <2>2 DEF AtKey, AtEnd
<1>5. QED
  BY <1>2, <1>3, <1>4 DEF At

(* Every step of the code is a step of the abstract set or none, and keeps *)
(* the invariant.                                                          *)
LEMMA NextLin ==
    ASSUME LinInv, OneThreadWrites, NoSentinelKey, ~MutexInitCanFail,
           [LinNext]_<<vars, seen>>
    PROVE  LinInv' /\ [Abs!Next]_(Abs!vars)
<1>1. /\ Inv /\ ListInv /\ ListOK /\ FrameTypeOK(Located) /\ HistoryOK
  BY Frame DEF LinInv
<1>2. UNCHANGED absVars => UNCHANGED Abs!vars
  BY DEF absVars, Abs!vars
<1>3. CASE UNCHANGED <<vars, seen>>
  <2>1. UNCHANGED <<key, next, used, linked, pc, op, arg, node, prev, ret, calls, lock,
                    seek, seen>>
    BY <1>3 DEF vars
  <2>2. ListInv'
    BY <1>1, <1>3, ListNextInv DEF vars
  <2>3. HistoryOK'
    BY <1>1, <2>1 DEF HistoryOK, LinkedKeys
  <2>4. \A t \in Threads : WalkOK(t)'
    BY <2>1 DEF LinInv, WalkOK, Way, WillMeet, WillMiss, MeetsKey, MissesKey
  <2>5. UNCHANGED absVars
    BY <2>1 DEF absVars, LinkedKeys
  <2>6. QED
    BY <1>2, <2>2, <2>3, <2>4, <2>5 DEF LinInv
<1>4. CASE LinNext
  <2>1. Next /\ Observe /\ HistoryOK' /\ ListInv' /\ Inv'
    BY <1>1, <1>4, HistoryNext, ListNextInv DEF LinNext, ListInv
  <2>2. ASSUME NEW t \in Threads, Others(t), WalkOK(t)',
               UNCHANGED heap \/ AddLink(t) \/ RemoveUnlink(t)
        PROVE  LinInv'
    BY <2>1, <2>2, OtherWalks DEF LinInv
  <2>3. ASSUME NEW t \in Threads, Call(t) PROVE LinInv' /\ Abs!Invoke(t)
    <3>1. LinkedKeys' = LinkedKeys /\ UNCHANGED heap /\ Others(t) /\ pc'[t] = "start"
      BY <1>1, <2>1, <2>3, CallListInv
    <3>2. WalkOK(t)'
      BY <3>1 DEF WalkOK
    <3>3. PICK o \in Operations : Begin(t, o, "start", Null, Null)
      BY <2>3 DEF Call
    <3>4. pc[t] # "unlock"
      BY <1>1, <2>3, CallFrame
    <3>5. Abs!Invoke(t)
      BY <1>1, <2>1, <3>1, <3>3, <3>4, CallLin
    <3>6. QED
      BY <2>2, <3>1, <3>2, <3>5
  <2>4. ASSUME NEW t \in Threads, QuietMove(t) PROVE LinInv' /\ UNCHANGED absVars
    <3>1. LinkedKeys' = LinkedKeys /\ UNCHANGED heap /\ Others(t)
      BY <1>1, <2>1, <2>4, QuietMoveInv DEF QuietMove
    <3>2. PICK where, n, p :
              where # "unlock" /\ pc[t] # "unlock" /\ Goto(t, where, n, p)
      BY <2>4 DEF QuietMove
    <3>3. UNCHANGED absVars
      BY <1>1, <2>1, <3>1, <3>2, MoveLin
    <3>4. QED
      BY <2>1, <2>2, <2>4, <3>1, <3>3, OwnWalk
  <2>5. ASSUME NEW t \in Threads, QuietReturn(t) PROVE LinInv' /\ Abs!Return(t)
    <3>1. /\ LinkedKeys' = LinkedKeys /\ UNCHANGED heap /\ Others(t)
          /\ op'[t] = "none"
      BY <1>1, <2>1, <2>5, QuietReturnInv DEF QuietReturn
    <3>2. PICK r \in {0, 1} :
              /\ op[t] # "none" /\ Finish(t, r)
              /\ \/ pc[t] = "unlock" /\ r = 1
                 \/ At(t, "add", "scan") /\ r = 0 /\ AtKey(t)
                 \/ At(t, "remove", "scan") /\ r = 0 /\ AtEnd(t)
                 \/ At(t, "contains", "scan") /\ r = 1 /\ AtKey(t)
                 \/ At(t, "contains", "scan") /\ r = 0 /\ AtEnd(t)
      BY <2>5 DEF QuietReturn, AddInitFails
    <3>3. \/ pc[t] = "unlock" /\ r = 1
          \/ pc[t] # "unlock" /\ op[t] = "add" /\ r = 0 /\ 1 \in seen[t]
          \/ pc[t] # "unlock" /\ op[t] = "remove" /\ r = 0 /\ 0 \in seen[t]
          \/ op[t] = "contains" /\ r \in seen[t]
      BY <3>2, WalkStops DEF At
    <3>4. Abs!Return(t)
      BY <1>1, <2>1, <3>1, <3>2, <3>3, ReturnLin
    <3>5. WalkOK(t)'
      BY <3>1 DEF WalkOK
    <3>6. QED
      BY <2>2, <3>1, <3>4, <3>5
  <2>6. ASSUME NEW t \in Threads, AddLink(t) \/ RemoveUnlink(t)
        PROVE  LinInv' /\ (Abs!Add(t) \/ Abs!Remove(t))
    <3>1. Others(t) /\ pc'[t] = "unlock" /\ op'[t] = op[t]
      BY <1>1, <2>1, <2>6, WriteListInv
    <3>2. /\ pc[t] = "valid" /\ Proceed(t, "unlock")
          /\ AddLink(t) => op[t] = "add"
          /\ RemoveUnlink(t) => op[t] = "remove"
      BY <2>6 DEF AddLink, RemoveUnlink, At
    <3>3. WalkOK(t)'
      BY <2>6, <3>1, <3>2 DEF WalkOK
    <3>4. \/ /\ op[t] = "add" /\ arg[t] \notin LinkedKeys
             /\ LinkedKeys' = LinkedKeys \cup {arg[t]}
          \/ /\ op[t] = "remove" /\ arg[t] \in LinkedKeys
             /\ LinkedKeys' = LinkedKeys \ {arg[t]}
      BY <1>1, <2>6, <3>2, WriteList
    <3>5. Abs!Add(t) \/ Abs!Remove(t)
      BY <1>1, <2>1, <3>2, <3>4, EffectLin
    <3>6. QED
      BY <2>2, <2>6, <3>1, <3>3, <3>5
  <2>7. ASSUME Done PROVE LinInv' /\ UNCHANGED absVars
    <3>1. /\ UNCHANGED heap /\ UNCHANGED <<op, arg, ret, pc>> /\ LinkedKeys' = LinkedKeys
      BY <2>7 DEF Done, vars, heap, LinkedKeys
    <3>2. UNCHANGED absVars
      BY <1>1, <2>1, <3>1, Stutter
    <3>3. seen' = seen
      BY <3>2 DEF absVars
    <3>4. \A t \in Threads : WalkOK(t)'
      BY <2>7, <3>3 DEF LinInv, WalkOK, Way, WillMeet, WillMiss, MeetsKey, MissesKey, Done, vars
    <3>5. QED
      BY <2>1, <3>2, <3>4 DEF LinInv
  <2>8. ASSUME NEW t \in Threads, Step(t)
        PROVE  LinInv' /\ (Abs!Add(t) \/ Abs!Remove(t) \/ Abs!Return(t) \/ UNCHANGED absVars)
    BY <1>1, <2>4, <2>5, <2>6, <2>8, StepKinds
  <2>9. QED
    BY <1>2, <2>1, <2>3, <2>7, <2>8 DEF Next, Abs!Next
<1>5. QED
  BY <1>3, <1>4

LEMMA LinInvariance ==
    OneThreadWrites /\ NoSentinelKey /\ ~MutexInitCanFail => (LinSpec => []LinInv)
<1>1. SUFFICES ASSUME OneThreadWrites, NoSentinelKey, ~MutexInitCanFail
               PROVE  LinSpec => []LinInv
  OBVIOUS
<1>2. LinInv /\ [LinNext]_<<vars, seen>> => LinInv'
  BY <1>1, NextLin
<1>3. QED
  BY <1>2, InitLin, PTL DEF LinSpec

(* setos.h holds of the optimistic set, as long as one thread makes the    *)
(* calls that change it, the keys are larger than the sentinel's and no    *)
(* mutex fails to initialise: every call takes effect at one instant       *)
(* between its start and its return, although setos_contains takes no lock *)
(* and any number of threads may be in it.                                 *)
THEOREM OptimisticLinearizable ==
    OneThreadWrites /\ NoSentinelKey /\ ~MutexInitCanFail => (LinSpec => Linearizable)
<1>1. SUFFICES ASSUME OneThreadWrites, NoSentinelKey, ~MutexInitCanFail
               PROVE  LinSpec => Linearizable
  OBVIOUS
<1>2. LinInit => Abs!Init
  BY InitLin
<1>3. LinInv /\ [LinNext]_<<vars, seen>> => [Abs!Next]_(Abs!vars)
  BY <1>1, NextLin
<1>4. LinSpec => []LinInv
  BY <1>1, LinInvariance
<1>5. QED
  BY <1>2, <1>3, <1>4, PTL DEF LinSpec, Linearizable, Abs!Spec
=============================================================================
