------------------------- MODULE SetosCoarse_proofs ------------------------
(***************************************************************************)
(* The invariants of the coarse-grained set, for any number of threads,    *)
(* keys and calls; and that it implements ConcurrentSet, as long as nobody *)
(* passes INT_MIN: the walk of setos_add starts on the sentinel and would  *)
(* take that key for present.                                              *)
(***************************************************************************)
EXTENDS SetosCoarseLin, SetosNode_proofs

(* What the location of a thread says of its operation and key. *)
Frames ==
    \A t \in Threads :
        /\ op[t] = "none" <=> pc[t] = "idle"
        /\ op[t] # "none" => arg[t] \in Keys
        /\ pc[t] = "unlock" => op[t] \in {"add", "remove"}

Inv == TypeOK /\ ListOK /\ Frames /\ OwnerInside /\ WalkPassed

(* Sets of locations the proofs need as such. *)
Locations == {"idle", "lock", "scan", "unlock"}

(* A step that leaves the heap alone leaves the list well formed. *)
LEMMA HeapUnchanged ==
    ASSUME ListOK, UNCHANGED heap PROVE ListOK' /\ LinkedKeys' = LinkedKeys
BY DEF ListOK, HeapTypeOK, KeysDistinct, Adjacent, LinkedKeys, heap

(* setos_init leaves a well-formed list and a free mutex. *)
LEMMA InitInv == Init => Inv
<1>1. SUFFICES ASSUME Init PROVE Inv
  OBVIOUS
<1>2. ListOK
  BY <1>1, InitListOK DEF Init
<1>3. TypeOK
  BY <1>1, <1>2, CallAssumption, NodeAssumption
  DEF Init, FrameInit, TypeOK, FrameTypeOK, ListOK, Addr, NoResult
<1>4. Frames /\ WalkPassed
  BY <1>1 DEF Init, FrameInit, Frames, WalkPassed
<1>5. OwnerInside
  BY <1>1, CallAssumption DEF Init, FrameInit, OwnerInside
<1>6. QED
  BY <1>2, <1>3, <1>4, <1>5 DEF Inv

(* The owner moves on within the list, or to its return: what remains to   *)
(* be shown of such a step is what it does to the owner's walk.            *)
LEMMA GotoInv ==
    ASSUME Inv, ListOK', NEW t \in Threads, NEW where \in {"scan", "unlock"},
           NEW n \in Addr, NEW p \in Addr,
           pc[t] = "scan",
           where = "unlock" => op[t] \in {"add", "remove"},
           Goto(t, where, n, p), UNCHANGED lock
    PROVE  /\ TypeOK' /\ Frames' /\ OwnerInside'
           /\ pc'[t] = where /\ node'[t] = n /\ prev'[t] = p
           /\ op'[t] = op[t] /\ arg'[t] = arg[t]
           /\ \A u \in Threads \ {t} : pc'[u] # "scan"
<1>1. /\ pc' = [pc EXCEPT ![t] = where]
      /\ node' = [node EXCEPT ![t] = n]
      /\ prev' = [prev EXCEPT ![t] = p]
      /\ UNCHANGED <<op, arg, ret, calls, lock>>
  BY DEF Goto
<1>2. TypeOK'
  BY <1>1 DEF Inv, TypeOK, FrameTypeOK, ListOK, Addr
<1>3. /\ pc'[t] = where /\ node'[t] = n /\ prev'[t] = p
      /\ \A u \in Threads \ {t} : pc'[u] = pc[u]
  BY <1>1 DEF Inv, TypeOK, FrameTypeOK
<1>4. Frames' /\ OwnerInside'
  BY <1>1, <1>3 DEF Inv, Frames, OwnerInside
<1>5. \A u \in Threads \ {t} : pc'[u] # "scan"
  BY <1>3 DEF Inv, OwnerInside
<1>6. QED
  BY <1>1, <1>2, <1>3, <1>4, <1>5

(* The owner returns. *)
LEMMA LeaveInv ==
    ASSUME Inv, NEW t \in Threads, NEW r \in {0, 1},
           pc[t] \in {"scan", "unlock"}, Leave(t, r)
    PROVE  Inv'
<1>1. /\ pc' = [pc EXCEPT ![t] = "idle"]
      /\ op' = [op EXCEPT ![t] = "none"]
      /\ arg' = [arg EXCEPT ![t] = IntMin]
      /\ node' = [node EXCEPT ![t] = Null]
      /\ prev' = [prev EXCEPT ![t] = Null]
      /\ ret' = [ret EXCEPT ![t] = r]
      /\ calls' = calls /\ lock' = NoThread
      /\ UNCHANGED heap
  BY DEF Leave, Finish
<1>2. ListOK'
  BY <1>1, HeapUnchanged DEF Inv
<1>3. TypeOK'
  BY <1>1, <1>2, NodeAssumption
  DEF Inv, TypeOK, FrameTypeOK, ListOK, Addr, NoResult
<1>4. /\ pc'[t] = "idle" /\ op'[t] = "none"
      /\ \A u \in Threads \ {t} : pc'[u] = pc[u] /\ op'[u] = op[u] /\ arg'[u] = arg[u]
  BY <1>1 DEF Inv, TypeOK, FrameTypeOK
<1>5. \A u \in Threads \ {t} : pc'[u] \notin {"scan", "unlock"}
  BY <1>4 DEF Inv, OwnerInside
<1>6. Frames'
  BY <1>4 DEF Inv, Frames
<1>7. OwnerInside' /\ WalkPassed'
  BY <1>1, <1>4, <1>5, CallAssumption DEF OwnerInside, WalkPassed
<1>8. QED
  BY <1>2, <1>3, <1>6, <1>7 DEF Inv

(* A thread that calls one of the three functions and now waits for the    *)
(* mutex has touched nothing that another thread relies on.                *)
LEMMA CallInv == ASSUME Inv, NEW t \in Threads, Call(t) PROVE Inv'
<1>1. PICK o \in Operations : Begin(t, o, "lock", Null, Null)
  BY DEF Call
<1>2. PICK k \in Keys : arg' = [arg EXCEPT ![t] = k]
  BY <1>1 DEF Begin
<1>3. /\ pc' = [pc EXCEPT ![t] = "lock"]
      /\ op' = [op EXCEPT ![t] = o]
      /\ node' = [node EXCEPT ![t] = Null]
      /\ prev' = [prev EXCEPT ![t] = Null]
      /\ ret' = [ret EXCEPT ![t] = NoResult]
      /\ calls' = calls + 1 /\ lock' = lock
      /\ op[t] = "none"
  BY <1>1 DEF Begin, Call
<1>4. ListOK'
  BY HeapUnchanged DEF Inv, Call
<1>5. k \in Int
  BY CallAssumption
<1>6. TypeOK'
  BY <1>2, <1>3, <1>4, <1>5 DEF Inv, TypeOK, FrameTypeOK, ListOK, Addr, NoResult
<1>7. /\ pc'[t] = "lock" /\ op'[t] = o /\ arg'[t] = k
      /\ \A u \in Threads \ {t} :
             /\ pc'[u] = pc[u] /\ op'[u] = op[u] /\ arg'[u] = arg[u]
             /\ node'[u] = node[u] /\ prev'[u] = prev[u]
  BY <1>2, <1>3 DEF Inv, TypeOK, FrameTypeOK
<1>8. Frames'
  BY <1>7 DEF Inv, Frames, Operations
<1>9. OwnerInside'
  BY <1>3, <1>7 DEF Inv, OwnerInside, Frames
<1>10. WalkPassed'
  BY <1>7 DEF Inv, WalkPassed, Call, heap
<1>11. QED
  BY <1>4, <1>6, <1>8, <1>9, <1>10 DEF Inv

(* DoLock() returns: the walk starts at the front of the list. *)
LEMMA EnterInv ==
    ASSUME Inv, NEW t \in Threads, NEW o \in Operations,
           \/ o = "add" /\ Enter(t, o, HeadNode, Null)
           \/ o # "add" /\ Enter(t, o, next[HeadNode], HeadNode)
    PROVE  Inv'
<1>1. PICK n \in Addr, p \in Addr :
          /\ Enter(t, o, n, p)
          /\ o = "add" => n = HeadNode /\ p = Null
          /\ o # "add" => n = next[HeadNode] /\ p = HeadNode
  <2>1. HeadNode \in Addr /\ Null \in Addr /\ next[HeadNode] \in Addr
    BY NodeAssumption DEF Inv, ListOK, HeapTypeOK, Addr, Node, HeadNode
  <2>2. QED
    BY <2>1
<1>2. /\ pc' = [pc EXCEPT ![t] = "scan"]
      /\ node' = [node EXCEPT ![t] = n]
      /\ prev' = [prev EXCEPT ![t] = p]
      /\ UNCHANGED <<op, arg, ret, calls>>
      /\ UNCHANGED heap
      /\ lock = NoThread /\ lock' = t
      /\ op[t] = o /\ pc[t] = "lock"
  BY <1>1 DEF Enter, Goto, At
<1>3. ListOK'
  BY <1>2, HeapUnchanged DEF Inv
<1>4. TypeOK'
  BY <1>2, <1>3 DEF Inv, TypeOK, FrameTypeOK, ListOK
<1>5. /\ pc'[t] = "scan" /\ node'[t] = n /\ prev'[t] = p
      /\ \A u \in Threads \ {t} : pc'[u] = pc[u]
  BY <1>2 DEF Inv, TypeOK, FrameTypeOK
<1>6. \A u \in Threads : pc[u] \notin {"scan", "unlock"}
  BY <1>2, CallAssumption DEF Inv, OwnerInside
<1>7. Frames' /\ OwnerInside'
  BY <1>2, <1>5, <1>6 DEF Inv, Frames, OwnerInside, Operations
<1>8. WalkPassed'
  <2>1. \A u \in Threads \ {t} : pc'[u] # "scan"
    BY <1>5, <1>6
  <2>2. \A m \in linked : ~(key[m] <= key[HeadNode])
    BY NodeAssumption DEF Inv, ListOK, KeysDistinct, HeapTypeOK, Node
  <2>3. QED
    BY <1>1, <1>2, <1>5, <2>1, <2>2 DEF WalkPassed, heap
<1>9. QED
  BY <1>3, <1>4, <1>7, <1>8 DEF Inv
(* prev = node; node = node->next: the pair moves to the next two          *)
(* neighbours, and what the walk has passed grows by a node whose key is   *)
(* not the one sought.                                                     *)
LEMMA AdvanceInv ==
    ASSUME Inv, NEW t \in Threads,
           pc[t] = "scan", node[t] # Null,
           op[t] = "add" => key[node[t]] < arg[t],
           op[t] # "add" => key[node[t]] # arg[t],
           Advance(t)
    PROVE  Inv'
<1> DEFINE n == node[t]
<1>1. /\ n \in linked \cup {HeadNode}
      /\ n \in linked => \A m \in linked : key[m] < key[n] => key[m] <= key[prev[t]]
  <2>1. CASE op[t] = "add" /\ prev[t] = Null
    <3>1. n = HeadNode
      BY <2>1 DEF Inv, WalkPassed
    <3>2. HeadNode \notin linked
      BY ListTypes DEF Inv
    <3>3. QED
      BY <3>1, <3>2
  <2>2. CASE ~(op[t] = "add" /\ prev[t] = Null)
    <3>1. prev[t] \in linked \cup {HeadNode} /\ n = next[prev[t]]
      BY <2>2 DEF Inv, WalkPassed
    <3>2. /\ n \in linked
          /\ \A m \in linked : key[prev[t]] < key[m] => key[n] <= key[m]
      BY <3>1 DEF Inv, ListOK, Adjacent
    <3>3. \A m \in linked \cup {HeadNode} : key[m] \in Int
      BY ListTypes DEF Inv
    <3>4. QED
      BY <3>1, <3>2, <3>3
  <2>3. QED
    BY <2>1, <2>2
<1>2. n \in Node /\ n \in Addr /\ next[n] \in Addr
  BY <1>1, ListTypes DEF Inv
<1>3. UNCHANGED heap /\ UNCHANGED lock /\ Goto(t, "scan", next[n], n)
  BY DEF Advance
<1>4. ListOK'
  BY <1>3, HeapUnchanged DEF Inv
<1>5. /\ TypeOK' /\ Frames' /\ OwnerInside'
      /\ pc'[t] = "scan" /\ node'[t] = next[n] /\ prev'[t] = n
      /\ op'[t] = op[t] /\ arg'[t] = arg[t]
      /\ \A u \in Threads \ {t} : pc'[u] # "scan"
  BY <1>2, <1>3, <1>4, GotoInv
<1>6. ASSUME op[t] # "add", NEW m \in linked, key[m] <= key[n]
      PROVE  key[m] # arg[t]
  <2>1. key[m] \in Int /\ key[n] \in Int
    BY <1>1, ListTypes DEF Inv
  <2>2. CASE n = HeadNode
    BY <1>6, <2>1, <2>2, NodeAssumption DEF Inv, ListOK, KeysDistinct
  <2>3. CASE n \in linked /\ key[m] = key[n]
    BY <2>3, <1>6
  <2>4. CASE n \in linked /\ key[m] < key[n]
    <3>1. key[m] <= key[prev[t]]
      BY <1>1, <2>4
    <3>2. QED
      BY <1>6, <3>1 DEF Inv, WalkPassed
  <2>5. QED
    BY <1>1, <1>6, <2>1, <2>2, <2>3, <2>4
<1>7. WalkPassed'
  BY <1>1, <1>2, <1>3, <1>5, <1>6 DEF WalkPassed, heap, Null, Node
<1>8. QED
  BY <1>4, <1>5, <1>7 DEF Inv

(* prev->next = new_node: the walk stopped at the place of the key, and    *)
(* the key is not in the set.                                              *)
LEMMA AddLinkInv ==
    ASSUME Inv, NEW t \in Threads, AddLink(t)
    PROVE  /\ Inv'
           /\ arg[t] \notin LinkedKeys
           /\ LinkedKeys' = LinkedKeys \cup {arg[t]}
<1> DEFINE p == prev[t]
<1>1. /\ op[t] = "add" /\ pc[t] = "scan"
      /\ ~BeforeKey(t) /\ ~AtKey(t)
      /\ Link(p, node[t], arg[t])
      /\ Goto(t, "unlock", node[t], p) /\ UNCHANGED lock
  BY DEF AddLink, At, Proceed
<1>2. p # Null
  <2>1. SUFFICES ASSUME p = Null PROVE FALSE
    OBVIOUS
  <2>2. node[t] = HeadNode
    BY <1>1, <2>1 DEF Inv, WalkPassed
  <2>3. key[HeadNode] = IntMin /\ IntMin <= arg[t] /\ arg[t] \in Int
    BY <1>1, CallAssumption DEF Inv, ListOK, KeysDistinct, Frames
  <2>4. QED
    BY <1>1, <2>2, <2>3, NodeAssumption DEF BeforeKey, AtKey, Null, HeadNode
<1>3. /\ p \in linked \cup {HeadNode}
      /\ node[t] = next[p]
      /\ key[p] < arg[t]
  BY <1>1, <1>2 DEF Inv, WalkPassed
<1>4. arg[t] \in Int /\ node[t] \in Addr /\ p \in Addr
  BY DEF Inv, TypeOK, FrameTypeOK
<1>5. next[p] # Null => next[p] \in linked /\ arg[t] < key[next[p]]
  <2>1. next[p] # Null => next[p] \in linked
    BY <1>3 DEF Inv, ListOK, Adjacent
  <2>2. next[p] # Null => key[next[p]] \in Int
    BY <2>1, ListTypes DEF Inv
  <2>3. QED
    BY <1>1, <1>3, <1>4, <2>1, <2>2 DEF BeforeKey, AtKey
<1>6. ListOK' /\ LinkedKeys' = LinkedKeys \cup {arg[t]}
  BY <1>1, <1>3, <1>4, <1>5, LinkListOK DEF Inv
<1>7. arg[t] \notin LinkedKeys
  <2>1. SUFFICES ASSUME NEW m \in linked, key[m] = arg[t] PROVE FALSE
    BY DEF LinkedKeys
  <2>2. next[p] # Null /\ key[next[p]] <= key[m]
    BY <1>3, <2>1 DEF Inv, ListOK, Adjacent
  <2>3. key[next[p]] \in Int
    BY <1>5, <2>2, ListTypes DEF Inv
  <2>4. QED
    BY <1>4, <1>5, <2>1, <2>2, <2>3
<1>8. /\ TypeOK' /\ Frames' /\ OwnerInside'
      /\ pc'[t] = "unlock"
      /\ \A u \in Threads \ {t} : pc'[u] # "scan"
  BY <1>1, <1>4, <1>6, GotoInv
<1>9. WalkPassed'
  BY <1>8 DEF WalkPassed
<1>10. QED
  BY <1>6, <1>7, <1>8, <1>9 DEF Inv

(* prev->next = node->next: prev is still the node before, and the key     *)
(* leaves the set.                                                         *)
LEMMA RemoveUnlinkInv ==
    ASSUME Inv, NEW t \in Threads, RemoveUnlink(t)
    PROVE  /\ Inv'
           /\ arg[t] \in LinkedKeys
           /\ LinkedKeys' = LinkedKeys \ {arg[t]}
<1> DEFINE p == prev[t]
<1>1. /\ op[t] = "remove" /\ pc[t] = "scan"
      /\ node[t] # Null /\ key[node[t]] = arg[t]
      /\ Unlink(p, node[t])
      /\ Goto(t, "unlock", node[t], p) /\ UNCHANGED lock
  BY DEF RemoveUnlink, At, Proceed, AtKey
<1>2. p \in linked \cup {HeadNode} /\ node[t] = next[p]
  BY <1>1 DEF Inv, WalkPassed
<1>3. ListOK' /\ LinkedKeys' = LinkedKeys \ {arg[t]}
  BY <1>1, <1>2, UnlinkListOK DEF Inv
<1>4. arg[t] \in LinkedKeys
  BY <1>1, <1>2 DEF Inv, ListOK, Adjacent, LinkedKeys
<1>5. node[t] \in Addr /\ p \in Addr
  BY DEF Inv, TypeOK, FrameTypeOK
<1>6. /\ TypeOK' /\ Frames' /\ OwnerInside'
      /\ pc'[t] = "unlock"
      /\ \A u \in Threads \ {t} : pc'[u] # "scan"
  BY <1>1, <1>3, <1>5, GotoInv
<1>7. WalkPassed'
  BY <1>6 DEF WalkPassed
<1>8. QED
  BY <1>3, <1>4, <1>6, <1>7 DEF Inv

-----------------------------------------------------------------------------
(* No step of any thread breaks the invariant. *)
LEMMA NextInv == Inv /\ [Next]_vars => Inv'
<1>1. SUFFICES ASSUME Inv, [Next]_vars PROVE Inv'
  OBVIOUS
<1>2. ASSUME NEW t \in Threads, Step(t) PROVE Inv'
  <2>1. CASE AddEnter(t)
    BY <1>1, <2>1, EnterInv DEF AddEnter, Operations
  <2>2. CASE RemoveEnter(t)
    BY <1>1, <2>2, EnterInv DEF RemoveEnter, Operations
  <2>3. CASE ContainsEnter(t)
    BY <1>1, <2>3, EnterInv DEF ContainsEnter, Operations
  <2>4. CASE AddStep(t)
    BY <1>1, <2>4, AdvanceInv DEF AddStep, At, BeforeKey
  <2>5. CASE RemoveStep(t)
    BY <1>1, <2>5, AdvanceInv DEF RemoveStep, At, AtEnd, AtKey
  <2>6. CASE ContainsStep(t)
    BY <1>1, <2>6, AdvanceInv DEF ContainsStep, At, AtEnd, AtKey
  <2>7. CASE AddPresent(t) \/ RemoveAbsent(t) \/ ContainsAbsent(t)
    BY <1>1, <2>7, LeaveInv DEF AddPresent, RemoveAbsent, ContainsAbsent, At
  <2>8. CASE ContainsFound(t) \/ Unlock(t)
    BY <1>1, <2>8, LeaveInv DEF ContainsFound, Unlock, At
  <2>9. CASE AddLink(t)
    BY <1>1, <2>9, AddLinkInv
  <2>10. CASE RemoveUnlink(t)
    BY <1>1, <2>10, RemoveUnlinkInv
  <2>11. QED
    BY <1>2, <2>1, <2>2, <2>3, <2>4, <2>5, <2>6, <2>7, <2>8, <2>9, <2>10 DEF Step
<1>3. CASE UNCHANGED vars
  <2>1. ListOK'
    BY <1>1, <1>3, HeapUnchanged DEF Inv, vars, heap
  <2>2. QED
    BY <1>1, <1>3, <2>1
    DEF Inv, vars, TypeOK, FrameTypeOK, ListOK, Frames, OwnerInside, WalkPassed
<1>4. QED
  BY <1>1, <1>2, <1>3, CallInv DEF Next, Done

(* The invariant holds of every run of setos_coarse.c: the list is well    *)
(* formed, the mutex belongs to the thread inside, and what its walk has   *)
(* passed does not hold its key.                                           *)
THEOREM Invariance == Spec => []Inv
BY InitInv, NextInv, PTL DEF Spec

(* Every value keeps its type. *)
THEOREM TypeCorrect == Spec => []TypeOK
<1>1. Inv => TypeOK
  BY DEF Inv
<1>2. QED
  BY <1>1, Invariance, PTL

(* The mutex is taken on every path into the list and given back on every  *)
(* path out: its owner is the one thread inside.                           *)
THEOREM MutualExclusion == Spec => []OwnerInside
<1>1. Inv => OwnerInside
  BY DEF Inv
<1>2. QED
  BY <1>1, Invariance, PTL

(* The list never gets a gap, a repetition or a disorder.                  *)
THEOREM ListWellFormed == Spec => [](KeysDistinct /\ Adjacent)
<1>1. Inv => KeysDistinct /\ Adjacent
  BY DEF Inv, ListOK
<1>2. QED
  BY <1>1, Invariance, PTL

(* A walk from the sentinel meets exactly the nodes that were added and    *)
(* not removed.                                                            *)
THEOREM NoNodeLost == Spec => []NoLostNode
<1>1. Inv => NoLostNode
  BY NothingLost DEF Inv
<1>2. QED
  BY <1>1, Invariance, PTL

(* setos_add never dereferences its uninitialised `prev'.                  *)
THEOREM PrevAlwaysAssigned == Spec => []PrevAssigned
<1>1. ASSUME Inv, NEW t \in Threads, At(t, "add", "scan"), ~BeforeKey(t), ~AtKey(t)
      PROVE  prev[t] # Null
  <2>1. SUFFICES ASSUME prev[t] = Null PROVE FALSE
    OBVIOUS
  <2>2. node[t] = HeadNode
    BY <1>1, <2>1 DEF Inv, WalkPassed, At
  <2>3. key[HeadNode] = IntMin /\ IntMin <= arg[t] /\ arg[t] \in Int
    BY <1>1, CallAssumption DEF Inv, ListOK, KeysDistinct, Frames, At
  <2>4. QED
    BY <1>1, <2>2, <2>3, NodeAssumption DEF BeforeKey, AtKey, Null, HeadNode
<1>2. Inv => PrevAssigned
  BY <1>1 DEF PrevAssigned
<1>3. QED
  BY <1>2, Invariance, PTL
-----------------------------------------------------------------------------
(* Linearizability *)

NoSentinelKey == \A k \in Keys : IntMin < k

LinInv == Inv /\ HistoryOK

(* The empty history is right, and the initial states match. *)
LEMMA InitLin == LinInit => LinInv /\ Abs!Init
BY InitInv, InitHistory DEF LinInit, Init, LinInv

(* The frames have the types the lemmas about the history ask for. *)
LEMMA Frame == LinInv => FrameTypeOK(Locations) /\ HistoryOK
BY DEF LinInv, Inv, TypeOK, Locations

(* What a walk that stops knows of its key. *)
LEMMA WalkStops ==
    ASSUME Inv, NoSentinelKey, NEW t \in Threads, pc[t] = "scan", op[t] # "none"
    PROVE  /\ AtKey(t) => arg[t] \in LinkedKeys
           /\ op[t] # "add" /\ AtEnd(t) => arg[t] \notin LinkedKeys
<1>1. arg[t] \in Keys /\ arg[t] \in Int /\ IntMin < arg[t]
  BY CallAssumption DEF Inv, Frames, NoSentinelKey
<1>2. ASSUME AtKey(t) PROVE arg[t] \in LinkedKeys
  <2>1. node[t] # Null /\ key[node[t]] = arg[t]
    BY <1>2 DEF AtKey
  <2>2. node[t] # HeadNode
    BY <1>1, <2>1, NodeAssumption DEF Inv, ListOK, KeysDistinct
  <2>3. node[t] \in linked
    BY <2>1, <2>2 DEF Inv, WalkPassed, ListOK, Adjacent
  <2>4. QED
    BY <2>1, <2>3 DEF LinkedKeys
<1>3. ASSUME op[t] # "add", AtEnd(t), NEW m \in linked PROVE key[m] # arg[t]
  <2>1. /\ prev[t] \in linked \cup {HeadNode}
        /\ next[prev[t]] = Null
        /\ \A n \in linked : key[n] <= key[prev[t]] => key[n] # arg[t]
    BY <1>3 DEF Inv, WalkPassed, AtEnd
  <2>2. ~(key[prev[t]] < key[m])
    BY <2>1 DEF Inv, ListOK, Adjacent
  <2>3. key[prev[t]] \in Int /\ key[m] \in Int
    BY <2>1, ListTypes DEF Inv
  <2>4. QED
    BY <2>1, <2>2, <2>3
<1>4. QED
  BY <1>2, <1>3 DEF LinkedKeys

(* Every step of the code is a step of the abstract set or none: the write *)
(* of prev->next is the effect, the return of the function the return.     *)
LEMMA NextLin ==
    ASSUME LinInv, NoSentinelKey, [LinNext]_<<vars, seen>>
    PROVE  [Abs!Next]_(Abs!vars)
<1>1. Inv /\ FrameTypeOK(Locations) /\ HistoryOK
  BY Frame DEF LinInv
<1>2. ASSUME UNCHANGED heap PROVE LinkedKeys' = LinkedKeys
  BY <1>2 DEF heap, LinkedKeys
<1>3. ASSUME NEW t \in Threads, Step(t), Observe
      PROVE  Abs!Add(t) \/ Abs!Remove(t) \/ Abs!Return(t) \/ UNCHANGED absVars
  <2>1. CASE AddEnter(t) \/ RemoveEnter(t) \/ ContainsEnter(t)
    <3>1. PICK n, p : Goto(t, "scan", n, p) /\ pc[t] # "unlock" /\ UNCHANGED heap
      BY <2>1 DEF AddEnter, RemoveEnter, ContainsEnter, Enter, At
    <3>2. QED
      BY <1>1, <1>2, <1>3, <3>1, MoveLin
  <2>2. CASE AddStep(t) \/ RemoveStep(t) \/ ContainsStep(t)
    <3>1. PICK n, p : Goto(t, "scan", n, p) /\ pc[t] # "unlock" /\ UNCHANGED heap
      BY <2>2 DEF AddStep, RemoveStep, ContainsStep, Advance, At
    <3>2. QED
      BY <1>1, <1>2, <1>3, <3>1, MoveLin
  <2>3. CASE \/ AddPresent(t) \/ RemoveAbsent(t) \/ ContainsFound(t) \/ ContainsAbsent(t)
             \/ Unlock(t)
    <3>1. PICK r \in {0, 1} :
              /\ Finish(t, r) /\ UNCHANGED heap
              /\ \/ pc[t] = "unlock" /\ r = 1
                 \/ pc[t] = "scan" /\ op[t] = "add" /\ r = 0 /\ AtKey(t)
                 \/ pc[t] = "scan" /\ op[t] = "remove" /\ r = 0 /\ AtEnd(t)
                 \/ pc[t] = "scan" /\ op[t] = "contains" /\ r = 1 /\ AtKey(t)
                 \/ pc[t] = "scan" /\ op[t] = "contains" /\ r = 0 /\ AtEnd(t)
      BY <2>3 DEF AddPresent, RemoveAbsent, ContainsFound, ContainsAbsent, Unlock, Leave, At
    <3>2. op[t] # "none"
      BY <1>1, <3>1 DEF Inv, Frames
    <3>3. /\ pc[t] = "scan" /\ AtKey(t) => 1 \in seen[t]
          /\ pc[t] = "scan" /\ op[t] # "add" /\ AtEnd(t) => 0 \in seen[t]
      BY <1>1, <3>2, WalkStops, SeenNow
    <3>4. \/ pc[t] = "unlock" /\ r = 1
          \/ pc[t] # "unlock" /\ op[t] = "add" /\ r = 0 /\ 1 \in seen[t]
          \/ pc[t] # "unlock" /\ op[t] = "remove" /\ r = 0 /\ 0 \in seen[t]
          \/ op[t] = "contains" /\ r \in seen[t]
      BY <3>1, <3>3
    <3>5. QED
      BY <1>1, <1>2, <1>3, <3>1, <3>2, <3>4, ReturnLin
  <2>4. CASE AddLink(t)
    <3>1. /\ op[t] = "add" /\ pc[t] # "unlock" /\ Proceed(t, "unlock")
          /\ arg[t] \notin LinkedKeys
          /\ LinkedKeys' = LinkedKeys \cup {arg[t]}
      BY <1>1, <2>4, AddLinkInv DEF AddLink, At
    <3>2. QED
      BY <1>1, <1>3, <3>1, EffectLin
  <2>5. CASE RemoveUnlink(t)
    <3>1. /\ op[t] = "remove" /\ pc[t] # "unlock" /\ Proceed(t, "unlock")
          /\ arg[t] \in LinkedKeys
          /\ LinkedKeys' = LinkedKeys \ {arg[t]}
      BY <1>1, <2>5, RemoveUnlinkInv DEF RemoveUnlink, At
    <3>2. QED
      BY <1>1, <1>3, <3>1, EffectLin
  <2>6. QED
    BY <1>3, <2>1, <2>2, <2>3, <2>4, <2>5 DEF Step
<1>4. ASSUME NEW t \in Threads, Call(t), Observe PROVE Abs!Invoke(t)
  <2>1. PICK o \in Operations : Begin(t, o, "lock", Null, Null) /\ UNCHANGED heap
    BY <1>4 DEF Call
  <2>2. pc[t] # "unlock"
    BY <1>1, <2>1 DEF Begin, Inv, Frames
  <2>3. QED
    BY <1>1, <1>2, <1>4, <2>1, <2>2, CallLin
<1>5. ASSUME Done, Observe PROVE UNCHANGED absVars
  <2>1. UNCHANGED heap
    BY <1>5 DEF Done, vars, heap
  <2>2. QED
    BY <1>1, <1>2, <1>5, <2>1, Stutter DEF Done, vars
<1>6. CASE UNCHANGED <<vars, seen>>
  BY <1>6 DEF vars, absVars, Abs!vars, LinkedKeys
<1>7. CASE LinNext
  <2>1. UNCHANGED absVars => UNCHANGED Abs!vars
    BY DEF absVars, Abs!vars
  <2>2. QED
    BY <1>3, <1>4, <1>5, <1>7, <2>1 DEF LinNext, Next, Abs!Next
<1>8. QED
  BY <1>6, <1>7

(* The invariant of the code and of its history holds for ever. *)
LEMMA LinInvariance == LinSpec => []LinInv
<1>1. LinInit => LinInv
  BY InitLin
<1>2. LinInv /\ [LinNext]_<<vars, seen>> => LinInv'
  <2>1. SUFFICES ASSUME LinInv, [LinNext]_<<vars, seen>> PROVE LinInv'
    OBVIOUS
  <2>2. Inv'
    BY <2>1, NextInv DEF LinInv, LinNext, vars
  <2>3. CASE LinNext
    BY <2>1, <2>2, <2>3, HistoryNext DEF LinNext, LinInv
  <2>4. CASE UNCHANGED <<vars, seen>>
    BY <2>1, <2>2, <2>4 DEF LinInv, HistoryOK, vars, LinkedKeys
  <2>5. QED
    BY <2>1, <2>3, <2>4
<1>3. QED
  BY <1>1, <1>2, PTL DEF LinSpec

(* setos.h holds of the coarse-grained set: every call takes effect at one *)
(* instant between its start and its return and answers accordingly.       *)
THEOREM CoarseLinearizable == NoSentinelKey => (LinSpec => Linearizable)
<1>1. SUFFICES ASSUME NoSentinelKey PROVE LinSpec => Linearizable
  OBVIOUS
<1>2. LinInit => Abs!Init
  BY InitLin
<1>3. LinInv /\ [LinNext]_<<vars, seen>> => [Abs!Next]_(Abs!vars)
  BY <1>1, NextLin
<1>4. QED
  BY <1>2, <1>3, LinInvariance, PTL DEF LinSpec, Linearizable, Abs!Spec
=============================================================================
