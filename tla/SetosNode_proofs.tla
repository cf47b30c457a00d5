-------------------------- MODULE SetosNode_proofs -------------------------
(***************************************************************************)
(* What the two writes of the list do to it when they are given two        *)
(* neighbours, and what remains true when they are given two nodes that    *)
(* are neighbours no longer; where a walk without locks leads while others *)
(* write; and what each kind of step is in ConcurrentSet: lemmas for the   *)
(* proofs about the variants.                                              *)
(***************************************************************************)
EXTENDS SetosHistory, FiniteSetTheorems, WellFoundedInduction, TLAPS

(* What the two writes keep true of the list. *)
ListOK == HeapTypeOK /\ KeysDistinct /\ Adjacent

(* The types of what a walk of the list meets. *)
LEMMA ListTypes ==
    ASSUME ListOK
    PROVE  /\ HeadNode \notin linked
           /\ \A n \in linked \cup {HeadNode} :
                  /\ n \in Node /\ n \in Addr /\ n # Null
                  /\ key[n] \in Int /\ next[n] \in Addr
<1>1. linked \subseteq Node \ {HeadNode} /\ HeadNode \in Node /\ Null \notin Node
  BY NodeAssumption DEF ListOK, HeapTypeOK, Node, HeadNode, Null
<1>2. QED
  BY <1>1 DEF ListOK, HeapTypeOK, Addr

(* The initial list, built by one add per key, is well formed. *)
LEMMA InitListOK == HeapInit => ListOK
<1>1. SUFFICES ASSUME HeapInit PROVE ListOK
  OBVIOUS
<1>2. HeapTypeOK
  BY <1>1, NodeAssumption DEF HeapInit, HeapTypeOK, Node, Addr, Null
<1> DEFINE L == Len(InitKeys)
<1>3. /\ L \in 0..MaxNodes
      /\ MaxNodes \in Nat
      /\ \A i \in 1..L : InitKeys[i] \in Int
  BY NodeAssumption
<1>4. /\ \A n \in 1..L : key[n] = InitKeys[n]
      /\ key[HeadNode] = IntMin
      /\ \A n \in 0..L : next[n] = IF n < L THEN n + 1 ELSE Null
      /\ linked = 1..L
  <2>1. /\ 0 \in Node /\ 0 \notin 1..L
        /\ \A n \in 1..L : n \in Node
        /\ \A n \in 0..L : n \in Node
    BY <1>3 DEF Node
  <2>2. QED
    BY <1>1, <2>1 DEF HeapInit, HeadNode
<1>5. \A m, n \in 0..L : m < n => key[m] < key[n]
  <2>1. SUFFICES ASSUME NEW m \in 0..L, NEW n \in 0..L, m < n
                 PROVE  key[m] < key[n]
    OBVIOUS
  <2>2. n \in 1..L
    BY <1>3, <2>1
  <2>3. CASE m = HeadNode
    BY <1>4, <2>2, <2>3, NodeAssumption DEF HeadNode
  <2>4. CASE m \in 1..L
    BY <1>4, <2>1, <2>2, <2>4, NodeAssumption
  <2>5. QED
    BY <1>3, <2>3, <2>4 DEF HeadNode
<1>6. \A n \in 0..L : key[n] \in Int
  BY <1>3, <1>4, NodeAssumption DEF HeadNode
<1>7. \A m, n \in 0..L : key[m] <= key[n] => m <= n
  <2>1. SUFFICES ASSUME NEW m \in 0..L, NEW n \in 0..L, n < m
                 PROVE  ~(key[m] <= key[n])
    BY <1>3
  <2>2. key[n] < key[m]
    BY <1>5, <2>1
  <2>3. QED
    BY <1>6, <2>2
<1>8. KeysDistinct
  <2>1. \A m, n \in 1..L : key[m] = key[n] => m <= n /\ n <= m
    BY <1>3, <1>6, <1>7
  <2>2. \A m, n \in 1..L : key[m] = key[n] => m = n
    BY <1>3, <2>1
  <2>3. QED
    BY <1>4, <2>2, NodeAssumption DEF KeysDistinct
<1>9. Adjacent
  <2>1. SUFFICES ASSUME NEW n \in 0..L
                 PROVE  /\ next[n] \in linked \cup {Null}
                        /\ next[n] # Null => key[n] < key[next[n]]
                        /\ \A m \in linked : key[n] < key[m] =>
                               next[n] # Null /\ key[next[n]] <= key[m]
    BY <1>3, <1>4 DEF Adjacent, HeadNode
  <2>2. next[n] \in linked \cup {Null}
    BY <1>3, <1>4
  <2>3. next[n] # Null => next[n] = n + 1 /\ n + 1 \in 0..L /\ n < n + 1
    BY <1>3, <1>4
  <2>4. next[n] # Null => key[n] < key[next[n]]
    BY <1>5, <2>3
  <2>5. ASSUME NEW m \in linked, key[n] < key[m]
        PROVE  next[n] # Null /\ key[next[n]] <= key[m]
    <3>1. m \in 0..L /\ n < m
      <4>1. m \in 0..L
        BY <1>3, <1>4
      <4>2. ~(m <= n)
        <5>1. SUFFICES ASSUME m <= n PROVE FALSE
          OBVIOUS
        <5>2. m = n \/ key[m] < key[n]
          BY <1>3, <1>5, <4>1, <5>1
        <5>3. QED
          BY <1>6, <2>5, <4>1, <5>2
      <4>3. QED
        BY <1>3, <4>1, <4>2
    <3>2. next[n] = n + 1 /\ n + 1 \in 0..L /\ n + 1 # Null
      BY <1>3, <1>4, <3>1 DEF Null
    <3>3. n + 1 = m \/ key[n + 1] < key[m]
      BY <1>3, <1>5, <3>1, <3>2
    <3>4. QED
      BY <1>6, <3>1, <3>2, <3>3
  <2>6. QED
    BY <2>2, <2>4, <2>5
<1>10. QED
  BY <1>2, <1>8, <1>9 DEF ListOK

(* A new node between two neighbours, its key between theirs: the list is  *)
(* well formed again and holds one key more.                               *)
LEMMA LinkListOK ==
    ASSUME ListOK,
           NEW p \in linked \cup {HeadNode}, NEW k \in Int,
           key[p] < k,
           next[p] # Null => k < key[next[p]],
           Link(p, next[p], k)
    PROVE  ListOK' /\ LinkedKeys' = LinkedKeys \cup {k}
<1> DEFINE z == used + 1
<1>1. /\ z \in Node \ (linked \cup {HeadNode})
      /\ linked' = linked \cup {z}
      /\ used' = z
      /\ p \in Node /\ p # z
      /\ linked \subseteq Node
      /\ HeadNode \in Node
  BY NodeAssumption DEF ListOK, HeapTypeOK, Link, Node, HeadNode
<1>2. /\ key' = [key EXCEPT ![z] = k]
      /\ next' = [next EXCEPT ![z] = next[p], ![p] = z]
  BY DEF Link
<1>3. HeapTypeOK'
  <2>1. next[p] \in Addr /\ z \in Addr
    BY <1>1 DEF ListOK, HeapTypeOK, Addr
  <2>2. key' \in [Node -> Int] /\ next' \in [Node -> Addr]
    BY <1>1, <1>2, <2>1 DEF ListOK, HeapTypeOK
  <2>3. linked' \subseteq 1..used'
    BY <1>1 DEF ListOK, HeapTypeOK, Node
  <2>4. QED
    BY <1>1, <2>2, <2>3 DEF HeapTypeOK
<1>4. /\ key'[z] = k
      /\ \A n \in linked \cup {HeadNode} : key'[n] = key[n] /\ key[n] \in Int
      /\ next'[z] = next[p]
      /\ next'[p] = z
      /\ \A n \in linked \cup {HeadNode} : n # p => next'[n] = next[n]
  BY <1>1, <1>2 DEF ListOK, HeapTypeOK
<1>5. \A n \in linked \cup {HeadNode} : n # p => key[n] # key[p]
  BY <1>4 DEF ListOK, KeysDistinct
<1>6. \A m \in linked : key[p] < key[m] => k < key[m]
  BY <1>4 DEF ListOK, Adjacent
<1>7. KeysDistinct'
  <2>1. IntMin < k
    BY <1>4, NodeAssumption DEF ListOK, KeysDistinct
  <2>2. \A m \in linked : key[m] # k
    BY <1>4, <1>6
  <2>3. QED
    BY <1>1, <1>4, <2>1, <2>2 DEF ListOK, KeysDistinct
<1>8. Adjacent'
  <2>1. SUFFICES ASSUME NEW n \in linked \cup {z, HeadNode}
                 PROVE  /\ next'[n] \in linked \cup {z, Null}
                        /\ next'[n] # Null => key'[n] < key'[next'[n]]
                        /\ \A m \in linked \cup {z} : key'[n] < key'[m] =>
                               next'[n] # Null /\ key'[next'[n]] <= key'[m]
    BY <1>1 DEF Adjacent
  <2>2. next[p] \in linked \cup {Null} /\ z # Null
    BY <1>1 DEF ListOK, Adjacent, Null, Node
  <2>3. CASE n = p
    BY <1>1, <1>4, <1>6, <2>2, <2>3
  <2>4. CASE n = z
    <3>1. next'[n] = next[p] /\ key'[n] = k
      BY <1>4, <2>4
    <3>2. next[p] # Null => k < key'[next[p]]
      BY <1>4, <2>2
    <3>3. ASSUME NEW m \in linked \cup {z}, k < key'[m]
          PROVE  next[p] # Null /\ key'[next[p]] <= key'[m]
      <4>1. m \in linked /\ key'[m] = key[m] /\ key[m] \in Int /\ key[p] \in Int
        BY <1>4, <3>3
      <4>2. key[p] < key[m]
        BY <3>3, <4>1
      <4>3. next[p] # Null /\ key[next[p]] <= key[m]
        BY <4>1, <4>2 DEF ListOK, Adjacent
      <4>4. QED
        BY <1>4, <2>2, <4>1, <4>3
    <3>4. QED
      BY <2>2, <3>1, <3>2, <3>3
  <2>5. CASE n \in linked \cup {HeadNode} /\ n # p
    <3>1. next'[n] = next[n] /\ key'[n] = key[n]
      BY <1>4, <2>5
    <3>2. next[n] \in linked \cup {Null} /\ (next[n] # Null => key[n] < key[next[n]])
      BY <2>5 DEF ListOK, Adjacent
    <3>3. ASSUME NEW m \in linked \cup {z}, key'[n] < key'[m]
          PROVE  next[n] # Null /\ key[next[n]] <= key'[m]
      <4>1. CASE m # z
        BY <1>4, <2>5, <3>3, <4>1 DEF ListOK, Adjacent
      <4>2. CASE m = z
        <5>1. key[n] < k
          BY <1>4, <2>5, <3>3, <4>2
        <5>2. key[n] < key[p]
          <6>1. CASE n = HeadNode
            BY <1>4, <1>5, <2>5, <6>1, NodeAssumption DEF ListOK, KeysDistinct
          <6>2. CASE n \in linked
            BY <1>4, <1>5, <1>6, <2>5, <5>1, <6>2
          <6>3. QED
            BY <2>5, <6>1, <6>2
        <5>3. p \in linked
          BY <1>4, <2>5, <5>2, NodeAssumption DEF ListOK, KeysDistinct
        <5>4. next[n] # Null /\ key[next[n]] <= key[p]
          BY <2>5, <5>2, <5>3 DEF ListOK, Adjacent
        <5>5. QED
          <6>1. /\ next[n] \in linked /\ key[next[n]] \in Int
                /\ key[p] \in Int /\ key'[m] = k
            BY <1>4, <3>2, <4>2, <5>4
          <6>2. QED
            BY <5>4, <6>1
      <4>3. QED
        BY <3>3, <4>1, <4>2
    <3>4. QED
      BY <1>1, <1>4, <3>1, <3>2, <3>3
  <2>6. QED
    BY <1>1, <2>1, <2>3, <2>4, <2>5
<1>9. LinkedKeys' = LinkedKeys \cup {k}
  BY <1>1, <1>4 DEF LinkedKeys
<1>10. QED
  BY <1>3, <1>7, <1>8, <1>9 DEF ListOK

(* The bypass of a list node behind its neighbour: the list is well formed *)
(* again and has lost that node's key and no other.                        *)
LEMMA UnlinkListOK ==
    ASSUME ListOK,
           NEW p \in linked \cup {HeadNode},
           next[p] # Null,
           Unlink(p, next[p])
    PROVE  ListOK' /\ LinkedKeys' = LinkedKeys \ {key[next[p]]}
<1> DEFINE z == next[p]
<1>1. /\ z \in linked /\ z \in Node /\ z # HeadNode
      /\ key[p] < key[z]
      /\ p \in Node /\ p # z
      /\ linked \subseteq Node
      /\ HeadNode \in Node
      /\ \A n \in Node : key[n] \in Int /\ next[n] \in Addr
  <2>1. /\ linked \subseteq Node \ {HeadNode}
        /\ HeadNode \in Node
    BY NodeAssumption DEF ListOK, HeapTypeOK, Node, HeadNode
  <2>2. z \in linked /\ key[p] < key[z]
    BY DEF ListOK, Adjacent
  <2>3. \A n \in Node : key[n] \in Int /\ next[n] \in Addr
    BY DEF ListOK, HeapTypeOK
  <2>4. p # z
    BY <2>1, <2>2, <2>3
  <2>5. QED
    BY <2>1, <2>2, <2>3, <2>4
<1>2. /\ key' = key /\ used' = used
      /\ linked' = linked \ {z}
      /\ next'[p] = next[z]
      /\ \A n \in Node : n # p => next'[n] = next[n]
  BY <1>1 DEF Unlink, ListOK, HeapTypeOK
<1>3. HeapTypeOK'
  BY <1>1, <1>2 DEF ListOK, HeapTypeOK, Unlink
<1>4. KeysDistinct'
  BY <1>2 DEF ListOK, KeysDistinct
<1>5. Adjacent'
  <2>1. SUFFICES ASSUME NEW n \in (linked \ {z}) \cup {HeadNode}
                 PROVE  /\ next'[n] \in (linked \ {z}) \cup {Null}
                        /\ next'[n] # Null => key[n] < key[next'[n]]
                        /\ \A m \in linked \ {z} : key[n] < key[m] =>
                               next'[n] # Null /\ key[next'[n]] <= key[m]
    BY <1>2 DEF Adjacent
  <2>2. CASE n = p
    <3>1. /\ next[z] \in linked \cup {Null}
          /\ next[z] # Null => key[z] < key[next[z]]
          /\ \A m \in linked : key[z] < key[m] => next[z] # Null /\ key[next[z]] <= key[m]
      BY <1>1 DEF ListOK, Adjacent
    <3>2. \A m \in linked \ {z} : key[p] < key[m] => key[z] < key[m]
      <4>1. \A m \in linked \ {z} : key[p] < key[m] => key[z] <= key[m]
        BY <1>1 DEF ListOK, Adjacent
      <4>2. \A m \in linked \ {z} : key[m] # key[z]
        BY <1>1 DEF ListOK, KeysDistinct
      <4>3. QED
        BY <1>1, <4>1, <4>2
    <3>3. next[z] # z
      BY <1>1, <3>1 DEF Null, Node
    <3>4. next[z] # Null => key[p] < key[next[z]]
      BY <1>1, <3>1
    <3>5. QED
      BY <1>2, <2>2, <3>1, <3>2, <3>3, <3>4
  <2>3. CASE n # p
    <3>1. /\ n \in linked \cup {HeadNode} /\ n \in Node
          /\ next'[n] = next[n]
          /\ next[n] \in linked \cup {Null}
          /\ next[n] # Null => key[n] < key[next[n]]
          /\ \A m \in linked : key[n] < key[m] => next[n] # Null /\ key[next[n]] <= key[m]
      BY <1>1, <1>2, <2>1, <2>3 DEF ListOK, Adjacent
    <3>2. next[n] # z
      <4>1. SUFFICES ASSUME next[n] = z PROVE FALSE
        OBVIOUS
      <4>2. key[n] < key[z]
        BY <1>1, <3>1, <4>1 DEF Null, Node
      <4>3. key[n] # key[p]
        BY <1>1, <2>3, <3>1 DEF ListOK, KeysDistinct
      <4>4. CASE key[n] < key[p]
        <5>1. p \in linked
          BY <1>1, <3>1, <4>4, NodeAssumption DEF ListOK, KeysDistinct
        <5>2. QED
          BY <1>1, <3>1, <4>1, <4>4, <5>1
      <4>5. CASE key[p] < key[n]
        <5>1. n \in linked
          BY <1>1, <3>1, <4>5, NodeAssumption DEF ListOK, KeysDistinct
        <5>2. key[z] <= key[n]
          BY <1>1, <4>5, <5>1 DEF ListOK, Adjacent
        <5>3. QED
          BY <1>1, <3>1, <4>2, <5>2
      <4>6. QED
        BY <1>1, <3>1, <4>3, <4>4, <4>5
    <3>3. QED
      BY <3>1, <3>2
  <2>4. QED
    BY <2>2, <2>3
<1>6. LinkedKeys' = LinkedKeys \ {key[z]}
  <2>1. \A m \in linked \ {z} : key[m] # key[z]
    BY <1>1 DEF ListOK, KeysDistinct
  <2>2. QED
    BY <1>1, <1>2, <2>1 DEF LinkedKeys
<1>7. QED
  BY <1>3, <1>4, <1>5, <1>6 DEF ListOK

(* The key is in no node between two neighbours. *)
LEMMA Between ==
    ASSUME ListOK, NEW p \in linked \cup {HeadNode}, NEW k \in Int,
           key[p] < k, next[p] # Null => k < key[next[p]]
    PROVE  k \notin LinkedKeys
<1>1. SUFFICES ASSUME NEW m \in linked, key[m] = k PROVE FALSE
  BY DEF LinkedKeys
<1>2. next[p] # Null /\ key[next[p]] <= k /\ next[p] \in linked \cup {Null}
  BY <1>1 DEF ListOK, Adjacent
<1>3. key[next[p]] \in Int
  BY <1>2, ListTypes
<1>4. QED
  BY <1>2, <1>3
-----------------------------------------------------------------------------
(* Induction over the members of a set of numbers. *)
LEMMA LeastMember ==
    ASSUME NEW T \in SUBSET Nat, T # {}
    PROVE  \E m \in T : \A k \in T : m <= k
<1> DEFINE R == {ss \in Nat \X Nat : ss[1] < ss[2]}
<1>1. IsWellFoundedOn(R, Nat)
  BY NatLessThanWellFounded DEF OpToRel
<1>2. PICK m \in T : \A k \in T : ~(<<k, m>> \in R)
  BY <1>1, WFMin
<1>3. ASSUME NEW k \in T PROVE m <= k
  <2>1. k \in Nat /\ m \in Nat
    OBVIOUS
  <2>2. <<k, m>> \notin R
    BY <1>2
  <2>3. ~(k < m)
    BY <2>1, <2>2
  <2>4. QED
    BY <2>1, <2>3
<1>4. QED
  BY <1>3

LEMMA UpTo ==
    ASSUME NEW T, NEW N \in Nat, 0 \in T,
           \A i \in 0..(N - 1) : i \in T => i + 1 \in T
    PROVE  0..N \subseteq T
<1> DEFINE Bad == {i \in 0..N : i \notin T}
<1>1. SUFFICES ASSUME Bad # {} PROVE FALSE
  OBVIOUS
<1>2. PICK m \in Bad : \A k \in Bad : m <= k
  <2>1. Bad \in SUBSET Nat
    OBVIOUS
  <2>2. QED
    BY <1>1, <2>1, LeastMember
<1>3. m \in 0..N /\ m # 0 /\ m - 1 \in 0..(N - 1)
  BY <1>2
<1>4. m - 1 \in T
  BY <1>2, <1>3
<1>5. QED
  BY <1>2, <1>3, <1>4

(* The recursive definition of Walk defines a function. *)
LEMMA WalkDef ==
    ASSUME HeapTypeOK
    PROVE  /\ Walk \in [0..MaxNodes + 1 -> Addr]
           /\ Walk[0] = HeadNode
           /\ \A i \in 0..MaxNodes :
                  Walk[i + 1] = IF Walk[i] = Null THEN Null ELSE next[Walk[i]]
<1> DEFINE M == MaxNodes + 1
           Succ(a) == IF a = Null THEN Null ELSE next[a]
           IsWalk(f, n) ==
               /\ f \in [0..n -> Addr]
               /\ f[0] = HeadNode
               /\ \A i \in 0..(n - 1) : f[i + 1] = Succ(f[i])
           T == {n \in Nat : \E f : IsWalk(f, n)}
<1>1. /\ M \in Nat /\ MaxNodes \in Nat /\ M = MaxNodes + 1
      /\ HeadNode \in Addr /\ \A a \in Addr : Succ(a) \in Addr
  BY NodeAssumption DEF HeapTypeOK, Addr, Node, HeadNode, Null
<1> HIDE DEF Succ, M
<1>2. 0 \in T
  <2>1. IsWalk([i \in 0..0 |-> HeadNode], 0)
    BY <1>1
  <2>2. QED
    BY <2>1
<1>3. ASSUME NEW n \in Nat, n \in T PROVE n + 1 \in T
  <2>1. PICK f : IsWalk(f, n)
    BY <1>3
  <2> DEFINE g == [i \in 0..(n + 1) |-> IF i = n + 1 THEN Succ(f[n]) ELSE f[i]]
  <2>2. /\ \A i \in 0..n : g[i] = f[i] /\ f[i] \in Addr
        /\ g[n + 1] = Succ(f[n])
    BY <2>1
  <2>3. g \in [0..(n + 1) -> Addr]
    BY <1>1, <2>1, <2>2
  <2>4. ASSUME NEW i \in 0..n PROVE g[i + 1] = Succ(g[i])
    <3>1. CASE i = n
      BY <2>2, <3>1
    <3>2. CASE i # n
      <4>1. i \in 0..(n - 1) /\ i + 1 \in 0..n
        BY <3>2
      <4>2. QED
        BY <2>1, <2>2, <4>1
    <3>3. QED
      BY <3>1, <3>2
  <2> HIDE DEF g
  <2>5. IsWalk(g, n + 1)
    BY <2>1, <2>2, <2>3, <2>4
  <2>6. QED
    BY <2>5
<1>4. M \in T
  <2>1. 0..M \subseteq T
    BY <1>1, <1>2, <1>3, UpTo
  <2>2. QED
    BY <1>1, <2>1
<1>5. PICK f : IsWalk(f, M)
  BY <1>4
<1> DEFINE Rec(w) == [i \in 0..M |-> IF i = 0 THEN HeadNode
                         ELSE IF w[i - 1] = Null THEN Null ELSE next[w[i - 1]]]
<1>6. f = Rec(f)
  <2>1. ASSUME NEW i \in 0..M, i # 0 PROVE f[i] = Succ(f[i - 1])
    <3>1. i - 1 \in 0..(M - 1) /\ (i - 1) + 1 = i
      BY <1>1, <2>1
    <3>2. QED
      BY <1>5, <3>1
  <2>2. \A i \in 0..M : f[i] = Rec(f)[i]
    BY <1>5, <2>1 DEF Succ
  <2>3. QED
    BY <1>5, <2>2
<1>7. Walk = Rec(Walk)
  BY <1>6 DEF Walk, M
<1>8. Walk[0] = HeadNode /\ \A i \in 0..MaxNodes : Walk[i + 1] = Succ(Walk[i])
  <2>1. 0 \in 0..M /\ \A i \in 0..MaxNodes : i + 1 \in 0..M /\ i + 1 # 0 /\ (i + 1) - 1 = i
    BY <1>1
  <2>2. QED
    BY <1>7, <2>1 DEF Succ
<1>9. 0..M \subseteq {i \in 0..M : Walk[i] \in Addr}
  <2> DEFINE U == {i \in 0..M : Walk[i] \in Addr}
  <2>1. 0 \in U
    BY <1>1, <1>8
  <2>2. ASSUME NEW i \in 0..(M - 1), i \in U PROVE i + 1 \in U
    <3>1. i \in 0..MaxNodes /\ i + 1 \in 0..M
      BY <1>1
    <3>2. QED
      BY <1>1, <1>8, <2>2, <3>1
  <2> HIDE DEF U
  <2>3. 0..M \subseteq U
    BY <1>1, <2>1, <2>2, UpTo
  <2>4. QED
    BY <2>3 DEF U
<1>10. Walk \in [0..M -> Addr]
  <2>1. DOMAIN Walk = 0..M /\ Walk = [i \in 0..M |-> Walk[i]]
    BY <1>7
  <2>2. QED
    BY <1>9, <2>1
<1>11. QED
  BY <1>8, <1>10 DEF M, Succ

(* A list without gaps holds every list node and no other: what the        *)
(* variants have to keep is that there is no gap.                          *)
LEMMA NothingLost == ListOK => NoLostNode
<1>1. SUFFICES ASSUME ListOK PROVE Reachable = linked
  BY DEF NoLostNode
<1> DEFINE M == MaxNodes + 1
           InList == linked \cup {HeadNode}
<1>2. /\ M \in Nat /\ M - 1 = MaxNodes
      /\ Null \notin InList /\ HeadNode \notin linked
      /\ InList \subseteq Node
      /\ \A n \in InList : key[n] \in Int
  BY <1>1, ListTypes, NodeAssumption
<1>3. /\ Walk[0] = HeadNode
      /\ \A i \in 0..MaxNodes :
             Walk[i + 1] = IF Walk[i] = Null THEN Null ELSE next[Walk[i]]
  BY <1>1, WalkDef DEF ListOK
<1>4. /\ \A n \in InList : next[n] \in linked \cup {Null}
      /\ \A n \in InList : next[n] # Null => key[n] < key[next[n]]
      /\ \A n \in InList : \A m \in linked :
             key[n] < key[m] => next[n] # Null /\ key[next[n]] <= key[m]
      /\ \A m \in linked : key[HeadNode] < key[m]
      /\ \A m, n \in linked : key[m] = key[n] => m = n
  BY <1>1 DEF ListOK, KeysDistinct, Adjacent
<1> HIDE DEF InList
<1>5. \A i \in 0..M : Walk[i] \in InList \cup {Null}
  <2> DEFINE T == {i \in 0..M : Walk[i] \in InList \cup {Null}}
  <2>1. 0 \in T
    BY <1>2, <1>3 DEF InList
  <2>2. ASSUME NEW i \in 0..(M - 1), i \in T PROVE i + 1 \in T
    BY <1>2, <1>3, <1>4, <2>2 DEF InList
  <2>3. 0..M \subseteq T
    BY <1>2, <2>1, <2>2, UpTo
  <2>4. QED
    BY <2>3
<1>6. \A i \in 1..M : Walk[i] \in linked \cup {Null}
  <2>1. SUFFICES ASSUME NEW i \in 1..M PROVE Walk[i] \in linked \cup {Null}
    OBVIOUS
  <2>2. PICK j \in 0..MaxNodes : i = j + 1 /\ j \in 0..M
    <3>1. i - 1 \in 0..MaxNodes /\ i - 1 \in 0..M /\ i = (i - 1) + 1
      BY <1>2
    <3>2. QED
      BY <3>1
  <2>3. Walk[j] \in InList \cup {Null}
    BY <1>5, <2>2
  <2>4. QED
    BY <1>3, <1>4, <2>2, <2>3
<1>7. Reachable \subseteq linked
  BY <1>6 DEF Reachable
<1>8. ASSUME NEW n \in linked PROVE n \in Reachable
  <2>1. SUFFICES ASSUME \A i \in 1..M : Walk[i] # n PROVE FALSE
    BY <1>2 DEF Reachable, InList
  <2> DEFINE T == {i \in 0..M : /\ Walk[i] \in InList
                                /\ key[Walk[i]] < key[n]
                                /\ \A j \in 0..(i - 1) :
                                       Walk[j] \in InList /\ key[Walk[j]] < key[Walk[i]]}
  <2>2. 0 \in T
    BY <1>2, <1>3, <1>4 DEF InList
  <2>3. ASSUME NEW i \in 0..(M - 1), i \in T PROVE i + 1 \in T
    <3>1. /\ i \in 0..M /\ i + 1 \in 1..M /\ i + 1 \in 0..M /\ i \in 0..MaxNodes
          /\ 0..((i + 1) - 1) = (0..(i - 1)) \cup {i}
      BY <1>2
    <3>2. /\ Walk[i] \in InList /\ key[Walk[i]] < key[n]
          /\ \A j \in 0..(i - 1) :
                 Walk[j] \in InList /\ key[Walk[j]] < key[Walk[i]]
      BY <2>3
    <3>3. /\ Walk[i + 1] = next[Walk[i]] /\ next[Walk[i]] \in linked
          /\ key[Walk[i]] < key[Walk[i + 1]] /\ key[Walk[i + 1]] <= key[n]
      BY <1>2, <1>3, <1>4, <3>1, <3>2
    <3>4. Walk[i + 1] # n /\ key[Walk[i + 1]] # key[n]
      BY <1>4, <2>1, <3>1, <3>3
    <3>5. /\ key[Walk[i]] \in Int /\ key[Walk[i + 1]] \in Int /\ key[n] \in Int
          /\ Walk[i + 1] \in InList
      BY <1>2, <3>2, <3>3 DEF InList
    <3>6. ASSUME NEW j \in 0..(i - 1) 
          PROVE  Walk[j] \in InList /\ key[Walk[j]] < key[Walk[i + 1]]
      <4>1. Walk[j] \in InList /\ key[Walk[j]] < key[Walk[i]]
        BY <3>2
      <4>2. key[Walk[j]] \in Int
        BY <1>2, <3>5, <4>1
      <4>3. QED
        BY <3>3, <3>5, <4>1, <4>2
    <3>7. \A j \in 0..((i + 1) - 1) :
              Walk[j] \in InList /\ key[Walk[j]] < key[Walk[i + 1]]
      BY <3>1, <3>2, <3>3, <3>6
    <3>8. key[Walk[i + 1]] < key[n]
      BY <3>3, <3>4, <3>5
    <3>9. QED
      BY <3>1, <3>5, <3>7, <3>8
  <2>4. 0..M \subseteq T
    BY <1>2, <2>2, <2>3, UpTo
  <2> DEFINE f == [i \in 0..M |-> Walk[i]]
  <2>5. f \in [0..M -> Node]
    BY <1>2, <2>4
  <2>6. /\ IsFiniteSet(0..M) /\ IsFiniteSet(Node)
        /\ Cardinality(Node) < Cardinality(0..M)
    BY <1>2, FS_Interval, NodeAssumption DEF Node
  <2>7. PICK x, y \in 0..M : x # y /\ f[x] = f[y]
    <3> HIDE DEF f
    <3>1. QED
      BY <2>5, <2>6, FS_PigeonHole
  <2>8. PICK a, b \in 0..M : a < b /\ Walk[a] = Walk[b]
    <3>1. x < y \/ y < x
      BY <2>7
    <3>2. QED
      BY <2>7, <3>1
  <2>9. key[Walk[a]] < key[Walk[b]] /\ key[Walk[a]] \in Int
    <3>1. a \in 0..(b - 1)
      BY <2>8
    <3>2. QED
      BY <1>2, <2>4, <3>1
  <2>10. QED
    BY <2>8, <2>9
<1>9. QED
  BY <1>7, <1>8

-----------------------------------------------------------------------------
(* A walk without locks: it may stand on a node that is no list node any   *)
(* more, and go on from there.  As long as its key stays in the set, it is *)
(* among nodes from which every way leads to that key; as long as the key  *)
(* stays out of the set, it is among nodes from which none does.           *)

MeetsKey(G, k) ==
    /\ \A n \in linked \cup {HeadNode} : key[n] <= k => n \in G
    /\ \A g \in G : key[g] <= k /\ (key[g] < k => next[g] \in G)

MissesKey(G, k) ==
    /\ linked \cup {HeadNode} \subseteq G
    /\ \A g \in G : key[g] # k /\ next[g] \in G \cup {Null}

WillMeet(n, k) == \E G \in SUBSET (0..used) : MeetsKey(G, k) /\ n \in G

WillMiss(n, k) == \E G \in SUBSET (0..used) : MissesKey(G, k) /\ n \in G \cup {Null}

(* So it is where a walk starts. *)
LEMMA StartMeets ==
    ASSUME ListOK, NEW k \in LinkedKeys
    PROVE  WillMeet(next[HeadNode], k)
<1> DEFINE G == {n \in linked \cup {HeadNode} : key[n] <= k}
<1>1. PICK m \in linked : k = key[m] /\ key[m] \in Int /\ key[HeadNode] < key[m]
  BY ListTypes DEF LinkedKeys, ListOK, KeysDistinct
<1>2. /\ G \subseteq 0..used
      /\ \A n \in linked \cup {HeadNode} : key[n] \in Int
  <2>1. \A n \in linked \cup {HeadNode} : key[n] \in Int
    BY ListTypes
  <2>2. used \in Nat /\ linked \subseteq 1..used /\ 1..used \subseteq 0..used /\ HeadNode \in 0..used
    BY NodeAssumption DEF ListOK, HeapTypeOK, HeadNode, Node
  <2>3. QED
    BY <2>1, <2>2
<1>3. ASSUME NEW n \in linked \cup {HeadNode}, key[n] < k
      PROVE  next[n] \in G
  <2>1. next[n] # Null /\ key[next[n]] <= key[m] /\ next[n] \in linked \cup {Null}
    BY <1>1, <1>3 DEF ListOK, Adjacent
  <2>2. QED
    BY <1>1, <2>1
<1>4. MeetsKey(G, k)
  BY <1>3 DEF MeetsKey
<1>5. next[HeadNode] \in G
  BY <1>1, <1>3
<1> HIDE DEF G
<1>6. QED
  BY <1>2, <1>4, <1>5 DEF WillMeet

LEMMA StartMisses ==
    ASSUME ListOK, NEW k, k # IntMin, k \notin LinkedKeys
    PROVE  WillMiss(next[HeadNode], k)
<1> DEFINE G == linked \cup {HeadNode}
<1>1. G \subseteq 0..used
  BY DEF ListOK, HeapTypeOK, HeadNode, Node
<1>2. \A n \in G : key[n] # k /\ next[n] \in G \cup {Null}
  BY DEF ListOK, KeysDistinct, Adjacent, LinkedKeys
<1>3. MissesKey(G, k) /\ next[HeadNode] \in G \cup {Null}
  BY <1>2 DEF MissesKey
<1> HIDE DEF G
<1>4. QED
  BY <1>1, <1>3 DEF WillMiss

(* And where it goes on. *)
LEMMA StepMeets ==
    ASSUME HeapTypeOK, NEW k \in Int, NEW n, WillMeet(n, k)
    PROVE  n \in 0..used /\ key[n] <= k /\ (key[n] # k => WillMeet(next[n], k))
<1>1. PICK G \in SUBSET (0..used) : MeetsKey(G, k) /\ n \in G
  BY DEF WillMeet
<1>2. n \in 0..used /\ key[n] <= k /\ key[n] \in Int /\ (key[n] < k => next[n] \in G)
  BY <1>1, NodeAssumption DEF MeetsKey, HeapTypeOK, Node
<1>3. ASSUME key[n] # k PROVE WillMeet(next[n], k)
  <2>1. next[n] \in G
    BY <1>2, <1>3
  <2>2. QED
    BY <1>1, <2>1 DEF WillMeet
<1>4. QED
  BY <1>2, <1>3

LEMMA StepMisses ==
    ASSUME NEW k, NEW n, WillMiss(n, k), n # Null
    PROVE  key[n] # k /\ WillMiss(next[n], k)
<1>1. PICK G \in SUBSET (0..used) : MissesKey(G, k) /\ n \in G \cup {Null}
  BY DEF WillMiss
<1>2. key[n] # k /\ next[n] \in G \cup {Null}
  BY <1>1 DEF MissesKey
<1>3. QED
  BY <1>1, <1>2 DEF WillMiss

(* Neither write of the list takes a walk off its way, except that the     *)
(* set changes for its key.                                                *)
LEMMA LinkKeepsWays ==
    ASSUME ListOK, NEW p \in linked \cup {HeadNode}, NEW x \in Int,
           key[p] < x, next[p] # Null => x < key[next[p]], Link(p, next[p], x),
           NEW k \in Int, NEW n
    PROVE  /\ k \in LinkedKeys /\ WillMeet(n, k) => WillMeet(n, k)'
           /\ k # x /\ WillMiss(n, k) => WillMiss(n, k)'
<1> DEFINE z == used + 1
<1>1. /\ used \in Nat /\ used' = z /\ z \in Node /\ z \notin 0..used
      /\ 0..used' = (0..used) \cup {z} /\ 0..used \subseteq Node
      /\ linked' = linked \cup {z} /\ linked \cup {HeadNode} \subseteq 0..used
  BY NodeAssumption DEF ListOK, HeapTypeOK, Link, Node, HeadNode
<1>2. /\ key'[z] = x /\ next'[z] = next[p] /\ next'[p] = z
      /\ \A m \in 0..used : key'[m] = key[m] /\ key[m] \in Int
      /\ \A m \in 0..used : m # p => next'[m] = next[m]
  BY <1>1 DEF ListOK, HeapTypeOK, Link
<1>3. next[p] \in linked \cup {Null}
  BY DEF ListOK, Adjacent
<1>4. ASSUME k \in LinkedKeys, WillMeet(n, k) PROVE WillMeet(n, k)'
  <2>1. PICK G \in SUBSET (0..used) : MeetsKey(G, k) /\ n \in G
    BY <1>4 DEF WillMeet
  <2>2. PICK y \in linked : key[y] = k
    BY <1>4 DEF LinkedKeys
  <2>3. key[p] < k => next[p] # Null /\ key[next[p]] <= k
    BY <2>2 DEF ListOK, Adjacent
  <2>4. key[p] < k => x < k
    BY <1>1, <1>2, <1>3, <2>3
  <2>5. PICK H \in SUBSET (0..used') : H = (IF x <= k THEN G \cup {z} ELSE G) /\ n \in H
    BY <1>1, <2>1
  <2>6. ASSUME NEW g \in H PROVE key'[g] <= k /\ (key'[g] < k => next'[g] \in H)
    <3>1. CASE g = z
      <4>1. x <= k
        BY <1>1, <2>1, <2>5, <3>1
      <4>2. x < k => next[p] \in G
        <5>1. SUFFICES ASSUME x < k PROVE next[p] \in G
          OBVIOUS
        <5>2. key[p] \in Int /\ key[p] < k
          BY <1>1, <1>2, <5>1
        <5>3. QED
          BY <1>3, <2>1, <2>3, <5>2 DEF MeetsKey
      <4>3. QED
        BY <1>2, <2>5, <3>1, <4>1, <4>2
    <3>2. CASE g = p /\ g \in G
      <4>1. key'[p] = key[p] /\ key[p] <= k /\ (key[p] < k => x < k)
        BY <1>1, <1>2, <2>1, <2>4, <3>2 DEF MeetsKey
      <4>2. key[p] < k => z \in H
        <5>1. key[p] < k => x <= k
          BY <4>1
        <5>2. QED
          BY <2>5, <5>1
      <4>3. QED
        BY <1>2, <3>2, <4>1, <4>2
    <3>3. CASE g \in G /\ g # p
      BY <1>1, <1>2, <2>1, <2>5, <3>3 DEF MeetsKey
    <3>4. QED
      BY <2>5, <3>1, <3>2, <3>3
  <2>7. \A m \in linked' \cup {HeadNode} : key'[m] <= k => m \in H
    BY <1>1, <1>2, <2>1, <2>5 DEF MeetsKey
  <2>8. MeetsKey(H, k)'
    BY <2>6, <2>7 DEF MeetsKey
  <2>9. QED
    BY <2>5, <2>8 DEF WillMeet
<1>5. ASSUME k # x, WillMiss(n, k) PROVE WillMiss(n, k)'
  <2>1. PICK G \in SUBSET (0..used) : MissesKey(G, k) /\ n \in G \cup {Null}
    BY <1>5 DEF WillMiss
  <2>2. PICK H \in SUBSET (0..used') : H = G \cup {z} /\ n \in H \cup {Null}
    <3>1. G \cup {z} \subseteq 0..used' /\ n \in (G \cup {z}) \cup {Null}
      BY <1>1, <2>1
    <3>2. QED
      BY <3>1
  <2>3. linked' \cup {HeadNode} \subseteq H
    BY <1>1, <2>1, <2>2 DEF MissesKey
  <2>4. ASSUME NEW g \in H PROVE key'[g] # k /\ next'[g] \in H \cup {Null}
    <3>1. CASE g = z
      BY <1>2, <1>3, <1>5, <2>1, <2>2, <3>1 DEF MissesKey
    <3>2. CASE g \in G
      BY <1>1, <1>2, <2>1, <2>2, <3>2 DEF MissesKey
    <3>3. QED
      BY <2>2, <3>1, <3>2
  <2>5. MissesKey(H, k)'
    BY <2>3, <2>4 DEF MissesKey
  <2>6. QED
    BY <2>2, <2>5 DEF WillMiss
<1>6. QED
  BY <1>4, <1>5

LEMMA UnlinkKeepsWays ==
    ASSUME ListOK, NEW p \in linked \cup {HeadNode}, next[p] # Null,
           Unlink(p, next[p]), NEW k \in Int, NEW n
    PROVE  /\ k \in LinkedKeys' /\ WillMeet(n, k) => WillMeet(n, k)'
           /\ WillMiss(n, k) => WillMiss(n, k)'
<1> DEFINE z == next[p]
<1>1. /\ z \in linked /\ key[p] < key[z]
      /\ key' = key /\ used' = used /\ linked' = linked \ {z}
      /\ p \in 0..used /\ 0..used \subseteq Node /\ linked \cup {HeadNode} \subseteq 0..used
  <2>1. /\ 0..used \subseteq Node /\ HeadNode \in 0..used
        /\ linked \subseteq 0..used
    BY NodeAssumption DEF ListOK, HeapTypeOK, Node, HeadNode
  <2>2. QED
    BY <2>1 DEF ListOK, Adjacent, Unlink
<1>2. /\ next'[p] = next[z]
      /\ \A m \in 0..used : key[m] \in Int
      /\ \A m \in 0..used : m # p => next'[m] = next[m]
  BY <1>1 DEF ListOK, HeapTypeOK, Unlink
<1>3. ASSUME k \in LinkedKeys', WillMeet(n, k) PROVE WillMeet(n, k)'
  <2>1. PICK G \in SUBSET (0..used) : MeetsKey(G, k) /\ n \in G
    BY <1>3 DEF WillMeet
  <2>2. k # key[z]
    BY <1>1, <1>3 DEF LinkedKeys, ListOK, KeysDistinct
  <2>3. ASSUME NEW g \in G PROVE key'[g] <= k /\ (key'[g] < k => next'[g] \in G)
    <3>1. CASE g = p
      <4>1. key[p] <= k /\ (key[p] < k => z \in G /\ key[z] <= k /\ (key[z] < k => next[z] \in G))
        BY <2>1, <3>1 DEF MeetsKey
      <4>2. key[p] < k => key[z] < k
        BY <1>1, <1>2, <2>2, <4>1
      <4>3. QED
        BY <1>1, <1>2, <3>1, <4>1, <4>2
    <3>2. CASE g # p
      BY <1>1, <1>2, <2>1, <3>2 DEF MeetsKey
    <3>3. QED
      BY <3>1, <3>2
  <2>4. MeetsKey(G, k)'
    BY <1>1, <2>1, <2>3 DEF MeetsKey
  <2>5. QED
    BY <1>1, <2>1, <2>4 DEF WillMeet
<1>4. ASSUME WillMiss(n, k) PROVE WillMiss(n, k)'
  <2>1. PICK G \in SUBSET (0..used) : MissesKey(G, k) /\ n \in G \cup {Null}
    BY <1>4 DEF WillMiss
  <2>2. MissesKey(G, k)'
    BY <1>1, <1>2, <2>1 DEF MissesKey
  <2>3. QED
    BY <1>1, <2>1, <2>2 DEF WillMiss
<1>5. QED
  BY <1>3, <1>4

(* The walk of a call of contains(k) that has seen the answers s stands on *)
(* n: it will find its key, unless it may say that it is absent; and it    *)
(* will not find it, unless it may say that it is there.                   *)
Way(n, k, s) == (0 \notin s => WillMeet(n, k)) /\ (1 \notin s => WillMiss(n, k))

LEMMA WayStarts ==
    ASSUME ListOK, NEW k \in Int, k # IntMin, NEW s, Answer(k, LinkedKeys) \in s
    PROVE  Way(next[HeadNode], k, s)
BY StartMeets, StartMisses DEF Way, Answer

LEMMA WayGoesOn ==
    ASSUME HeapTypeOK, NEW k \in Int, NEW s, NEW n, n # Null, key[n] # k, Way(n, k, s)
    PROVE  Way(next[n], k, s)
BY StepMeets, StepMisses DEF Way

LEMMA WayEnds ==
    ASSUME HeapTypeOK, NEW k \in Int, NEW s, NEW n, Way(n, k, s)
    PROVE  /\ n = Null => 0 \in s
           /\ n # Null /\ key[n] = k => 1 \in s
<1>1. WillMeet(n, k) => n \in 0..used
  BY DEF WillMeet
<1>2. Null \notin 0..used
  BY DEF HeapTypeOK, Node, Null
<1>3. QED
  BY <1>1, <1>2, StepMisses DEF Way

(* No step of another thread takes it off its way. *)
LEMMA WayStays ==
    ASSUME UNCHANGED heap, NEW k, NEW n, NEW s, NEW ss, s \subseteq ss, Way(n, k, s)
    PROVE  (0 \notin ss => WillMeet(n, k)') /\ (1 \notin ss => WillMiss(n, k)')
<1>1. UNCHANGED <<key, next, used, linked>>
  BY DEF heap
<1>2. (0 \notin ss => WillMeet(n, k)) /\ (1 \notin ss => WillMiss(n, k))
  BY DEF Way
<1>3. WillMeet(n, k) => WillMeet(n, k)'
  BY <1>1 DEF WillMeet, MeetsKey
<1>4. WillMiss(n, k) => WillMiss(n, k)'
  BY <1>1 DEF WillMiss, MissesKey
<1>5. QED
  BY <1>2, <1>3, <1>4

LEMMA WayKept ==
    ASSUME ListOK, NEW p \in linked \cup {HeadNode}, NEW x \in Int,
           \/ /\ key[p] < x /\ (next[p] # Null => x < key[next[p]])
              /\ Link(p, next[p], x)
           \/ next[p] # Null /\ Unlink(p, next[p]),
           NEW k \in Int, NEW n, NEW s, NEW ss, s \subseteq ss, Way(n, k, s),
           Answer(k, LinkedKeys) \in s, Answer(k, LinkedKeys') \in ss
    PROVE  (0 \notin ss => WillMeet(n, k)') /\ (1 \notin ss => WillMiss(n, k)')
<1>1. (0 \notin ss => WillMeet(n, k)) /\ (1 \notin ss => WillMiss(n, k))
  BY DEF Way
<1>2. /\ 0 \notin ss => k \in LinkedKeys /\ k \in LinkedKeys'
      /\ 1 \notin ss => k \notin LinkedKeys'
  BY DEF Answer
<1>3. CASE /\ key[p] < x /\ (next[p] # Null => x < key[next[p]])
           /\ Link(p, next[p], x)
  <2>1. x \in LinkedKeys'
    BY <1>3, LinkListOK
  <2>2. QED
    BY <1>1, <1>2, <1>3, <2>1, LinkKeepsWays
<1>4. CASE next[p] # Null /\ Unlink(p, next[p])
  BY <1>1, <1>2, <1>4, UnlinkKeepsWays
<1>5. QED
  BY <1>3, <1>4

(* A thread's walk in the next state, whatever it is there. *)
LEMMA WayNext ==
    ASSUME NEW t \in Threads, NEW k, NEW n, NEW ss,
           0 \notin ss => WillMeet(n, k)', 1 \notin ss => WillMiss(n, k)',
           node'[t] = n, arg'[t] = k, seen'[t] = ss
    PROVE  Way(node[t], arg[t], seen[t])'
BY DEF Way, WillMeet, WillMiss, MeetsKey, MissesKey

-----------------------------------------------------------------------------
(* What stays true of the list, the unlinked nodes included, when a write  *)
(* is based on two nodes that need not be neighbours any more.             *)

HeapOK == HeapTypeOK /\ SortedLinks /\ key[HeadNode] = IntMin

(* The keys of nodes never change. *)
KeysKept ==
    /\ used' \in Nat /\ used <= used'
    /\ \A n \in 0..used : key'[n] = key[n]

(* So it is at the start. *)
LEMMA InitHeapOK == HeapInit => HeapOK
<1>1. SUFFICES ASSUME HeapInit PROVE HeapOK
  OBVIOUS
<1> DEFINE L == Len(InitKeys)
<1>2. /\ L \in 0..MaxNodes /\ MaxNodes \in Nat /\ IntMin \in Int
      /\ \A i \in 1..L : InitKeys[i] \in Int
      /\ \A i \in 0..L : i \in Node
      /\ 0 \in Node /\ 0 \notin 1..L /\ \A i \in 1..L : i \in Node
  BY NodeAssumption DEF Node
<1>3. /\ used = L
      /\ \A n \in 1..L : key[n] = InitKeys[n]
      /\ key[HeadNode] = IntMin
      /\ \A n \in 0..L : next[n] = IF n < L THEN n + 1 ELSE Null
  BY <1>1, <1>2 DEF HeapInit, HeadNode
<1>4. HeapTypeOK
  BY <1>1, <1>2 DEF HeapInit, HeapTypeOK, Node, Addr, Null
<1>5. SortedLinks
  <2>1. SUFFICES ASSUME NEW n \in 0..L, next[n] # Null
                 PROVE  next[n] \in 1..L /\ key[n] < key[next[n]]
    BY <1>3 DEF SortedLinks
  <2>2. next[n] = n + 1 /\ n + 1 \in 1..L /\ n < n + 1
    BY <1>2, <1>3, <2>1
  <2>3. CASE n = HeadNode
    BY <1>3, <2>2, <2>3, NodeAssumption
  <2>4. CASE n \in 1..L
    <3>1. InitKeys[n] < InitKeys[n + 1]
      BY <2>2, <2>4, NodeAssumption
    <3>2. QED
      BY <1>3, <2>2, <2>4, <3>1
  <2>5. QED
    BY <1>2, <2>2, <2>3, <2>4 DEF HeadNode
<1>6. QED
  BY <1>3, <1>4, <1>5 DEF HeapOK

(* The facts about addresses every step needs. *)
LEMMA HeapFacts ==
    ASSUME HeapOK
    PROVE  /\ 0..used \subseteq Node /\ HeadNode \in 0..used /\ Null \notin Node
           /\ \A n \in 0..used : key[n] \in Int /\ next[n] \in (0..used) \cup {Null}
<1>1. 0..used \subseteq Node /\ HeadNode \in 0..used /\ Null \notin Node
  BY NodeAssumption DEF HeapOK, HeapTypeOK, Node, HeadNode, Null
<1>2. \A n \in 0..used : key[n] \in Int /\ next[n] \in (0..used) \cup {Null}
  BY <1>1 DEF HeapOK, HeapTypeOK, SortedLinks
<1>3. QED
  BY <1>1, <1>2

(* A step that leaves the list alone keeps it sorted. *)
LEMMA HeapKept == ASSUME HeapOK, UNCHANGED heap PROVE HeapOK' /\ KeysKept
BY DEF heap, HeapOK, HeapTypeOK, SortedLinks, KeysKept, Node

(* Linking a new node between two pointers with smaller and larger keys    *)
(* keeps every link ascending, and no key changes.                         *)
LEMMA LinkHeap ==
    ASSUME HeapOK, NEW p \in 0..used, NEW n \in (0..used) \cup {Null}, NEW k \in Int,
           IntMin <= k, key[p] < k, n # Null => k < key[n], Link(p, n, k)
    PROVE  HeapOK' /\ KeysKept
<1> DEFINE z == used + 1
<1>1. /\ used \in Nat /\ z \in Node /\ z \notin 0..used
      /\ 0..used \subseteq Node /\ HeadNode \in 0..used /\ HeadNode = 0
      /\ 0..z = (0..used) \cup {z}
      /\ n \in Addr /\ z \in Addr
  <2>1. used \in Nat /\ z \in Node /\ z \notin 0..used /\ 0..z = (0..used) \cup {z}
    BY NodeAssumption DEF HeapOK, HeapTypeOK, Link, Node
  <2>2. 0..used \subseteq Node /\ HeadNode \in 0..used /\ HeadNode = 0
    BY HeapFacts DEF HeadNode
  <2>3. QED
    BY <2>1, <2>2 DEF Addr
<1>2. k \in Int /\ IntMin <= k /\ IntMin \in Int
  BY NodeAssumption
<1>3. /\ key' = [key EXCEPT ![z] = k]
      /\ next' = [next EXCEPT ![z] = n, ![p] = z]
      /\ used' = z
      /\ linked' = linked \cup {z}
  BY DEF Link
<1>4. HeapTypeOK'
  <2>1. key' \in [Node -> Int] /\ next' \in [Node -> Addr]
    BY <1>1, <1>2, <1>3 DEF HeapOK, HeapTypeOK
  <2>2. linked' \subseteq 1..used' /\ used' \in Node
    BY <1>1, <1>3 DEF HeapOK, HeapTypeOK
  <2>3. QED
    BY <2>1, <2>2 DEF HeapTypeOK
<1>5. /\ key'[z] = k
      /\ \A m \in 0..used : key'[m] = key[m] /\ key[m] \in Int
      /\ next'[z] = n /\ next'[p] = z
      /\ \A m \in 0..used : m # p => next'[m] = next[m]
  BY <1>1, <1>3 DEF HeapOK, HeapTypeOK
<1>6. n # Null => n \in 1..used
  <2>1. n # Null => key[n] # key[HeadNode]
    BY <1>2, <1>5 DEF HeapOK
  <2>2. QED
    BY <1>1, <2>1
<1>7. SortedLinks'
  <2>1. SUFFICES ASSUME NEW m \in 0..z, next'[m] # Null
                 PROVE  next'[m] \in 1..z /\ key'[m] < key'[next'[m]]
    BY <1>3 DEF SortedLinks
  <2>2. CASE m = z
    BY <1>1, <1>5, <1>6, <2>1, <2>2
  <2>3. CASE m = p
    BY <1>1, <1>5, <2>3
  <2>4. CASE m \in 0..used /\ m # p
    <3>1. next[m] \in 1..used /\ key[m] < key[next[m]] /\ next'[m] = next[m]
      BY <1>5, <2>1, <2>4 DEF HeapOK, SortedLinks
    <3>2. QED
      BY <1>1, <1>5, <2>4, <3>1
  <2>5. QED
    BY <1>1, <2>2, <2>3, <2>4
<1>8. QED
  BY <1>1, <1>3, <1>4, <1>5, <1>7 DEF HeapOK, KeysKept

(* Bypassing a node keeps every link ascending, for its successor's key is *)
(* larger still.                                                           *)
LEMMA UnlinkHeap ==
    ASSUME HeapOK, NEW p \in 0..used, NEW n \in 0..used, key[p] < key[n], Unlink(p, n)
    PROVE  HeapOK' /\ KeysKept
<1>1. /\ used \in Nat /\ 0..used \subseteq Node
      /\ key' = key /\ used' = used /\ linked' \subseteq linked
      /\ next' = [next EXCEPT ![p] = next[n]]
  BY HeapFacts DEF HeapOK, HeapTypeOK, Node, Unlink
<1>2. HeapTypeOK'
  BY <1>1 DEF HeapOK, HeapTypeOK
<1>3. /\ next'[p] = next[n]
      /\ \A m \in 0..used : m # p => next'[m] = next[m]
  BY <1>1 DEF HeapOK, HeapTypeOK
<1>4. SortedLinks'
  <2>1. SUFFICES ASSUME NEW m \in 0..used, next'[m] # Null
                 PROVE  next'[m] \in 1..used /\ key[m] < key[next'[m]]
    BY <1>1 DEF SortedLinks
  <2>2. CASE m = p
    <3>1. next[n] \in 1..used /\ key[n] < key[next[n]]
      BY <1>3, <2>1, <2>2 DEF HeapOK, SortedLinks
    <3>2. key[p] \in Int /\ key[n] \in Int /\ key[next[n]] \in Int
      BY <3>1, HeapFacts
    <3>3. QED
      BY <1>3, <2>2, <3>1, <3>2
  <2>3. CASE m # p
    BY <1>3, <2>1, <2>3 DEF HeapOK, SortedLinks
  <2>4. QED
    BY <2>2, <2>3
<1>5. QED
  BY <1>1, <1>2, <1>4 DEF HeapOK, KeysKept
-----------------------------------------------------------------------------
(* The history, which every variant keeps in the same way: what each kind  *)
(* of step is in ConcurrentSet.  L stands for the variant's locations.     *)

(* What the history knows: nothing between calls, and during a call at     *)
(* least the answer that is true now.                                      *)
HistoryOK ==
    /\ seen \in [Threads -> SUBSET {0, 1}]
    /\ \A t \in Threads : IF op[t] = "none" THEN seen[t] = {}
                          ELSE Answer(arg[t], LinkedKeys) \in seen[t]

absVars == <<LinkedKeys, op, arg, {t \in Threads : pc[t] = "unlock"}, seen, ret>>

(* The empty history is right, and the initial states match. *)
LEMMA InitHistory ==
    ASSUME HeapInit, FrameInit, NoneSeen PROVE HistoryOK /\ Abs!Init
<1>1. HistoryOK
  BY DEF NoneSeen, HistoryOK, FrameInit
<1>2. LinkedKeys = {InitKeys[i] : i \in 1..Len(InitKeys)}
  <2>1. \A i \in 1..Len(InitKeys) : i \in Node
    BY NodeAssumption DEF Node
  <2>2. linked = 1..Len(InitKeys) /\ \A i \in 1..Len(InitKeys) : key[i] = InitKeys[i]
    BY <2>1 DEF HeapInit
  <2>3. QED
    BY <2>2 DEF LinkedKeys
<1>3. Abs!Init
  BY <1>2 DEF FrameInit, NoneSeen, NoResult, Abs!Init
<1>4. QED
  BY <1>1, <1>3

(* The history stays right, whatever step is taken. *)
LEMMA HistoryNext ==
    ASSUME HistoryOK, Observe
    PROVE  /\ HistoryOK'
           /\ \A t \in Threads : op'[t] = op[t] => seen[t] \subseteq seen'[t]
<1>1. \A t \in Threads :
          seen'[t] = IF op'[t] = "none" THEN {}
                     ELSE (IF op[t] = "none" THEN {} ELSE seen[t])
                              \cup {Answer(arg'[t], LinkedKeys')}
  BY DEF Observe
<1>2. \A t \in Threads : Answer(arg'[t], LinkedKeys') \in {0, 1}
  BY DEF Answer
<1>3. \A t \in Threads : seen'[t] \in SUBSET {0, 1}
  <2>1. SUFFICES ASSUME NEW t \in Threads PROVE seen'[t] \subseteq {0, 1}
    OBVIOUS
  <2>2. seen[t] \subseteq {0, 1}
    BY DEF HistoryOK
  <2>3. QED
    BY <1>1, <1>2, <2>2
<1>4. seen' \in [Threads -> SUBSET {0, 1}]
  BY <1>3 DEF Observe
<1>5. QED
  BY <1>1, <1>4 DEF HistoryOK

(* A call that has seen only one answer: it is the one that is true now.   *)
LEMMA SeenNow ==
    ASSUME HistoryOK, NEW t \in Threads, op[t] # "none"
    PROVE  /\ arg[t] \in LinkedKeys => 1 \in seen[t]
           /\ arg[t] \notin LinkedKeys => 0 \in seen[t]
BY DEF HistoryOK, Answer

(* A step that changes neither the set nor a call is no step of the        *)
(* abstract set.                                                           *)
LEMMA Stutter ==
    ASSUME HistoryOK, Observe, LinkedKeys' = LinkedKeys,
           UNCHANGED <<op, arg, ret>>,
           {t \in Threads : pc'[t] = "unlock"} = {t \in Threads : pc[t] = "unlock"}
    PROVE  UNCHANGED absVars
<1>1. \A t \in Threads : seen'[t] = seen[t]
  BY DEF Observe, HistoryOK
<1>2. seen' = seen
  BY <1>1 DEF Observe, HistoryOK
<1>3. QED
  BY <1>2 DEF absVars

(* So is a step within a call that neither reaches the write of prev->next *)
(* nor starts from it.                                                     *)
LEMMA MoveLin ==
    ASSUME NEW L, FrameTypeOK(L), HistoryOK, Observe, LinkedKeys' = LinkedKeys,
           NEW t \in Threads, NEW where, NEW n, NEW p,
           pc[t] # "unlock", where # "unlock", Goto(t, where, n, p)
    PROVE  UNCHANGED absVars
<1>1. pc' = [pc EXCEPT ![t] = where] /\ UNCHANGED <<op, arg, ret>>
  BY DEF Goto
<1>2. pc'[t] = where /\ \A u \in Threads \ {t} : pc'[u] = pc[u]
  BY <1>1 DEF FrameTypeOK
<1>3. {u \in Threads : pc'[u] = "unlock"} = {u \in Threads : pc[u] = "unlock"}
  BY <1>2
<1>4. QED
  BY <1>1, <1>3, Stutter

(* A return: the answer given was true at some instant of the call. *)
LEMMA ReturnLin ==
    ASSUME NEW L, FrameTypeOK(L), HistoryOK, Observe, LinkedKeys' = LinkedKeys,
           NEW t \in Threads, NEW r \in {0, 1}, op[t] # "none", Finish(t, r),
           \/ pc[t] = "unlock" /\ r = 1
           \/ pc[t] # "unlock" /\ op[t] = "add" /\ r = 0 /\ 1 \in seen[t]
           \/ pc[t] # "unlock" /\ op[t] = "remove" /\ r = 0 /\ 0 \in seen[t]
           \/ op[t] = "contains" /\ r \in seen[t]
    PROVE  Abs!Return(t)
<1>1. /\ pc' = [pc EXCEPT ![t] = "idle"]
      /\ op' = [op EXCEPT ![t] = "none"]
      /\ arg' = [arg EXCEPT ![t] = IntMin]
      /\ ret' = [ret EXCEPT ![t] = r]
  BY DEF Finish
<1>2. /\ op'[t] = "none" /\ pc'[t] = "idle"
      /\ \A u \in Threads \ {t} : op'[u] = op[u] /\ arg'[u] = arg[u] /\ pc'[u] = pc[u]
  BY <1>1 DEF FrameTypeOK
<1>3. seen' = [seen EXCEPT ![t] = {}]
  <2>1. seen'[t] = {}
    BY <1>2 DEF Observe
  <2>2. \A u \in Threads \ {t} : seen'[u] = seen[u]
    BY <1>2 DEF Observe, HistoryOK
  <2>3. QED
    BY <2>1, <2>2 DEF Observe, HistoryOK
<1>4. {u \in Threads : pc'[u] = "unlock"} = {u \in Threads : pc[u] = "unlock"} \ {t}
  BY <1>2
<1>5. Abs!Result(t, r)
  BY DEF Abs!Result
<1>6. QED
  BY <1>1, <1>3, <1>4, <1>5 DEF Abs!Return

(* A call of setos_add, setos_remove or setos_contains is an Invoke of the *)
(* abstract set, whose answer at that instant is the one recorded.         *)
LEMMA CallLin ==
    ASSUME NEW L, FrameTypeOK(L), HistoryOK, Observe, LinkedKeys' = LinkedKeys,
           NEW t \in Threads, NEW o \in Operations, NEW where, NEW n, NEW p,
           pc[t] # "unlock", where # "unlock", Begin(t, o, where, n, p)
    PROVE  Abs!Invoke(t)
<1>1. PICK k \in Keys : arg' = [arg EXCEPT ![t] = k]
  BY DEF Begin
<1>2. /\ pc' = [pc EXCEPT ![t] = where]
      /\ op' = [op EXCEPT ![t] = o]
      /\ ret' = [ret EXCEPT ![t] = -1]
      /\ op[t] = "none"
  BY DEF Begin, NoResult
<1>3. /\ pc'[t] = where /\ op'[t] = o /\ arg'[t] = k
      /\ \A u \in Threads \ {t} : op'[u] = op[u] /\ arg'[u] = arg[u] /\ pc'[u] = pc[u]
  BY <1>1, <1>2 DEF FrameTypeOK
<1>4. seen' = [seen EXCEPT ![t] = {Answer(k, LinkedKeys)}]
  <2>1. seen'[t] = {Answer(k, LinkedKeys)}
    BY <1>2, <1>3 DEF Observe, Operations
  <2>2. \A u \in Threads \ {t} : seen'[u] = seen[u]
    BY <1>3 DEF Observe, HistoryOK
  <2>3. QED
    BY <2>1, <2>2 DEF Observe, HistoryOK
<1>5. {u \in Threads : pc'[u] = "unlock"} = {u \in Threads : pc[u] = "unlock"}
  BY <1>3
<1>6. Abs!Answer(k, LinkedKeys) = Answer(k, LinkedKeys)
  BY DEF Abs!Answer, Answer
<1>7. QED
  BY <1>1, <1>2, <1>4, <1>5, <1>6 DEF Abs!Invoke, Operations

(* The write of prev->next is the instant a successful call takes effect. *)
LEMMA EffectLin ==
    ASSUME NEW L, FrameTypeOK(L), HistoryOK, Observe,
           NEW t \in Threads, pc[t] # "unlock", Proceed(t, "unlock"),
           \/ /\ op[t] = "add" /\ arg[t] \notin LinkedKeys
              /\ LinkedKeys' = LinkedKeys \cup {arg[t]}
           \/ /\ op[t] = "remove" /\ arg[t] \in LinkedKeys
              /\ LinkedKeys' = LinkedKeys \ {arg[t]}
    PROVE  Abs!Add(t) \/ Abs!Remove(t)
<1>1. pc' = [pc EXCEPT ![t] = "unlock"] /\ UNCHANGED <<op, arg, ret>>
  BY DEF Proceed, Goto
<1>2. pc'[t] = "unlock" /\ \A u \in Threads \ {t} : pc'[u] = pc[u]
  BY <1>1 DEF FrameTypeOK
<1>3. {u \in Threads : pc'[u] = "unlock"} = {u \in Threads : pc[u] = "unlock"} \cup {t}
  BY <1>2
<1>4. ASSUME NEW S, LinkedKeys' = S PROVE Abs!TakeEffect(t, S)
  <2>1. \A u \in Threads : Abs!Answer(arg[u], S) = Answer(arg'[u], LinkedKeys')
    BY <1>1, <1>4 DEF Abs!Answer, Answer
  <2>2. seen' = [u \in Threads |->
                    IF op[u] = "none" THEN {} ELSE seen[u] \cup {Abs!Answer(arg[u], S)}]
    BY <1>1, <2>1 DEF Observe
  <2>3. QED
    BY <1>1, <1>3, <1>4, <2>2 DEF Abs!TakeEffect
<1>5. QED
  BY <1>4 DEF Abs!Add, Abs!Remove, Abs!TakeEffect
=============================================================================
