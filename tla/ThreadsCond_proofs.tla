------------------------- MODULE ThreadsCond_proofs --------------------------
(***************************************************************************)
(* The producer and its consumers, for any number of them and of elements: *)
(* the flag never lies, and the signals at the end wake every sleeper.     *)
(***************************************************************************)
EXTENDS ThreadsCond, FiniteSetTheorems, TLAPS

(* What has been shared was taken from what main had to share. *)
CountOK == sharedElement + left <= Elements

(* main signals after `done' is set only, once for each consumer. *)
PhaseOK ==
    /\ done <=> main # "produce"
    /\ main = "produce" => i = 0
    /\ main \in {"sleep", "ended"} => i = NUMTHREADS

(* The signals still to come are enough for the consumers asleep. *)
SignalsSuffice == done => Cardinality(Sleeping) <= NUMTHREADS - i

Inv == TypeOK /\ FlagOK /\ CountOK /\ PhaseOK /\ SignalsSuffice

-----------------------------------------------------------------------------
(* The sleepers can be counted, and are consumers. *)
LEMMA SleepersCounted ==
    /\ NUMTHREADS \in Nat
    /\ IsFiniteSet(Sleeping) /\ Cardinality(Sleeping) \in Nat
    /\ Cardinality(Sleeping) <= NUMTHREADS
<1>1. IsFiniteSet(Consumers)
  BY CondAssumption
<1>2. Sleeping \subseteq Consumers
  BY DEF Sleeping
<1>3. QED
  BY <1>1, <1>2, FS_Subset, FS_CardinalityType DEF NUMTHREADS

(* A consumer that goes anywhere but to sleep adds no sleeper, and one     *)
(* that is woken is one sleeper less.                                      *)
LEMMA NoneFallsAsleep ==
    ASSUME TypeOK, NEW w \in Consumers, NEW l, l # "wait",
           pc' = [pc EXCEPT ![w] = l]
    PROVE  /\ Cardinality(Sleeping') \in Nat
           /\ Cardinality(Sleeping') <= Cardinality(Sleeping)
           /\ w \in Sleeping => Cardinality(Sleeping') = Cardinality(Sleeping) - 1
<1> DEFINE S == Sleeping
           T == Sleeping'
<1>1. T = S \ {w}
  BY DEF TypeOK, Sleeping
<1>2. IsFiniteSet(S)
  BY SleepersCounted
<1> HIDE DEF S, T
<1>3. /\ Cardinality(S) \in Nat
      /\ Cardinality(T) = IF w \in S THEN Cardinality(S) - 1 ELSE Cardinality(S)
  BY <1>1, <1>2, FS_RemoveElement, FS_CardinalityType
<1>4. IsFiniteSet(T)
  BY <1>1, <1>2, FS_RemoveElement
<1>5. Cardinality(T) \in Nat
  BY <1>4, FS_CardinalityType
<1>6. QED
  BY <1>3, <1>5 DEF S, T

LEMMA InitInv == Init => Inv
<1> SUFFICES ASSUME Init PROVE Inv
  OBVIOUS
<1>1. NUMTHREADS \in Nat /\ Elements \in Nat
  BY SleepersCounted, CondAssumption
<1>2. TypeOK
  <2>1. canConsume \in BOOLEAN /\ done \in BOOLEAN
    BY Zenon DEF Init
  <2>2. pc \in [Consumers -> {"lock", "loop", "wait", "ended"}]
    BY DEF Init
  <2>3. QED
    BY <1>1, <2>1, <2>2 DEF Init, TypeOK
<1>3. FlagOK /\ CountOK /\ PhaseOK /\ SignalsSuffice
  BY <1>1 DEF Init, FlagOK, CountOK, PhaseOK, SignalsSuffice
<1>4. QED
  BY <1>2, <1>3 DEF Inv

(* A signal is one sleeper less, unless there is none. *)
LEMMA SignalWakes ==
    ASSUME TypeOK, SignalOne
    PROVE  /\ pc' \in [Consumers -> {"lock", "loop", "wait", "ended"}]
           /\ Cardinality(Sleeping') \in Nat
           /\ \/ Cardinality(Sleeping') = 0
              \/ Cardinality(Sleeping') = Cardinality(Sleeping) - 1
<1>1. CASE Sleeping = {} /\ UNCHANGED pc
  <2>1. Sleeping' = {}
    BY <1>1 DEF Sleeping
  <2>2. QED
    BY <1>1, <2>1, FS_EmptySet DEF TypeOK
<1>2. CASE \E w \in Sleeping : pc' = [pc EXCEPT ![w] = "lock"]
  <2>1. PICK w \in Sleeping : pc' = [pc EXCEPT ![w] = "lock"]
    BY <1>2
  <2>2. w \in Consumers
    BY DEF Sleeping
  <2>3. pc' \in [Consumers -> {"lock", "loop", "wait", "ended"}]
    BY <2>1, <2>2 DEF TypeOK
  <2>4. QED
    BY <2>1, <2>2, <2>3, NoneFallsAsleep
<1>3. QED
  BY <1>1, <1>2 DEF SignalOne

LEMMA MainKeepsInv == ASSUME Inv, MainStep \/ Exit PROVE Inv'
<1> USE SleepersCounted, CondAssumption DEF Inv
<1>1. CASE Produce
  <2>1. TypeOK'
    BY <1>1, SignalWakes DEF Produce, TypeOK, CountOK, data
  <2>2. FlagOK' /\ CountOK' /\ PhaseOK'
    BY <1>1 DEF Produce, TypeOK, FlagOK, CountOK, PhaseOK, NUMTHREADS
  <2>3. SignalsSuffice'
    BY <1>1 DEF Produce, PhaseOK, SignalsSuffice
  <2>4. QED
    BY <2>1, <2>2, <2>3
<1>2. CASE Finish
  <2>1. Sleeping' = Sleeping
    BY <1>2 DEF Finish, Sleeping
  <2>2. QED
    BY <1>2, <2>1 DEF Finish, TypeOK, FlagOK, CountOK, PhaseOK, SignalsSuffice,
                      data, NUMTHREADS
<1>3. CASE SignalEnd /\ i < NUMTHREADS
  <2>1. TypeOK'
    BY <1>3, SignalWakes DEF SignalEnd, TypeOK, data, NUMTHREADS
  <2>2. FlagOK' /\ CountOK' /\ PhaseOK'
    BY <1>3 DEF SignalEnd, TypeOK, FlagOK, CountOK, PhaseOK, data, NUMTHREADS
  <2>3. Cardinality(Sleeping') <= NUMTHREADS - i'
    BY <1>3, SignalWakes DEF SignalEnd, TypeOK, SignalsSuffice, PhaseOK
  <2>4. QED
    BY <2>1, <2>2, <2>3 DEF SignalsSuffice, NUMTHREADS
<1>4. CASE SignalEnd /\ ~(i < NUMTHREADS)
  <2>1. Sleeping' = Sleeping
    BY <1>4 DEF SignalEnd, Sleeping
  <2>2. QED
    BY <1>4, <2>1 DEF SignalEnd, TypeOK, FlagOK, CountOK, PhaseOK,
                      SignalsSuffice, data, NUMTHREADS
<1>5. CASE Exit
  <2>1. Sleeping' = Sleeping
    BY <1>5 DEF Exit, Sleeping
  <2>2. QED
    BY <1>5, <2>1 DEF Exit, TypeOK, FlagOK, CountOK, PhaseOK, SignalsSuffice,
                      data, NUMTHREADS
<1>6. QED
  BY <1>1, <1>2, <1>3, <1>4, <1>5 DEF MainStep

LEMMA ConsumerKeepsInv ==
    ASSUME Inv, NEW w \in Consumers, Step(w) \/ WakeUp(w)
    PROVE  Inv'
<1> USE SleepersCounted, CondAssumption DEF Inv
(* done, main and i are main's alone. *)
<1>1. UNCHANGED <<done, mainVars>>
  BY DEF Step, WakeUp, Lock, Leave, Consume, Wait
<1>2. PhaseOK'
  BY <1>1 DEF PhaseOK, mainVars, NUMTHREADS
<1>3. CASE Lock(w) \/ Leave(w) \/ WakeUp(w)
  <2>1. PICK l \in {"loop", "ended", "lock"} : pc' = [pc EXCEPT ![w] = l]
    BY <1>3 DEF Lock, Leave, WakeUp, Goes
  <2>2. TypeOK' /\ FlagOK' /\ CountOK'
    BY <1>1, <1>3, <2>1 DEF Lock, Leave, WakeUp, TypeOK, FlagOK, CountOK,
                            data, mainVars, NUMTHREADS
  <2>3. Cardinality(Sleeping') \in Nat /\ Cardinality(Sleeping') <= Cardinality(Sleeping)
    BY <2>1, NoneFallsAsleep
  <2>4. SignalsSuffice'
    BY <1>1, <2>3 DEF TypeOK, SignalsSuffice, mainVars, NUMTHREADS
  <2>5. QED
    BY <1>2, <2>2, <2>4
<1>4. CASE Consume(w)
  <2>1. Sleeping' = Sleeping
    BY <1>4 DEF Consume, Sleeping
  <2>2. sharedElement \in 1..Elements /\ sharedElement' = sharedElement - 1
    BY <1>4 DEF Consume, TypeOK, FlagOK
  <2>3. UNCHANGED <<done, mutex, pc, main, left, i>>
    BY <1>4 DEF Consume, mainVars
  <2>4. canConsume' = (sharedElement # 1)
    BY <1>4 DEF Consume
  <2>5. canConsume' \in BOOLEAN
    BY <2>4, Zenon
  <2>6. TypeOK'
    BY <2>2, <2>3, <2>5 DEF TypeOK, NUMTHREADS
  <2>7. FlagOK'
    <3>1. (sharedElement # 1) <=> sharedElement' > 0
      BY <2>2
    <3>2. QED
      BY <2>4, <3>1, Zenon DEF FlagOK
  <2>8. CountOK'
    BY <2>2, <2>3 DEF TypeOK, CountOK
  <2>9. SignalsSuffice'
    BY <2>1, <2>3 DEF SignalsSuffice, NUMTHREADS
  <2>10. QED
    BY <1>2, <2>6, <2>7, <2>8, <2>9
<1>5. CASE Wait(w)
  <2>1. TypeOK' /\ FlagOK' /\ CountOK'
    BY <1>5 DEF Wait, Goes, TypeOK, FlagOK, CountOK, data, mainVars, NUMTHREADS
  <2>2. SignalsSuffice'
    BY <1>5 DEF Wait, SignalsSuffice
  <2>3. QED
    BY <1>2, <2>1, <2>2
<1>6. QED
  BY <1>3, <1>4, <1>5 DEF Step

LEMMA NextKeepsInv == Inv /\ [Next]_vars => Inv'
<1> SUFFICES ASSUME Inv, [Next]_vars PROVE Inv'
  OBVIOUS
<1>1. CASE MainStep \/ Exit
  BY <1>1, MainKeepsInv
<1>2. ASSUME NEW w \in Consumers, Step(w) \/ WakeUp(w) PROVE Inv'
  BY <1>2, ConsumerKeepsInv
<1>3. CASE UNCHANGED vars
  <2>1. Sleeping' = Sleeping
    BY <1>3 DEF vars, Sleeping
  <2>2. QED
    BY <1>3, <2>1 DEF Inv, vars, TypeOK, FlagOK, CountOK, PhaseOK, SignalsSuffice,
                      data, mainVars, NUMTHREADS
<1>4. QED
  BY <1>1, <1>2, <1>3 DEF Next

LEMMA Invariance == Spec => []Inv
<1>1. QED
  BY InitInv, NextKeepsInv, PTL DEF Spec

(* No element is taken that is not there, whoever was woken first: the     *)
(* inner while loop of theThread() makes up for stolen and for spurious    *)
(* wakeups.                                                                *)
THEOREM FlagNeverLies == Spec => [](TypeOK /\ FlagOK)
<1>1. Inv => TypeOK /\ FlagOK
  BY DEF Inv
<1>2. QED
  BY <1>1, Invariance, PTL

(* NUM_THREADS signals are enough for main's "signal consumers they should *)
(* exit": whoever was asleep when `done' was set is woken by one of them.  *)
THEOREM AllAreWoken == Spec => []NobodyLeftAsleep
<1>1. Inv => NobodyLeftAsleep
  <2>1. SUFFICES ASSUME Inv, main \in {"sleep", "ended"} PROVE Sleeping = {}
    BY DEF NobodyLeftAsleep
  <2>2. Cardinality(Sleeping) = 0
    BY <2>1, SleepersCounted DEF Inv, PhaseOK, SignalsSuffice
  <2>3. QED
    BY <2>2, SleepersCounted, FS_EmptySet
<1>2. QED
  BY <1>1, Invariance, PTL
=============================================================================
