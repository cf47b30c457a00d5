------------------------- MODULE SetosServer_proofs ------------------------
(***************************************************************************)
(* The condition variable of the server, for any number of workers and     *)
(* connections: no wakeup is lost, and main's signals at the end wake      *)
(* every worker that sleeps.  And what the queue does with the sockets: a  *)
(* connection is in one place at a time.                                   *)
(***************************************************************************)
EXTENDS SetosServer, FiniteSetTheorems, SequenceTheorems, TLAPS

Locations == {"check", "check_done", "dequeue", "wait", "serve", "spin", "ended"}

Closing == {"signal", "sleep", "exited"}

(* The flag read outside the mutex agrees with the list. *)
FlagOK == queue_empty <=> queue = <<>>

(* main sends its signals after SIGINT only, and leaves when all are sent. *)
PhaseOK ==
    /\ main \in Closing => done
    /\ main \notin Closing => signals = 0
    /\ main \in {"sleep", "exited"} => signals = Cardinality(Workers)

(* The signals still to come are enough for the workers asleep. *)
SignalsSuffice ==
    main \in Closing => Cardinality(Waiting) <= Cardinality(Workers) - signals

Inv == TypeOK /\ FlagOK /\ PhaseOK /\ SignalsSuffice /\ NoLostWakeup

-----------------------------------------------------------------------------
(* What is assumed of the constants, but for the bytes of the commands. *)
LEMMA Constants ==
    /\ IsFiniteSet(Workers) /\ NoSocket \notin Clients
    /\ CommandBytes \in Nat \ {0} /\ MaxSent \in [Clients -> Nat]
    /\ MaxFailures \in Nat /\ MaxReplies \in Nat
BY ServerAssumption

(* Two sets that agree on everything but x. *)
LEMMA CountChanged ==
    ASSUME NEW S, NEW T, NEW x, IsFiniteSet(S), S \ {x} = T \ {x}
    PROVE  /\ Cardinality(S) \in Nat
           /\ Cardinality(T) = Cardinality(S) - (IF x \in S THEN 1 ELSE 0)
                                              + (IF x \in T THEN 1 ELSE 0)
<1>1. Cardinality(S) \in Nat
  BY FS_CardinalityType
<1>2. CASE x \in T
  <2>1. T = S \cup {x}
    BY <1>2
  <2>2. Cardinality(T) = IF x \in S THEN Cardinality(S) ELSE Cardinality(S) + 1
    BY <2>1, FS_AddElement
  <2>3. QED
    BY <1>1, <1>2, <2>2
<1>3. CASE x \notin T
  <2>1. T = S \ {x}
    BY <1>3
  <2>2. Cardinality(T) = IF x \in S THEN Cardinality(S) - 1 ELSE Cardinality(S)
    BY <2>1, FS_RemoveElement
  <2>3. QED
    BY <1>1, <1>3, <2>2
<1>4. QED
  BY <1>2, <1>3

(* One worker changes its location: how many sleep then, how many come? *)
LEMMA WorkerMoves ==
    ASSUME TypeOK, NEW x \in Workers, NEW l, pc' = [pc EXCEPT ![x] = l]
    PROVE  /\ Cardinality(Waiting') =
                  Cardinality(Waiting)
                      - (IF pc[x] = "wait" THEN 1 ELSE 0)
                      + (IF l = "wait" THEN 1 ELSE 0)
           /\ Cardinality(Coming') =
                  Cardinality(Coming)
                      - (IF pc[x] \in {"check", "dequeue"} THEN 1 ELSE 0)
                      + (IF l \in {"check", "dequeue"} THEN 1 ELSE 0)
<1>1. pc'[x] = l /\ \A u \in Workers \ {x} : pc'[u] = pc[u]
  BY DEF TypeOK
<1>2. IsFiniteSet(Waiting) /\ IsFiniteSet(Coming)
  BY FS_Subset, Constants, Waiting \in SUBSET Workers,
     Coming \in SUBSET Workers DEF Waiting, Coming
<1>3. /\ x \in Waiting <=> pc[x] = "wait"
      /\ x \in Waiting' <=> l = "wait"
      /\ Waiting \ {x} = Waiting' \ {x}
  BY <1>1 DEF Waiting
<1>4. /\ x \in Coming <=> pc[x] \in {"check", "dequeue"}
      /\ x \in Coming' <=> l \in {"check", "dequeue"}
      /\ Coming \ {x} = Coming' \ {x}
  BY <1>1 DEF Coming
<1>5. Cardinality(Waiting') = Cardinality(Waiting)
          - (IF x \in Waiting THEN 1 ELSE 0) + (IF x \in Waiting' THEN 1 ELSE 0)
  BY <1>2, <1>3, CountChanged
<1>6. Cardinality(Coming') = Cardinality(Coming)
          - (IF x \in Coming THEN 1 ELSE 0) + (IF x \in Coming' THEN 1 ELSE 0)
  BY <1>2, <1>4, CountChanged
<1>7. QED
  BY <1>3, <1>4, <1>5, <1>6

(* Nobody sleeps, or there are some asleep. *)
LEMMA SleepersCounted ==
    ASSUME TypeOK
    PROVE  /\ Cardinality(Workers) \in Nat
           /\ Cardinality(Waiting) \in Nat /\ Cardinality(Coming) \in Nat
           /\ Cardinality(Waiting) <= Cardinality(Workers)
           /\ Cardinality(Waiting) = 0 <=> Waiting = {}
<1>1. IsFiniteSet(Workers) /\ Waiting \in SUBSET Workers /\ Coming \in SUBSET Workers
  BY Constants DEF Waiting, Coming
<1>2. QED
  BY <1>1, FS_Subset, FS_CardinalityType, FS_EmptySet

-----------------------------------------------------------------------------
(* Before main accepts, nobody waits and the queue is empty. *)
LEMMA InitInv == Init => Inv
<1>1. SUFFICES ASSUME Init PROVE Inv
  OBVIOUS
<1>2. Cardinality(Workers) \in Nat
  BY Constants, FS_CardinalityType
<1>3. TypeOK
  <2>1. /\ queue \in Seq(Clients \cup {NoSocket})
        /\ ran \in [Clients -> Seq({"add", "remove", "contains"})]
    BY <1>1 DEF Init
  <2>2. /\ sent \in [Clients -> Int] /\ \A c \in Clients : sent[c] \in -1..MaxSent[c]
        /\ got \in [Clients -> Nat] /\ \A c \in Clients : got[c] <= MaxSent[c]
    BY <1>1, Constants DEF Init
  <2>3. signals \in 0..Cardinality(Workers) /\ failures \in 0..MaxFailures
    BY <1>1, <1>2, Constants DEF Init
  <2>4. /\ pc \in [Workers -> Locations]
        /\ sock \in [Workers -> Clients \cup {NoSocket}]
        /\ need_read \in [Workers -> 0..CommandBytes]
    BY <1>1, Constants DEF Init, Locations
  <2>5. QED
    BY <1>1, <2>1, <2>2, <2>3, <2>4 DEF Init, TypeOK, Locations
<1>4. Waiting = {}
  BY <1>1 DEF Init, Waiting
<1>5. QED
  BY <1>1, <1>3, <1>4
     DEF Init, Inv, FlagOK, PhaseOK, SignalsSuffice, NoLostWakeup, Closing

(* The steps that leave the workers where they are. *)
LEMMA OthersKeepInv ==
    ASSUME Inv,
           \/ \E c \in Clients : ClientStep(c)
           \/ Interrupt \/ CallAccept \/ Accept \/ AcceptFails
           \/ CheckDoneAgain \/ Exit
    PROVE  Inv'
<1> USE DEF Inv
<1>1. UNCHANGED <<queueVars, pc>> /\ UNCHANGED signals
  BY DEF ClientStep, Connect, Send, Close, Interrupt, CallAccept, MainGoes,
         Accept, AcceptFails, Accepted, CheckDoneAgain, Exit, mainVars
<1>2. Waiting' = Waiting /\ Coming' = Coming
  BY <1>1 DEF Waiting, Coming
<1>3. FlagOK' /\ NoLostWakeup'
  BY <1>1, <1>2 DEF FlagOK, NoLostWakeup, queueVars
<1>4. TypeOK'
  <2>1. CASE \E c \in Clients : ClientStep(c)
    <3>1. PICK c \in Clients : ClientStep(c)
      BY <2>1
    <3>2. MaxSent[c] \in Nat
      BY Constants
    <3>3. \/ UNCHANGED sent
          \/ \E n \in -1..MaxSent[c] : sent' = [sent EXCEPT ![c] = n]
      BY <3>1, <3>2 DEF TypeOK, ClientStep, Connect, Send, Close
    <3>4. sent' \in [Clients -> Int] /\ \A d \in Clients : sent'[d] \in -1..MaxSent[d]
      <4>1. sent \in [Clients -> Int] /\ \A d \in Clients : sent[d] \in -1..MaxSent[d]
        BY DEF TypeOK
      <4>2. CASE UNCHANGED sent
        BY ONLY <4>1, <4>2
      <4>3. ASSUME NEW n \in -1..MaxSent[c], sent' = [sent EXCEPT ![c] = n]
            PROVE  sent' \in [Clients -> Int] /\ \A d \in Clients : sent'[d] \in -1..MaxSent[d]
        <5>1. n \in Int
          BY ONLY <3>2, <4>3
        <5>2. QED
          BY ONLY <4>1, <4>3, <5>1, c \in Clients
      <4>4. QED
        BY ONLY <3>3, <4>2, <4>3
    <3>5. QED
      BY <3>1, <3>4 DEF TypeOK, ClientStep, Connect, Send, Close, mainVars,
                        queueVars, workVars, served
  <2>2. CASE Interrupt \/ CallAccept \/ CheckDoneAgain \/ Exit
    BY <2>2 DEF TypeOK, Interrupt, CallAccept, CheckDoneAgain, Exit, MainGoes,
                mainVars, queueVars, workVars, clientVars, served
  <2>3. CASE Accept \/ AcceptFails
    <3>1. failures' \in 0..MaxFailures
      <4>1. failures \in 0..MaxFailures /\ MaxFailures \in Nat
        BY Constants DEF TypeOK
      <4>2. \/ failures' = failures
            \/ failures < MaxFailures /\ failures' = failures + 1
        BY <2>3 DEF Accept, AcceptFails
      <4>3. QED
        BY <4>1, <4>2
    <3>2. /\ connfd' \in Clients \cup {NoSocket} /\ backlog' \subseteq Clients
          /\ main' = "accepted"
      BY <2>3 DEF TypeOK, Accept, AcceptFails, Accepted
    <3>3. UNCHANGED <<done, signals, queueVars, pc, workVars, sent, left, served>>
      BY <2>3 DEF Accept, AcceptFails, Accepted
    <3>4. QED
      BY <3>1, <3>2, <3>3 DEF TypeOK, queueVars, workVars, served
  <2>4. QED
    BY <2>1, <2>2, <2>3
<1>5. PhaseOK' /\ SignalsSuffice'
  <2>1. CASE UNCHANGED main \/ (main \notin Closing /\ main' \notin Closing)
    <3>1. done => done'
      BY DEF ClientStep, Connect, Send, Close, Interrupt, CallAccept, MainGoes,
             Accept, AcceptFails, Accepted, CheckDoneAgain, Exit
    <3>2. QED
      BY <1>1, <1>2, <2>1, <3>1 DEF PhaseOK, SignalsSuffice, Closing
  <2>2. CASE main \notin Closing /\ main' \in Closing
    <3>1. done' /\ main' = "signal"
      BY <2>2 DEF ClientStep, Connect, Send, Close, Interrupt, CallAccept,
                  MainGoes, Accept, AcceptFails, Accepted, CheckDoneAgain,
                  Exit, mainVars, Closing
    <3>2. QED
      BY <1>1, <1>2, <2>2, <3>1, SleepersCounted
         DEF PhaseOK, SignalsSuffice, Closing
  <2>3. CASE main = "sleep" /\ main' = "exited"
    <3>1. UNCHANGED done
      BY <2>3 DEF ClientStep, Connect, Send, Close, Interrupt, CallAccept,
                  MainGoes, Accept, AcceptFails, Accepted, CheckDoneAgain,
                  Exit, mainVars
    <3>2. QED
      BY <1>1, <1>2, <2>3, <3>1 DEF PhaseOK, SignalsSuffice, Closing
  <2>4. QED
    BY <2>1, <2>2, <2>3
       DEF ClientStep, Connect, Send, Close, Interrupt, CallAccept, MainGoes,
           Accept, AcceptFails, Accepted, CheckDoneAgain, Exit, mainVars,
           Closing
<1>6. QED
  BY <1>3, <1>4, <1>5

(* pthread_cond_signal() wakes one sleeper, if there is one. *)
LEMMA SignalWakes ==
    ASSUME TypeOK, SignalOne
    PROVE  /\ pc' \in [Workers -> Locations]
           /\ \/ Waiting = {} /\ Waiting' = {} /\ Coming' = Coming
              \/ /\ Waiting # {}
                 /\ Cardinality(Waiting') = Cardinality(Waiting) - 1
                 /\ Cardinality(Coming') = Cardinality(Coming) + 1
<1>1. CASE Waiting = {} /\ UNCHANGED pc
  BY <1>1 DEF TypeOK, Waiting, Coming, Locations
<1>2. CASE \E x \in Waiting : pc' = [pc EXCEPT ![x] = "dequeue"]
  <2>1. PICK x \in Waiting : pc' = [pc EXCEPT ![x] = "dequeue"]
    BY <1>2
  <2>2. x \in Workers /\ pc[x] = "wait"
    BY DEF Waiting
  <2>3. /\ Cardinality(Waiting') = Cardinality(Waiting) - 1 + 0
        /\ Cardinality(Coming') = Cardinality(Coming) - 0 + 1
    BY <2>1, <2>2, WorkerMoves
  <2>4. pc' \in [Workers -> Locations]
    BY <2>1, <2>2 DEF TypeOK, Locations
  <2>5. QED
    BY <2>1, <2>3, <2>4, SleepersCounted
<1>3. QED
  BY <1>1, <1>2 DEF SignalOne

(* One socket more in the queue, and one worker more that comes for it.    *)
LEMMA EnqueueKeepsInv == ASSUME Inv, Enqueue PROVE Inv'
<1> USE DEF Inv
<1>1. /\ queue' = Append(queue, connfd) /\ main = "enqueue" /\ main' = "loop"
      /\ UNCHANGED signals
  BY DEF Enqueue
<1>2. /\ queue' \in Seq(Clients \cup {NoSocket}) /\ queue' # <<>>
      /\ Len(queue) \in Nat /\ Len(queue') = Len(queue) + 1
  BY <1>1 DEF TypeOK
<1>3. ~queue_empty'
  BY DEF Enqueue, FlagOK, TypeOK
<1>4. SignalOne
  BY DEF Enqueue
<1>5. TypeOK'
  BY <1>2, <1>3, <1>4, SignalWakes
     DEF Enqueue, TypeOK, Locations, workVars, clientVars, served
<1>6. NoLostWakeup'
  BY <1>2, <1>4, SignalWakes, SleepersCounted DEF NoLostWakeup
<1>7. PhaseOK' /\ SignalsSuffice'
  BY <1>1 DEF PhaseOK, SignalsSuffice, Closing
<1>8. QED
  BY <1>2, <1>3, <1>5, <1>6, <1>7 DEF FlagOK

(* One signal fewer to come, and one worker fewer asleep. *)
LEMMA SignalWorkersKeepsInv == ASSUME Inv, SignalWorkers PROVE Inv'
<1> USE DEF Inv
<1>1. main = "signal" /\ done /\ UNCHANGED <<done, queue, queue_empty>>
  BY DEF SignalWorkers, PhaseOK, Closing, queueVars
<1>2. CASE signals < Cardinality(Workers)
  <2>1. signals' = signals + 1 /\ SignalOne /\ UNCHANGED main
    BY <1>2 DEF SignalWorkers
  <2>2. signals' \in 0..Cardinality(Workers)
    BY <1>2, <2>1, SleepersCounted DEF TypeOK
  <2>3. TypeOK'
    BY <1>1, <2>1, <2>2, SignalWakes
       DEF SignalWorkers, TypeOK, Locations, workVars, clientVars, served
  <2>4. FlagOK' /\ PhaseOK'
    BY <1>1, <2>1 DEF FlagOK, PhaseOK, Closing
  <2>5. NoLostWakeup'
    <3>1. Len(queue) \in Nat
      BY DEF TypeOK
    <3>2. QED
      BY <1>1, <2>1, <3>1, SignalWakes, SleepersCounted DEF NoLostWakeup
  <2>6. SignalsSuffice'
    <3>1. Cardinality(Waiting) <= Cardinality(Workers) - signals
      BY <1>1 DEF SignalsSuffice, Closing
    <3>2. signals \in Nat
      BY <1>2, SleepersCounted DEF TypeOK
    <3>3. CASE Waiting' = {}
      BY <1>2, <2>1, <2>2, <3>2, <3>3, SleepersCounted, FS_EmptySet
         DEF SignalsSuffice
    <3>4. CASE Waiting' # {}
      BY <2>1, <3>1, <3>2, <3>4, SignalWakes, SleepersCounted
         DEF SignalsSuffice
    <3>5. QED
      BY <3>3, <3>4
  <2>7. QED
    BY <2>3, <2>4, <2>5, <2>6
<1>3. CASE ~(signals < Cardinality(Workers))
  <2>1. signals = Cardinality(Workers)
    BY <1>3, SleepersCounted DEF TypeOK
  <2>2. main' = "sleep" /\ UNCHANGED <<signals, pc>>
    BY <1>3 DEF SignalWorkers
  <2>3. Waiting' = Waiting /\ Coming' = Coming
    BY <2>2 DEF Waiting, Coming
  <2>4. TypeOK'
    BY <1>1, <2>2 DEF SignalWorkers, TypeOK, workVars, clientVars, served
  <2>5. QED
    BY <1>1, <2>1, <2>2, <2>3, <2>4
       DEF FlagOK, PhaseOK, SignalsSuffice, NoLostWakeup, Closing
<1>4. QED
  BY <1>2, <1>3

-----------------------------------------------------------------------------
(* A worker that only goes elsewhere: it falls asleep when the queue is    *)
(* empty and SIGINT has not come, and turns away from the queue when that  *)
(* is empty.                                                               *)
LEMMA GoesKeepsInv ==
    ASSUME Inv, NEW x \in Workers,
           \/ CheckQueue(x) \/ CheckDone(x) \/ Wait(x) \/ GiveUp(x)
           \/ ReadEnds(x) \/ WakeUp(x)
    PROVE  Inv'
<1> USE DEF Inv
<1>1. PICK l \in Locations : WorkerGoes(x, pc[x], l)
  BY DEF CheckQueue, CheckDone, Wait, GiveUp, ReadEnds, WakeUp, WorkerGoes,
         Locations
<1>2. /\ pc' = [pc EXCEPT ![x] = l]
      /\ UNCHANGED <<done, mainVars, queueVars, workVars, clientVars, served>>
  BY <1>1 DEF WorkerGoes
<1>3. TypeOK' /\ FlagOK' /\ PhaseOK'
  BY <1>2 DEF TypeOK, FlagOK, PhaseOK, Locations, mainVars, queueVars,
              workVars, clientVars, served
<1>4. pc'[x] = l
  BY <1>2 DEF TypeOK
<1>5. l = "wait" => queue_empty /\ ~done
  BY <1>4 DEF CheckQueue, CheckDone, Wait, GiveUp, ReadEnds, WakeUp, WorkerGoes,
              TypeOK
<1>6. pc[x] \in {"check", "dequeue"} /\ l \notin {"check", "dequeue"} => queue_empty
  BY <1>4 DEF CheckQueue, CheckDone, Wait, GiveUp, ReadEnds, WakeUp, WorkerGoes,
              TypeOK
<1>7. /\ l # "wait" => Cardinality(Waiting') <= Cardinality(Waiting)
      /\ ~queue_empty => Cardinality(Coming') >= Cardinality(Coming)
  <2>1. /\ Cardinality(Waiting') = Cardinality(Waiting)
               - (IF pc[x] = "wait" THEN 1 ELSE 0) + (IF l = "wait" THEN 1 ELSE 0)
        /\ Cardinality(Coming') = Cardinality(Coming)
               - (IF pc[x] \in {"check", "dequeue"} THEN 1 ELSE 0)
               + (IF l \in {"check", "dequeue"} THEN 1 ELSE 0)
    BY <1>2, WorkerMoves
  <2>2. Cardinality(Waiting) \in Nat /\ Cardinality(Coming) \in Nat
    BY SleepersCounted
  <2>3. QED
    BY <1>6, <2>1, <2>2
<1>8. SignalsSuffice'
  <2>1. CASE main \in Closing
    <3>1. l # "wait"
      BY <1>5, <2>1 DEF PhaseOK
    <3>2. /\ UNCHANGED <<main, signals>> /\ signals \in Nat
          /\ Cardinality(Waiting') \in Nat
      <4>1. UNCHANGED <<main, signals>>
        BY <1>2 DEF mainVars
      <4>2. signals \in Nat
        <5>1. signals \in 0..Cardinality(Workers)
          BY DEF TypeOK
        <5>2. QED
          BY ONLY <5>1
      <4>3. IsFiniteSet(Workers) /\ Waiting' \subseteq Workers
        BY Constants DEF Waiting
      <4>4. Cardinality(Waiting') \in Nat
        BY ONLY <4>3, FS_Subset, FS_CardinalityType
      <4>5. QED
        BY ONLY <4>1, <4>2, <4>4
    <3>3. QED
      BY <1>7, <2>1, <3>1, <3>2, SleepersCounted DEF SignalsSuffice
  <2>2. CASE main \notin Closing
    BY <1>2, <2>2 DEF SignalsSuffice, mainVars
  <2>3. QED
    BY <2>1, <2>2
<1>9. NoLostWakeup'
  <2>1. UNCHANGED queue /\ Len(queue) \in Nat
    BY <1>2 DEF queueVars, TypeOK
  <2>2. IsFiniteSet(Coming') /\ Cardinality(Coming') \in Nat
    BY FS_Subset, FS_CardinalityType, Constants,
       Coming' \in SUBSET Workers DEF Coming
  <2>3. CASE queue_empty
    <3>1. Len(queue') = 0
      BY <2>1, <2>3 DEF FlagOK
    <3>2. QED
      BY <2>2, <3>1 DEF NoLostWakeup
  <2>4. CASE ~queue_empty
    <3>1. Waiting' # {} => Waiting # {}
      BY <1>2, <1>5, <2>4 DEF Waiting, TypeOK
    <3>2. QED
      BY <1>7, <2>1, <2>2, <2>4, <3>1, SleepersCounted DEF NoLostWakeup
  <2>5. QED
    BY <2>3, <2>4
<1>10. QED
  BY <1>3, <1>8, <1>9

(* One socket fewer in the queue, and one worker fewer that comes for it. *)
LEMMA TakeKeepsInv ==
    ASSUME Inv, NEW x \in Workers, Take(x)
    PROVE  Inv'
<1> USE DEF Inv
<1>1. /\ pc[x] = "dequeue" /\ queue # <<>>
      /\ queue \in Seq(Clients \cup {NoSocket})
      /\ Len(queue) \in Nat \ {0}
  BY DEF Take, FlagOK, TypeOK
<1>2. /\ pc' = [pc EXCEPT ![x] = "serve"]
      /\ queue' = SubSeq(queue, 1, Len(queue) - 1)
      /\ queue_empty' = (Len(queue) = 1)
      /\ UNCHANGED <<main, done, signals>>
  BY DEF Take, mainVars
<1>3. queue[Len(queue)] \in Clients \cup {NoSocket}
  BY <1>1
<1>4. /\ queue' \in Seq(Clients \cup {NoSocket})
      /\ Len(queue') = Len(queue) - 1
      /\ queue' = <<>> <=> Len(queue) = 1
  <2>1. /\ queue' \in Seq(Clients \cup {NoSocket})
        /\ Len(queue') = Len(queue) - 1
    <3>1. PICK n \in Nat : n = Len(queue) - 1
      BY <1>1
    <3>2. n \in Int /\ 1 \in Int /\ \A i \in 1..n : queue[i] \in Clients \cup {NoSocket}
      BY <1>1, <3>1
    <3>3. /\ SubSeq(queue, 1, n) \in Seq(Clients \cup {NoSocket})
          /\ Len(SubSeq(queue, 1, n)) = IF 1 <= n THEN n - 1 + 1 ELSE 0
      BY <3>2, SubSeqProperties
    <3>4. QED
      BY <1>1, <1>2, <3>1, <3>3
  <2>2. queue' = <<>> <=> Len(queue') = 0
    BY <2>1, EmptySeq
  <2>3. QED
    BY <1>1, <2>1, <2>2
<1>5. TypeOK' /\ FlagOK' /\ PhaseOK'
  <2>1. /\ sock' \in [Workers -> Clients \cup {NoSocket}]
        /\ pc' \in [Workers -> Locations]
        /\ queue_empty' \in BOOLEAN
    BY <1>1, <1>2, <1>3 DEF Take, TypeOK, Locations
  <2>2. TypeOK'
    BY <1>4, <2>1 DEF Take, TypeOK, Locations, mainVars, clientVars, served
  <2>3. QED
    BY <1>2, <1>4, <2>2 DEF FlagOK, PhaseOK
<1>6. Waiting' = Waiting
  BY <1>1, <1>2 DEF Waiting, TypeOK
<1>7. Cardinality(Coming') = Cardinality(Coming) - 1 + 0
  BY <1>1, <1>2, WorkerMoves
<1>8. SignalsSuffice' /\ NoLostWakeup'
  BY <1>1, <1>2, <1>4, <1>6, <1>7, SleepersCounted
     DEF SignalsSuffice, NoLostWakeup
<1>9. QED
  BY <1>5, <1>8

(* Reading and executing leave queue, flags and locations alone. *)
LEMMA ServeKeepsInv ==
    ASSUME Inv, NEW x \in Workers, Read(x) \/ Execute(x)
    PROVE  Inv'
<1> USE DEF Inv
<1>1. UNCHANGED <<done, mainVars, queueVars, pc, sock, clientVars>>
  BY DEF Read, Execute, workVars
<1>2. Waiting' = Waiting /\ Coming' = Coming
  BY <1>1 DEF Waiting, Coming
<1>3. TypeOK'
  <2>1. CASE Read(x)
    <3>1. sock[x] \in Clients
      BY <2>1 DEF Read, TypeOK
    <3>2. PICK n \in 1..need_read[x] :
              /\ n <= sent[sock[x]] - got[sock[x]]
              /\ need_read' = [need_read EXCEPT ![x] = @ - n]
              /\ got' = [got EXCEPT ![sock[x]] = @ + n]
      BY <2>1 DEF Read
    <3>3. need_read[x] \in 0..CommandBytes /\ n \in Nat
      BY <3>2, Constants DEF TypeOK
    <3>4. need_read' \in [Workers -> 0..CommandBytes]
      <4>1. need_read[x] - n \in 0..CommandBytes
        BY <3>2, <3>3, Constants
      <4>2. QED
        BY <3>2, <4>1 DEF TypeOK
    <3>5. got' \in [Clients -> Nat] /\ \A c \in Clients : got'[c] <= MaxSent[c]
      <4>1. /\ got[sock[x]] \in Nat /\ sent[sock[x]] \in Int
            /\ sent[sock[x]] <= MaxSent[sock[x]] /\ MaxSent[sock[x]] \in Nat
        BY <3>1, Constants DEF TypeOK
      <4>2. /\ got[sock[x]] + n \in Nat
            /\ got[sock[x]] + n <= MaxSent[sock[x]]
        BY <3>2, <3>3, <4>1
      <4>3. QED
        BY <3>1, <3>2, <4>2 DEF TypeOK
    <3>6. UNCHANGED ran
      BY <2>1 DEF Read
    <3>7. QED
      BY <1>1, <3>4, <3>5, <3>6 DEF TypeOK, mainVars, queueVars, clientVars
  <2>2. CASE Execute(x)
    <3>1. \A b : Dispatch(b) \subseteq {"add", "remove", "contains"}
      BY DEF Dispatch
    <3>2. ran' \in [Clients -> Seq({"add", "remove", "contains"})]
      <4>1. CASE sock[x] \in Clients
        <5>1. PICK operation \in Dispatch(Command[sock[x]]) :
                  ran' = [ran EXCEPT ![sock[x]] = Append(@, operation)]
          BY <2>2 DEF Execute
        <5>2. Append(ran[sock[x]], operation) \in Seq({"add", "remove", "contains"})
          BY <3>1, <4>1, <5>1 DEF TypeOK
        <5>3. QED
          BY <4>1, <5>1, <5>2 DEF TypeOK
      <4>2. CASE sock[x] \notin Clients
        BY <2>2, <4>2 DEF Execute, TypeOK
      <4>3. QED
        BY <4>1, <4>2
    <3>3. UNCHANGED <<need_read, got>>
      BY <2>2 DEF Execute, workVars
    <3>4. QED
      BY <1>1, <3>2, <3>3 DEF TypeOK, mainVars, queueVars, clientVars
  <2>3. QED
    BY <2>1, <2>2
<1>4. QED
  BY <1>1, <1>2, <1>3 DEF FlagOK, PhaseOK, SignalsSuffice, NoLostWakeup,
                          mainVars, queueVars

(* Every step keeps the invariant. *)
LEMMA NextKeepsInv == Inv /\ [Next]_vars => Inv'
<1> SUFFICES ASSUME Inv, [Next]_vars PROVE Inv'
  OBVIOUS
<1>1. CASE UNCHANGED vars
  BY <1>1 DEF vars, mainVars, queueVars, workVars, clientVars, served, Inv,
              TypeOK, FlagOK, PhaseOK, SignalsSuffice, NoLostWakeup, Waiting,
              Coming
<1>2. CASE Interrupt \/ Exit \/ \E c \in Clients : ClientStep(c)
  BY <1>2, OthersKeepInv
<1>3. CASE MainStep
  BY <1>3, OthersKeepInv, EnqueueKeepsInv, SignalWorkersKeepsInv DEF MainStep
<1>4. CASE \E w \in Workers : Step(w) \/ WakeUp(w)
  BY <1>4, GoesKeepsInv, TakeKeepsInv, ServeKeepsInv DEF Step
<1>5. QED
  BY <1>1, <1>2, <1>3, <1>4 DEF Next

(* The invariant holds in every state. *)
LEMMA Invariance == Spec => []Inv
  BY InitInv, NextKeepsInv, PTL DEF Spec

-----------------------------------------------------------------------------
(* Every variable of the server keeps its type: the queue holds sockets,   *)
(* signals are at most as many as workers, and no read() takes more bytes  *)
(* than were sent or than the buffer has room for.                         *)
THEOREM TypeCorrect == Spec => []TypeOK
<1>1. Inv => TypeOK
  BY DEF Inv
<1>2. QED
  BY Invariance, <1>1, PTL

(* While a worker sleeps in Dequeue(), there is a worker awake for every   *)
(* socket in the queue: one pthread_cond_signal() for each Enqueue() is    *)
(* enough, whoever it wakes.                                               *)
THEOREM WakeupsSuffice == Spec => []NoLostWakeup
<1>1. Inv => NoLostWakeup
  BY DEF Inv
<1>2. QED
  BY Invariance, <1>1, PTL

(* When main has sent its NUM_THREADS signals, nobody sleeps any more, nor *)
(* ever will: whoever comes to Dequeue() behind them sees `done'.          *)
THEOREM NobodySleepsAtTheEnd == Spec => []ShutdownWakesAll
<1>1. Inv => ShutdownWakesAll
  <2>1. SUFFICES ASSUME Inv, main \in {"sleep", "exited"} PROVE Waiting = {}
    BY DEF ShutdownWakesAll
  <2>2. Cardinality(Waiting) <= Cardinality(Workers) - Cardinality(Workers)
    BY <2>1 DEF Inv, PhaseOK, SignalsSuffice, Closing
  <2>3. QED
    BY <2>1, <2>2, SleepersCounted DEF Inv
<1>2. QED
  BY Invariance, <1>1, PTL

-----------------------------------------------------------------------------
(* Where a connection is.  A hand that is not given a socket is empty:     *)
(* Accept finds connfd free, and Take a worker without a socket.           *)

Queued(s, c) == {i \in 1..Len(s) : s[i] = c}

Serving(c) == {w \in Workers : sock[w] = c}

Places(c) ==
    Cardinality(Queued(queue, c)) + Cardinality(Serving(c))
        + (IF c \in backlog THEN 1 ELSE 0) + (IF connfd = c THEN 1 ELSE 0)

HandsFree ==
    /\ main \in {"loop", "calling", "accept"} => connfd = NoSocket
    /\ \A w \in Workers : pc[w] \notin {"serve", "spin"} => sock[w] = NoSocket

InOnePlace == \A c \in Clients : Places(c) = IF sent[c] = -1 THEN 0 ELSE 1

SocketInv == HandsFree /\ InOnePlace

(* What stands how often in a sequence that grows or shrinks at its end. *)
LEMMA QueuedAppend ==
    ASSUME NEW S, NEW s \in Seq(S), NEW x \in S, NEW c
    PROVE  /\ Cardinality(Queued(s, c)) \in Nat
           /\ Cardinality(Queued(Append(s, x), c)) =
                  Cardinality(Queued(s, c)) + (IF x = c THEN 1 ELSE 0)
<1> DEFINE n == Len(s) + 1
<1>1. /\ n \in Nat /\ Len(Append(s, x)) = n /\ Append(s, x)[n] = x
      /\ \A i \in 1..Len(s) : Append(s, x)[i] = s[i]
  OBVIOUS
<1>2. IsFiniteSet(1..Len(s)) /\ Queued(s, c) \in SUBSET (1..Len(s))
  BY FS_Interval DEF Queued
<1>3. IsFiniteSet(Queued(s, c))
  BY <1>2, FS_Subset
<1>4. /\ n \notin Queued(s, c)
      /\ n \in Queued(Append(s, x), c) <=> x = c
      /\ Queued(s, c) \ {n} = Queued(Append(s, x), c) \ {n}
  BY <1>1 DEF Queued
<1>5. QED
  BY <1>3, <1>4, CountChanged

LEMMA QueuedButLast ==
    ASSUME NEW S, NEW s \in Seq(S), s # <<>>, NEW c
    PROVE  /\ Cardinality(Queued(s, c)) \in Nat
           /\ Cardinality(Queued(SubSeq(s, 1, Len(s) - 1), c)) =
                  Cardinality(Queued(s, c)) - (IF s[Len(s)] = c THEN 1 ELSE 0)
<1> DEFINE n == Len(s)
           f == SubSeq(s, 1, n - 1)
<1>1. n \in Nat \ {0}
  BY EmptySeq
<1>2. /\ Len(f) = n - 1
      /\ \A i \in 1..(n - 1) : f[i] = s[i]
  <2>1. PICK m \in Nat : m = n - 1
    BY <1>1
  <2>2. m \in Int /\ 1 \in Int /\ \A i \in 1..m : s[i] \in S
    BY <1>1, <2>1
  <2>3. /\ Len(SubSeq(s, 1, m)) = IF 1 <= m THEN m - 1 + 1 ELSE 0
        /\ \A i \in 1..m : SubSeq(s, 1, m)[i] = s[1 + i - 1]
    BY <2>2, SubSeqProperties
  <2>4. QED
    BY <1>1, <2>1, <2>3
<1>3. IsFiniteSet(1..n) /\ Queued(s, c) \in SUBSET (1..n)
  BY <1>1, FS_Interval DEF Queued
<1>4. IsFiniteSet(Queued(s, c))
  BY <1>3, FS_Subset
<1>5. /\ n \notin Queued(f, c)
      /\ n \in Queued(s, c) <=> s[n] = c
      /\ Queued(s, c) \ {n} = Queued(f, c) \ {n}
  BY <1>1, <1>2 DEF Queued
<1>6. QED
  BY <1>4, <1>5, CountChanged

(* Two steps in one: one worker's hand changes. *)
LEMMA ServingChanged ==
    ASSUME TypeOK, NEW x \in Workers, NEW s, sock' = [sock EXCEPT ![x] = s], NEW c
    PROVE  /\ Cardinality(Serving(c)) \in Nat
           /\ Cardinality(Serving(c)') = Cardinality(Serving(c))
                  - (IF sock[x] = c THEN 1 ELSE 0) + (IF s = c THEN 1 ELSE 0)
<1>1. sock'[x] = s /\ \A u \in Workers \ {x} : sock'[u] = sock[u]
  BY DEF TypeOK
<1>2. IsFiniteSet(Serving(c))
  BY FS_Subset, Constants, Serving(c) \in SUBSET Workers DEF Serving
<1>3. /\ x \in Serving(c) <=> sock[x] = c
      /\ x \in Serving(c)' <=> s = c
      /\ Serving(c) \ {x} = Serving(c)' \ {x}
  BY <1>1 DEF Serving
<1>4. QED
  BY <1>2, <1>3, CountChanged

LEMMA PlacesCounted ==
    ASSUME TypeOK, NEW c
    PROVE  Cardinality(Queued(queue, c)) \in Nat /\ Cardinality(Serving(c)) \in Nat
<1>1. IsFiniteSet(Queued(queue, c)) /\ IsFiniteSet(Serving(c))
  <2>1. Len(queue) \in Nat
    BY DEF TypeOK
  <2>2. IsFiniteSet(1..Len(queue)) /\ IsFiniteSet(Workers)
    BY <2>1, FS_Interval, Constants
  <2>3. Queued(queue, c) \in SUBSET (1..Len(queue)) /\ Serving(c) \in SUBSET Workers
    BY DEF Queued, Serving
  <2>4. QED
    BY <2>2, <2>3, FS_Subset
<1>2. QED
  BY <1>1, FS_CardinalityType

LEMMA InitSocketInv == Init => SocketInv
<1>1. SUFFICES ASSUME Init PROVE SocketInv
  OBVIOUS
<1>2. ASSUME NEW c \in Clients PROVE Places(c) = 0
  <2>1. Queued(queue, c) = {} /\ Serving(c) = {}
    BY <1>1, Constants DEF Init, Queued, Serving
  <2>2. Cardinality(Queued(queue, c)) = 0 /\ Cardinality(Serving(c)) = 0
    BY <2>1, FS_EmptySet
  <2>3. QED
    BY <1>1, <2>2, Constants DEF Init, Places
<1>3. QED
  BY <1>1, <1>2 DEF Init, SocketInv, HandsFree, InOnePlace

(* The steps that hand no connection on. *)
LEMMA UnmovedKeepsSocketInv ==
    ASSUME Inv, SocketInv, UNCHANGED <<queue, sock, backlog>>,
           \/ UNCHANGED vars
           \/ Interrupt \/ CallAccept \/ AcceptFails \/ CheckDoneAgain
           \/ SignalWorkers \/ Exit
           \/ \E c \in Clients : Send(c) \/ Close(c)
           \/ \E w \in Workers : (Step(w) /\ ~Take(w)) \/ WakeUp(w)
    PROVE  SocketInv'
<1>1. connfd' = connfd
  BY DEF SocketInv, HandsFree, Interrupt, CallAccept, MainGoes, AcceptFails,
         Accepted, CheckDoneAgain, SignalWorkers, Exit, Send, Close, Step,
         CheckQueue, CheckDone, Wait, GiveUp, Read, ReadEnds, Execute, WakeUp,
         WorkerGoes, mainVars, vars
<1>2. main' \in {"loop", "calling", "accept"} =>
          main \in {"loop", "calling", "accept"}
  BY DEF Interrupt, CallAccept, MainGoes, AcceptFails, Accepted,
         CheckDoneAgain, SignalWorkers, Exit, Send, Close, Step,
         CheckQueue, CheckDone, Wait, GiveUp, Read, ReadEnds, Execute, WakeUp,
         WorkerGoes, mainVars, vars
<1>3. ASSUME NEW u \in Workers, pc[u] \in {"serve", "spin"}
      PROVE  pc'[u] \in {"serve", "spin"}
  <2>1. CASE \E w \in Workers : (Step(w) /\ ~Take(w)) \/ WakeUp(w)
    BY <1>3, <2>1
       DEF Step, CheckQueue, CheckDone, Wait, GiveUp, Read, ReadEnds, Execute,
           WakeUp, WorkerGoes, Inv, TypeOK
  <2>2. CASE SignalWorkers
    BY <1>3, <2>2 DEF SignalWorkers, SignalOne, Waiting, Inv, TypeOK
  <2>3. CASE UNCHANGED pc
    BY <1>3, <2>3
  <2>4. QED
    BY <2>1, <2>2, <2>3
       DEF Interrupt, CallAccept, MainGoes, AcceptFails, Accepted,
           CheckDoneAgain, Exit, Send, Close, vars
<1>4. ASSUME NEW u \in Workers, pc'[u] \notin {"serve", "spin"}
      PROVE  sock'[u] = NoSocket
  BY <1>3, <1>4 DEF SocketInv, HandsFree
<1>5. ASSUME NEW c \in Clients PROVE sent'[c] = -1 <=> sent[c] = -1
  <2>1. CASE UNCHANGED sent
    BY <2>1
  <2>2. CASE \E d \in Clients : Send(d)
    <3>1. PICK d \in Clients : sent[d] >= 0 /\ sent' = [sent EXCEPT ![d] = @ + 1]
      <4>1. PICK d \in Clients : Send(d)
        BY <2>2
      <4>2. MaxSent[d] - 1 \in Int
        BY Constants
      <4>3. sent[d] >= 0 /\ sent' = [sent EXCEPT ![d] = @ + 1]
        BY <4>1, <4>2 DEF Send
      <4>4. QED
        BY <4>3
    <3>2. sent \in [Clients -> Int]
      BY DEF Inv, TypeOK
    <3>3. QED
      BY <3>1, <3>2
  <2>3. QED
    BY <2>1, <2>2
       DEF Interrupt, CallAccept, MainGoes, AcceptFails, Accepted,
           CheckDoneAgain, SignalWorkers, Exit, Close, Step,
           CheckQueue, CheckDone, Wait, GiveUp, Read, ReadEnds, Execute, WakeUp,
           WorkerGoes, clientVars, vars
<1>6. ASSUME NEW c \in Clients PROVE Places(c)' = Places(c)
  BY <1>1 DEF Places, Queued, Serving
<1>7. InOnePlace'
  BY <1>5, <1>6 DEF SocketInv, InOnePlace
<1>8. QED
  BY <1>1, <1>2, <1>4, <1>7 DEF SocketInv, HandsFree

(* From nowhere to the backlog, from there to main. *)
LEMMA ArriveKeepsSocketInv ==
    ASSUME Inv, SocketInv, Accept \/ \E c \in Clients : Connect(c)
    PROVE  SocketInv'
<1>1. UNCHANGED <<queue, sock, pc>>
  BY DEF Accept, Accepted, Connect, queueVars, workVars
<1>2. ASSUME NEW c PROVE Queued(queue, c)' = Queued(queue, c) /\ Serving(c)' = Serving(c)
  BY <1>1 DEF Queued, Serving
<1>3. CASE Accept
  <2>1. PICK d \in backlog : Accepted(d) /\ backlog' = backlog \ {d}
    BY <1>3 DEF Accept
  <2>2. d \in Clients /\ connfd = NoSocket /\ connfd' = d /\ UNCHANGED sent
    BY <2>1 DEF Accepted, Inv, TypeOK, SocketInv, HandsFree
  <2>3. ASSUME NEW c \in Clients PROVE Places(c)' = Places(c)
    BY <1>2, <2>1, <2>2, PlacesCounted, Constants DEF Places, Inv
  <2>4. QED
    BY <1>1, <2>1, <2>2, <2>3 DEF SocketInv, HandsFree, InOnePlace, Accepted
<1>4. CASE \E c \in Clients : Connect(c)
  <2>1. PICK d \in Clients : Connect(d)
    BY <1>4
  <2>2. /\ sent[d] = -1 /\ sent' = [sent EXCEPT ![d] = 0]
        /\ backlog' = backlog \cup {d} /\ UNCHANGED <<main, connfd>>
    BY <2>1 DEF Connect, mainVars
  <2>3. sent'[d] = 0 /\ \A c \in Clients \ {d} : sent'[c] = sent[c]
    BY <2>2 DEF Inv, TypeOK
  <2>4. Places(d) = 0 /\ d \notin backlog
    BY <2>2, PlacesCounted DEF SocketInv, InOnePlace, Places, Inv
  <2>5. ASSUME NEW c \in Clients
        PROVE  Places(c)' = Places(c) + (IF c = d THEN 1 ELSE 0)
    BY <1>2, <2>2, <2>4, PlacesCounted DEF Places, Inv
  <2>6. InOnePlace'
    BY <2>2, <2>3, <2>4, <2>5 DEF SocketInv, InOnePlace
  <2>7. QED
    BY <1>1, <2>2, <2>6 DEF SocketInv, HandsFree
<1>5. QED
  BY <1>3, <1>4

(* From main to the tail of the queue. *)
LEMMA EnqueueKeepsSocketInv == ASSUME Inv, SocketInv, Enqueue PROVE SocketInv'
<1>1. /\ queue' = Append(queue, connfd) /\ connfd' = NoSocket /\ main' = "loop"
      /\ UNCHANGED <<sock, backlog, sent>> /\ SignalOne
  BY DEF Enqueue, workVars, clientVars
<1>2. /\ queue \in Seq(Clients \cup {NoSocket})
      /\ connfd \in Clients \cup {NoSocket}
  BY DEF Inv, TypeOK
<1>3. ASSUME NEW c \in Clients PROVE Places(c)' = Places(c)
  <2>1. /\ Cardinality(Queued(queue, c)) \in Nat
        /\ Cardinality(Queued(queue, c)') =
               Cardinality(Queued(queue, c)) + (IF connfd = c THEN 1 ELSE 0)
    <3>1. Queued(queue, c)' = Queued(Append(queue, connfd), c)
      BY <1>1 DEF Queued
    <3>2. QED
      BY <1>2, <3>1, QueuedAppend
  <2>2. Serving(c)' = Serving(c)
    BY <1>1 DEF Serving
  <2>3. QED
    BY <1>1, <2>1, <2>2, PlacesCounted, Constants DEF Places, Inv
<1>4. ASSUME NEW u \in Workers, pc'[u] \notin {"serve", "spin"}
      PROVE  pc[u] \notin {"serve", "spin"}
  BY <1>1, <1>4 DEF SignalOne, Waiting, Inv, TypeOK
<1>5. QED
  BY <1>1, <1>3, <1>4 DEF SocketInv, HandsFree, InOnePlace

(* From the tail of the queue to a worker. *)
LEMMA TakeKeepsSocketInv ==
    ASSUME Inv, SocketInv, NEW x \in Workers, Take(x)
    PROVE  SocketInv'
<1>1. /\ pc[x] = "dequeue" /\ queue # <<>> /\ pc' = [pc EXCEPT ![x] = "serve"]
      /\ sock' = [sock EXCEPT ![x] = queue[Len(queue)]]
      /\ queue' = SubSeq(queue, 1, Len(queue) - 1)
      /\ UNCHANGED <<main, connfd, backlog, sent>>
  BY DEF Take, Inv, FlagOK, mainVars, clientVars
<1>2. sock[x] = NoSocket
  BY <1>1 DEF SocketInv, HandsFree
<1>3. ASSUME NEW c \in Clients PROVE Places(c)' = Places(c)
  <2> DEFINE last == queue[Len(queue)]
  <2>1. /\ Cardinality(Queued(queue, c)) \in Nat
        /\ Cardinality(Queued(queue, c)') =
               Cardinality(Queued(queue, c)) - (IF last = c THEN 1 ELSE 0)
    <3>1. queue \in Seq(Clients \cup {NoSocket})
      BY DEF Inv, TypeOK
    <3>2. Queued(queue, c)' = Queued(SubSeq(queue, 1, Len(queue) - 1), c)
      BY <1>1 DEF Queued
    <3>3. QED
      BY <1>1, <3>1, <3>2, QueuedButLast
  <2>2. /\ Cardinality(Serving(c)) \in Nat
        /\ Cardinality(Serving(c)') =
               Cardinality(Serving(c)) + (IF last = c THEN 1 ELSE 0)
    <3>1. sock[x] # c
      BY <1>2, Constants
    <3>2. /\ Cardinality(Serving(c)) \in Nat
          /\ Cardinality(Serving(c)') = Cardinality(Serving(c))
                 - (IF sock[x] = c THEN 1 ELSE 0) + (IF last = c THEN 1 ELSE 0)
      BY <1>1, ServingChanged DEF Inv
    <3>3. QED
      BY <3>1, <3>2
  <2>3. QED
    BY <1>1, <2>1, <2>2 DEF Places
<1>4. HandsFree'
  BY <1>1 DEF SocketInv, HandsFree, Inv, TypeOK
<1>5. QED
  BY <1>1, <1>3, <1>4 DEF SocketInv, InOnePlace

LEMMA NextKeepsSocketInv == Inv /\ SocketInv /\ [Next]_vars => SocketInv'
<1> SUFFICES ASSUME Inv, SocketInv, [Next]_vars PROVE SocketInv'
  OBVIOUS
<1>1. CASE UNCHANGED vars
  BY <1>1, UnmovedKeepsSocketInv DEF vars, queueVars, workVars, clientVars
<1>2. CASE Interrupt \/ Exit \/ AcceptFails \/ CallAccept \/ CheckDoneAgain
           \/ SignalWorkers
  BY <1>2, UnmovedKeepsSocketInv
     DEF Interrupt, Exit, AcceptFails, Accepted, CallAccept, CheckDoneAgain,
         SignalWorkers, MainGoes, queueVars, workVars, clientVars
<1>3. CASE \E c \in Clients : Send(c) \/ Close(c)
  BY <1>3, UnmovedKeepsSocketInv DEF Send, Close, queueVars, workVars
<1>4. CASE Enqueue \/ Accept \/ \E c \in Clients : Connect(c)
  BY <1>4, EnqueueKeepsSocketInv, ArriveKeepsSocketInv
<1>5. CASE \E w \in Workers : Take(w)
  BY <1>5, TakeKeepsSocketInv
<1>6. CASE \E w \in Workers : (Step(w) /\ ~Take(w)) \/ WakeUp(w)
  <2>1. UNCHANGED <<queue, sock, backlog>>
    BY <1>6 DEF Step, CheckQueue, CheckDone, Wait, GiveUp, Read, ReadEnds,
                Execute, WakeUp, WorkerGoes, queueVars, workVars, clientVars
  <2>2. QED
    BY <1>6, <2>1, UnmovedKeepsSocketInv
<1>7. QED
  BY <1>1, <1>2, <1>3, <1>4, <1>5, <1>6 DEF Next, MainStep, ClientStep

(* From its connect() on a connection is counted in one place: not yet     *)
(* accepted, in main's connfd, in the list, or with one worker.  No two    *)
(* workers ever have it, and Enqueue() and Dequeue() drop none: this is    *)
(* what lets a worker serve its socket without a mutex.  That each is      *)
(* served is not said: main leaves its loop with the connfd it got when    *)
(* `done' is set, and what is queued is gone when the process ends.        *)
THEOREM ConnectionsServedOnce == Spec => []SocketOnce
<1>1. Spec => []SocketInv
  BY InitSocketInv, NextKeepsSocketInv, Invariance, PTL DEF Spec
<1>2. SocketInv => SocketOnce
  BY DEF SocketInv, InOnePlace, Places, Queued, Serving, SocketOnce
<1>3. QED
  BY <1>1, <1>2, PTL
=============================================================================
