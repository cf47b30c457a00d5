----------------------------- MODULE ThreadsCond -----------------------------
(***************************************************************************)
(* os_ex5/files/mutex/threadscond.c: a producer, main, shares elements     *)
(* one by one with a pool of consumers, theThread, through a mutex and a   *)
(* condition variable, and sends the consumers home in the end.            *)
(*                                                                         *)
(* What main does under the mutex is one step, for it neither waits nor    *)
(* loops in there.  A consumer keeps the mutex from one turn of its loop   *)
(* to the next and gives it back in pthread_cond_wait() or as it returns:  *)
(*   "lock"   waiting for the mutex, as it starts or after it was woken    *)
(*   "loop"   it has it, and looks at `done' and `canConsume'              *)
(*   "wait"   asleep in pthread_cond_wait()                                *)
(*   "ended"  it has returned                                              *)
(* The calls of sleep() order nothing: they are left out.                  *)
(***************************************************************************)
EXTENDS Integers, FiniteSets

CONSTANTS
    Consumers,      (* the NUMTHREADS threads                               *)
    NoOwner,
    Elements        (* elementsToConsume                                    *)

ASSUME CondAssumption ==
    IsFiniteSet(Consumers) /\ NoOwner \notin Consumers /\ Elements \in Nat

VARIABLES
    canConsume, sharedElement, done,
    mutex,          (* the consumer that has it between two steps           *)
    pc,             (* where a consumer is                                  *)
    main,           (* where main is: "produce", "signal", "sleep", "ended" *)
    left, i         (* main's loop counters                                 *)

data == <<canConsume, sharedElement>>
mainVars == <<main, left, i>>
vars == <<data, done, mutex, pc, mainVars>>

NUMTHREADS == Cardinality(Consumers)
Sleeping == {w \in Consumers : pc[w] = "wait"}

TypeOK ==
    /\ canConsume \in BOOLEAN /\ sharedElement \in 0..Elements /\ done \in BOOLEAN
    /\ mutex \in Consumers \cup {NoOwner}
    /\ pc \in [Consumers -> {"lock", "loop", "wait", "ended"}]
    /\ main \in {"produce", "signal", "sleep", "ended"}
    /\ left \in 0..Elements /\ i \in 0..NUMTHREADS

Init ==
    /\ canConsume = FALSE /\ sharedElement = 0 /\ done = FALSE
    /\ mutex = NoOwner
    /\ pc = [w \in Consumers |-> "lock"]
    /\ main = "produce" /\ left = Elements /\ i = 0

-----------------------------------------------------------------------------
(* pthread_cond_signal(): one of the sleepers, if there is one. *)
SignalOne ==
    \/ Sleeping = {} /\ UNCHANGED pc
    \/ \E w \in Sleeping : pc' = [pc EXCEPT ![w] = "lock"]

Produce ==
    /\ main = "produce" /\ mutex = NoOwner /\ left > 0
    /\ left' = left - 1
    /\ sharedElement' = sharedElement + 1 /\ canConsume' = TRUE
    /\ SignalOne
    /\ UNCHANGED <<done, mutex, main, i>>

Finish ==
    /\ main = "produce" /\ mutex = NoOwner /\ left = 0
    /\ done' = TRUE /\ main' = "signal"
    /\ UNCHANGED <<data, mutex, pc, left, i>>

(* Mutant: the loop stops one signal too early. *)
SignalEndButOne ==
    /\ main = "signal"
    /\ IF i < NUMTHREADS - 1
       THEN mutex = NoOwner /\ i' = i + 1 /\ SignalOne /\ UNCHANGED main
       ELSE main' = "sleep" /\ UNCHANGED <<i, pc>>
    /\ UNCHANGED <<data, done, mutex, left>>

SignalEnd ==
    /\ main = "signal"
    /\ IF i < NUMTHREADS
       THEN mutex = NoOwner /\ i' = i + 1 /\ SignalOne /\ UNCHANGED main
       ELSE main' = "sleep" /\ UNCHANGED <<i, pc>>
    /\ UNCHANGED <<data, done, mutex, left>>

(* Nothing makes main wait for the consumers but a sleep. *)
Exit ==
    /\ main = "sleep" /\ main' = "ended"
    /\ UNCHANGED <<data, done, mutex, pc, left, i>>

-----------------------------------------------------------------------------
Goes(w, from, to) == pc[w] = from /\ pc' = [pc EXCEPT ![w] = to]

Lock(w) ==
    /\ Goes(w, "lock", "loop")
    /\ mutex = NoOwner /\ mutex' = w
    /\ UNCHANGED <<data, done, mainVars>>

(* Mutant: the unlock behind the loop is forgotten. *)
LeaveKeepsLock(w) ==
    /\ Goes(w, "loop", "ended")
    /\ done
    /\ UNCHANGED <<data, done, mutex, mainVars>>

Leave(w) ==
    /\ Goes(w, "loop", "ended")
    /\ done /\ mutex' = NoOwner
    /\ UNCHANGED <<data, done, mainVars>>

(* Mutant: an `if' for the inner `while', so that whoever is woken takes. *)
ConsumeUnasked(w) ==
    /\ pc[w] = "loop" /\ ~done
    /\ sharedElement' = sharedElement - 1
    /\ canConsume' = (sharedElement # 1)
    /\ UNCHANGED <<done, mutex, pc, mainVars>>

Consume(w) ==
    /\ pc[w] = "loop" /\ ~done /\ canConsume
    /\ sharedElement' = sharedElement - 1
    /\ canConsume' = (sharedElement # 1)
    /\ UNCHANGED <<done, mutex, pc, mainVars>>

Wait(w) ==
    /\ Goes(w, "loop", "wait")
    /\ ~done /\ ~canConsume /\ mutex' = NoOwner
    /\ UNCHANGED <<data, done, mainVars>>

(* pthread_cond_wait() may return without a signal. *)
WakeUp(w) ==
    /\ Goes(w, "wait", "lock")
    /\ UNCHANGED <<data, done, mutex, mainVars>>

-----------------------------------------------------------------------------
MainStep == Produce \/ Finish \/ SignalEnd
Step(w) == Lock(w) \/ Leave(w) \/ Consume(w) \/ Wait(w)

Next ==
    /\ main # "ended"
    /\ MainStep \/ Exit \/ \E w \in Consumers : Step(w) \/ WakeUp(w)

Spec == Init /\ [][Next]_vars

(* Threads that can go on do; the process need not end, nor a sleeper wake *)
(* up unasked.                                                             *)
FairSpec ==
    /\ Spec
    /\ WF_vars(main # "ended" /\ MainStep)
    /\ \A w \in Consumers : WF_vars(main # "ended" /\ Step(w))

-----------------------------------------------------------------------------
(* The flag a consumer trusts when it takes an element ("canConsume        *)
(* required for safe use of condition variables") says whether there is    *)
(* one: nothing is consumed twice, however the consumers wake up.          *)
FlagOK == canConsume <=> sharedElement > 0

(* Behind main's last signal nobody sleeps. *)
NobodyLeftAsleep == main \in {"sleep", "ended"} => Sleeping = {}

(* "used to signal consumers they should exit gracefuly": once `done' is   *)
(* set all consumers return, if the process leaves them the time.          *)
ConsumersEnd ==
    done ~> (main = "ended" \/ \A w \in Consumers : pc[w] = "ended")
=============================================================================
