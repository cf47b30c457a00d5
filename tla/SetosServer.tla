---------------------------- MODULE SetosServer -----------------------------
(***************************************************************************)
(* os_ex5/src/setos_server.c: main accepts connections and enqueues their  *)
(* sockets, a fixed pool of DoWork threads dequeues and serves them, and   *)
(* SIGINT ends it all.                                                     *)
(*                                                                         *)
(* What Enqueue, Dequeue and main's signal loop do under _global_lock is   *)
(* one step each: nobody can come in between, and of what they write only  *)
(* queue_empty is read outside the mutex.  The list is the sequence        *)
(* `queue', from _head to _tail; num_elems is its length.  (list_init      *)
(* leaves num_elems as malloc returned it; fresh memory is zero.)          *)
(*                                                                         *)
(* main:    "loop"      at while (!done)                                   *)
(*          "calling"   done was 0, accept() is not entered yet            *)
(*          "accept"    blocked in accept()                                *)
(*          "accepted"  accept() has returned connfd                       *)
(*          "enqueue"   done was 0 again, Enqueue() is next                *)
(*          "signal"    in the loop that signals _cond_empty               *)
(*          "sleep"     in sleep(2), the cleanup and return are next       *)
(*          "exited"    the process has ended                              *)
(* worker:  "check"     at while (!queue_empty || ...                      *)
(*          "check_done" queue_empty was 1, done is read next              *)
(*          "dequeue"   waiting for the mutex in Dequeue()                 *)
(*          "wait"      in pthread_cond_wait()                             *)
(*          "serve"     in the inner loop, with a socket                   *)
(*          "spin"      reading a socket it has closed, for ever           *)
(*          "ended"     DoWork() has returned                              *)
(***************************************************************************)
EXTENDS Integers, Sequences, FiniteSets

CONSTANTS
    Workers,        (* the NUM_THREADS threads of the pool                  *)
    Clients,        (* the connections made                                 *)
    NoSocket,       (* a failed accept()'s connfd, and no socket at all     *)
    Command,        (* Command[c]: the bytes of each command of c           *)
    CommandBytes,   (* sizeof(recvBuff): 5 in the code                      *)
    MaxSent,        (* bound: MaxSent[c] is how many bytes c sends at most  *)
    MaxFailures,    (* bound: accept() calls that fail while serving        *)
    MaxReplies      (* bound: commands executed for one client              *)

ASSUME ServerAssumption ==
    /\ IsFiniteSet(Workers)
    /\ NoSocket \notin Clients
    /\ Command \in [Clients -> [1..CommandBytes -> 0..255]]
    /\ CommandBytes \in Nat \ {0}
    /\ MaxSent \in [Clients -> Nat]
    /\ MaxFailures \in Nat /\ MaxReplies \in Nat

VARIABLES
    done,           (* SIGINT has been handled                              *)
    main,           (* where main is                                        *)
    connfd,         (* the connection main has in hand                      *)
    signals,        (* main's loop counter i, in the signal loop            *)
    failures,       (* accept() calls that have failed                      *)
    queue,          (* the sockets in the list, _tail last                  *)
    queue_empty,    (* the flag                                             *)
    pc,             (* where a worker is                                    *)
    sock,           (* the socket it serves, or NoSocket                    *)
    need_read,      (* its need_read; totalRead is CommandBytes - need_read *)
    backlog,        (* connections not accepted yet                         *)
    sent,           (* sent[c]: bytes client c has sent, -1 before it comes *)
    left,           (* the clients that have closed their end               *)
    got,            (* got[c]: bytes of c the server has read               *)
    ran             (* ran[c]: the operations executed for c, in order      *)

mainVars == <<main, connfd, signals, failures>>
queueVars == <<queue, queue_empty>>
workVars == <<sock, need_read>>
clientVars == <<backlog, sent, left>>
served == <<got, ran>>
vars == <<done, mainVars, queueVars, pc, workVars, clientVars, served>>

TypeOK ==
    /\ done \in BOOLEAN
    /\ main \in {"loop", "calling", "accept", "accepted", "enqueue",
                 "signal", "sleep", "exited"}
    /\ connfd \in Clients \cup {NoSocket}
    /\ signals \in 0..Cardinality(Workers)
    /\ failures \in 0..MaxFailures
    /\ queue \in Seq(Clients \cup {NoSocket})
    /\ queue_empty \in BOOLEAN
    /\ pc \in [Workers -> {"check", "check_done", "dequeue", "wait",
                           "serve", "spin", "ended"}]
    /\ sock \in [Workers -> Clients \cup {NoSocket}]
    /\ need_read \in [Workers -> 0..CommandBytes]
    /\ backlog \subseteq Clients
    /\ sent \in [Clients -> Int] /\ \A c \in Clients : sent[c] \in -1..MaxSent[c]
    /\ left \subseteq Clients
    /\ got \in [Clients -> Nat] /\ \A c \in Clients : got[c] <= MaxSent[c]
    /\ ran \in [Clients -> Seq({"add", "remove", "contains"})]

Init ==
    /\ done = FALSE
    /\ main = "loop" /\ connfd = NoSocket /\ signals = 0 /\ failures = 0
    /\ queue = <<>> /\ queue_empty = TRUE
    /\ pc = [w \in Workers |-> "check"]
    /\ sock = [w \in Workers |-> NoSocket]
    /\ need_read = [w \in Workers |-> CommandBytes]
    /\ backlog = {}
    /\ sent = [c \in Clients |-> -1]
    /\ left = {}
    /\ got = [c \in Clients |-> 0]
    /\ ran = [c \in Clients |-> <<>>]

Waiting == {w \in Workers : pc[w] = "wait"}

-----------------------------------------------------------------------------
(* The clients (setos_client.c): connect, write, close, and read nothing. *)

Connect(c) ==
    /\ sent[c] = -1
    /\ sent' = [sent EXCEPT ![c] = 0]
    /\ backlog' = backlog \cup {c}
    /\ UNCHANGED <<done, mainVars, queueVars, pc, workVars, left, served>>

Send(c) ==
    /\ sent[c] \in 0..MaxSent[c] - 1
    /\ c \notin left
    /\ sent' = [sent EXCEPT ![c] = @ + 1]
    /\ UNCHANGED <<done, mainVars, queueVars, pc, workVars, backlog, left, served>>

Close(c) ==
    /\ sent[c] # -1
    /\ c \notin left
    /\ left' = left \cup {c}
    /\ UNCHANGED <<done, mainVars, queueVars, pc, workVars, backlog, sent, served>>

-----------------------------------------------------------------------------
(* main *)

(* The signal handler.  Linux runs it on the main thread; sa_flags has no  *)
(* SA_RESTART, so that a blocked accept() fails, but one not yet entered   *)
(* does not.                                                               *)
Interrupt ==
    /\ main # "exited"
    /\ ~done \/ main = "accept"
    /\ done' = TRUE
    /\ IF main = "accept" THEN main' = "accepted" /\ connfd' = NoSocket
       ELSE UNCHANGED <<main, connfd>>
    /\ UNCHANGED <<signals, failures, queueVars, pc, workVars, clientVars, served>>

MainGoes(from, to) ==
    /\ main = from
    /\ main' = to
    /\ UNCHANGED <<done, connfd, signals, failures, queueVars, pc, workVars,
                   clientVars, served>>

CallAccept ==
    \/ MainGoes("loop", IF done THEN "signal" ELSE "calling")
    \/ MainGoes("calling", "accept")

Accepted(socket) ==
    /\ main = "accept"
    /\ main' = "accepted"
    /\ connfd' = socket
    /\ UNCHANGED <<done, signals, queueVars, pc, workVars, sent, left, served>>

Accept ==
    \E c \in backlog :
        Accepted(c) /\ backlog' = backlog \ {c} /\ UNCHANGED failures

(* A failed accept() is reported, and its connfd enqueued all the same. *)
AcceptFails ==
    /\ failures < MaxFailures
    /\ failures' = failures + 1
    /\ Accepted(NoSocket)
    /\ UNCHANGED backlog

CheckDoneAgain == MainGoes("accepted", IF done THEN "signal" ELSE "enqueue")

(* pthread_cond_signal(): one of the waiting threads, if there is one. *)
SignalOne ==
    \/ Waiting = {} /\ UNCHANGED pc
    \/ \E w \in Waiting : pc' = [pc EXCEPT ![w] = "dequeue"]

(* Mutants: nobody is signalled; the flag is not reset. *)
EnqueueSilent ==
    /\ main = "enqueue"
    /\ queue' = Append(queue, connfd)
    /\ queue_empty' = FALSE
    /\ main' = "loop" /\ connfd' = NoSocket
    /\ UNCHANGED <<done, signals, failures, pc, workVars, clientVars, served>>

EnqueueKeepsFlag ==
    /\ main = "enqueue"
    /\ queue' = Append(queue, connfd)
    /\ UNCHANGED queue_empty
    /\ SignalOne
    /\ main' = "loop" /\ connfd' = NoSocket
    /\ UNCHANGED <<done, signals, failures, workVars, clientVars, served>>

Enqueue ==
    /\ main = "enqueue"
    /\ queue' = Append(queue, connfd)
    /\ queue_empty' = IF queue = <<>> THEN FALSE ELSE queue_empty
    /\ SignalOne
    /\ main' = "loop" /\ connfd' = NoSocket
    /\ UNCHANGED <<done, signals, failures, workVars, clientVars, served>>

(* Mutant: the loop ends one signal early. *)
SignalWorkersButOne ==
    /\ main = "signal"
    /\ IF signals < Cardinality(Workers) - 1
       THEN signals' = signals + 1 /\ SignalOne /\ UNCHANGED main
       ELSE main' = "sleep" /\ UNCHANGED <<signals, pc>>
    /\ UNCHANGED <<done, connfd, failures, queueVars, workVars, clientVars, served>>

(* One turn of the loop that wakes the workers up, or its end. *)
SignalWorkers ==
    /\ main = "signal"
    /\ IF signals < Cardinality(Workers)
       THEN signals' = signals + 1 /\ SignalOne /\ UNCHANGED main
       ELSE main' = "sleep" /\ UNCHANGED <<signals, pc>>
    /\ UNCHANGED <<done, connfd, failures, queueVars, workVars, clientVars, served>>

(* sleep(2) is over; with main returns the process. *)
Exit == MainGoes("sleep", "exited")

-----------------------------------------------------------------------------
(* DoWork *)

WorkerGoes(w, from, to) ==
    /\ pc[w] = from
    /\ pc' = [pc EXCEPT ![w] = to]
    /\ UNCHANGED <<done, mainVars, queueVars, workVars, clientVars, served>>

(* while (!queue_empty || !done): two reads, and no mutex. *)
CheckQueue(w) == WorkerGoes(w, "check", IF queue_empty THEN "check_done" ELSE "dequeue")

CheckDone(w) == WorkerGoes(w, "check_done", IF done THEN "ended" ELSE "dequeue")

(* Mutant: `done' is not looked at before the wait. *)
WaitAnyway(w) == queue_empty /\ WorkerGoes(w, "dequeue", "wait")

(* Dequeue() finds nothing and waits, or gives up. *)
Wait(w) == queue_empty /\ ~done /\ WorkerGoes(w, "dequeue", "wait")

GiveUp(w) == queue_empty /\ done /\ WorkerGoes(w, "dequeue", "check")

(* pthread_cond_wait() may return without a signal. *)
WakeUp(w) == WorkerGoes(w, "wait", "dequeue")

(* Mutant: _tail stays where it is. *)
TakeKeepsTail(w) ==
    /\ pc[w] = "dequeue"
    /\ ~queue_empty
    /\ pc' = [pc EXCEPT ![w] = "serve"]
    /\ sock' = [sock EXCEPT ![w] = queue[Len(queue)]]
    /\ queue_empty' = (Len(queue) = 1)
    /\ UNCHANGED <<done, mainVars, queue, need_read, clientVars, served>>

(* Dequeue() takes the socket at _tail, the one enqueued last. *)
Take(w) ==
    /\ pc[w] = "dequeue"
    /\ ~queue_empty
    /\ pc' = [pc EXCEPT ![w] = "serve"]
    /\ sock' = [sock EXCEPT ![w] = queue[Len(queue)]]
    /\ queue' = SubSeq(queue, 1, Len(queue) - 1)
    /\ queue_empty' = (Len(queue) = 1)
    /\ UNCHANGED <<done, mainVars, need_read, clientVars, served>>

(* Mutant: read() is asked for a whole command each time. *)
ReadWhole(w) ==
    /\ pc[w] = "serve" /\ need_read[w] > 0 /\ sock[w] # NoSocket
    /\ \E n \in 1..CommandBytes :
           /\ n <= sent[sock[w]] - got[sock[w]]
           /\ need_read' = [need_read EXCEPT ![w] = @ - n]
           /\ got' = [got EXCEPT ![sock[w]] = @ + n]
    /\ UNCHANGED <<done, mainVars, queueVars, pc, sock, clientVars, ran>>

(* read() returns some of the bytes that are there. *)
Read(w) ==
    /\ pc[w] = "serve" /\ need_read[w] > 0 /\ sock[w] # NoSocket
    /\ \E n \in 1..need_read[w] :
           /\ n <= sent[sock[w]] - got[sock[w]]
           /\ need_read' = [need_read EXCEPT ![w] = @ - n]
           /\ got' = [got EXCEPT ![sock[w]] = @ + n]
    /\ UNCHANGED <<done, mainVars, queueVars, pc, sock, clientVars, ran>>

(* read() returns 0 or -1: the socket is closed, and read again, because   *)
(* the loop ends only when need_read bytes have come.  Each such read()    *)
(* and close() is of a number that accept() may have given to another      *)
(* connection by then; what it does to that one is not followed.           *)
ReadEnds(w) ==
    /\ need_read[w] > 0
    /\ \/ sock[w] = NoSocket
       \/ sock[w] \in left /\ got[sock[w]] = sent[sock[w]]
    /\ WorkerGoes(w, "serve", "spin")

(* atoi(recvBuff): blanks, a sign, digits, up to the first other byte. *)
Blank == {32} \cup 9..13
Sign == {43, 45}
Digit == 48..57

(* The bytes up to the i-th may belong to the number. *)
Numeric(bytes, i) ==
    \E b \in 0..i :
        /\ \A j \in 1..b : bytes[j] \in Blank
        /\ \A j \in b + 1..i : bytes[j] \in IF j = b + 1 THEN Sign \cup Digit ELSE Digit

Digits(bytes) == {i \in 1..CommandBytes : bytes[i] \in Digit /\ Numeric(bytes, i)}

AtoiIsZero(bytes) == \A i \in Digits(bytes) : bytes[i] = 48

AtoiIsOne(bytes) ==
    \E i \in Digits(bytes) :
        /\ bytes[i] = 49
        /\ \A j \in Digits(bytes) \ {i} : j < i /\ bytes[j] = 48
        /\ \A j \in 1..i : bytes[j] # 45

(* The operations a command may become.  recvBuff is not terminated: when  *)
(* the number goes on to its end, what lies behind it on the stack decides. *)
Dispatch(bytes) ==
    CASE Numeric(bytes, CommandBytes) -> {"add", "remove", "contains"}
      [] ~Numeric(bytes, CommandBytes) /\ AtoiIsZero(bytes) -> {"add"}
      [] ~Numeric(bytes, CommandBytes) /\ AtoiIsOne(bytes) -> {"remove"}
      [] OTHER -> {"contains"}

(* The command in recvBuff is executed and its result written.  The loop   *)
(* goes on with `closed' still 0 and need_read still 0.                    *)
Execute(w) ==
    /\ pc[w] = "serve" /\ need_read[w] = 0
    /\ Len(ran[sock[w]]) < MaxReplies
    /\ \E operation \in Dispatch(Command[sock[w]]) :
           ran' = [ran EXCEPT ![sock[w]] = Append(@, operation)]
    /\ UNCHANGED <<done, mainVars, queueVars, pc, workVars, clientVars, got>>

-----------------------------------------------------------------------------
MainStep ==
    CallAccept \/ Accept \/ AcceptFails \/ CheckDoneAgain \/ Enqueue \/ SignalWorkers

Step(w) ==
    /\ main # "exited"
    /\ \/ CheckQueue(w) \/ CheckDone(w) \/ Wait(w) \/ GiveUp(w) \/ Take(w)
       \/ Read(w) \/ ReadEnds(w) \/ Execute(w)

ClientStep(c) == Connect(c) \/ Send(c) \/ Close(c)

Next ==
    \/ Interrupt \/ MainStep \/ Exit
    \/ \E w \in Workers : Step(w)
    \/ main # "exited" /\ \E w \in Workers : WakeUp(w)
    \/ main # "exited" /\ \E c \in Clients : ClientStep(c)

Spec == Init /\ [][Next]_vars

(* main and the workers run on; nobody has to connect, to interrupt or to  *)
(* wake up without a signal, and sleep(2) may last.                        *)
FairSpec == Spec /\ WF_vars(MainStep) /\ \A w \in Workers : WF_vars(Step(w))

-----------------------------------------------------------------------------
(* The workers that are about to enter Dequeue() and cannot turn away. *)
Coming == {w \in Workers : pc[w] \in {"check", "dequeue"}}

(* No wakeup is lost: while a worker sleeps in Dequeue(), each socket in   *)
(* the queue has a worker awake that comes for it.  Enqueue() signals once *)
(* per socket, not per sleeping worker, and a worker signalled may find    *)
(* that another was faster.                                                *)
NoLostWakeup == Waiting # {} => Len(queue) <= Cardinality(Coming)

(* The NUM_THREADS signals of main reach every worker that sleeps: none    *)
(* starts to sleep behind them, although `done' is set without the mutex.  *)
ShutdownWakesAll == main \in {"sleep", "exited"} => Waiting = {}

(* A connection is in one place at a time: it is not accepted yet, in the  *)
(* hand of main, in the queue, or with one worker.                         *)
SocketOnce ==
    \A c \in Clients : sent[c] # -1 =>
        Cardinality({i \in 1..Len(queue) : queue[i] = c})
            + Cardinality({w \in Workers : sock[w] = c})
            + (IF c \in backlog THEN 1 ELSE 0)
            + (IF connfd = c THEN 1 ELSE 0) = 1

(* A socket in the queue is taken, unless every worker is busy with a      *)
(* socket already or has ended after SIGINT.                               *)
QueueServed ==
    queue # <<>> ~>
        \/ queue = <<>> \/ main = "exited"
        \/ \A w \in Workers : pc[w] \in {"serve", "spin", "ended"}

(* Once main has sent its signals, every worker without a socket ends.     *)
WorkersEnd ==
    main = "sleep" ~>
        \/ main = "exited"
        \/ \A w \in Workers : pc[w] \in {"serve", "spin", "ended"}

(* "have full data- can call appropriate command": each command executed   *)
(* for a client was read from it in full.                                  *)
ExecutedWasRead == \A c \in Clients : Len(ran[c]) * CommandBytes <= got[c]

(* The command executed is the one its first byte, the client's `op', asks *)
(* for: 0 adds, 1 removes, 2 looks.                                        *)
ExecutedAsAsked ==
    \A c \in Clients : \A i \in 1..Len(ran[c]) :
        ran[c][i] = CASE Command[c][1] = 0 -> "add"
                      [] Command[c][1] = 1 -> "remove"
                      [] OTHER -> "contains"
=============================================================================
