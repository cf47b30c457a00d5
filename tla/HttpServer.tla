----------------------------- MODULE HttpServer ------------------------------
(***************************************************************************)
(* os_ex6_new/files/os_ex6_ref/http_server.c: main accepts connections     *)
(* into a queue of at most maxRequests and turns away (503) those for      *)
(* which it has no room; a pool of workerThreads answers the others; the   *)
(* handler of SIGINT, endProgram, ends it all.                             *)
(*                                                                         *)
(* The handler runs on main's thread, which it never gives back: it may    *)
(* find main with the mutex in its hands.  Therefore the mutex is modelled *)
(* here, unlike in SetosServer.  The model starts when the threads are     *)
(* created; calls that fail end the process, and one that kills it is not  *)
(* told apart from one that makes a thread call exit(0).  The number of a  *)
(* closed socket given to a later connection is not modelled.              *)
(*                                                                         *)
(* main:    "accept"    in accept()                                        *)
(*          "lock"      waiting for the mutex in enqueue()                 *)
(*          "enqueue"   it has it                                          *)
(*          "unlock"    about to give it back                              *)
(*          "reject"    about to send 503                                  *)
(*          "signal"    in endProgram, signalling                          *)
(*          "join"      waiting for the workers to return                  *)
(*          "joined"    they have, and the process has ended               *)
(*          "exited"    the process has ended by exit(0) for another cause *)
(* worker:  "lock"      waiting for the mutex in deque()                   *)
(*          "test"      it has it                                          *)
(*          "sleepy"    it has decided to wait                             *)
(*          "wait"      in pthread_cond_wait(), asleep                     *)
(*          "woken"     in pthread_cond_wait(), waiting for the mutex      *)
(*          "take"      behind the wait, with the mutex                    *)
(*          "read"      reading the request                                *)
(*          "send"      in one of the sendAll() calls of the response      *)
(*          "ended"     workerThread() has returned                        *)
(***************************************************************************)
EXTENDS Integers, Sequences, FiniteSets

CONSTANTS
    Workers,        (* the numOfThreads threads                             *)
    Clients,        (* the connections made                                 *)
    Main, NoOwner,  (* owners of the mutex that are no workers              *)
    NoSocket,
    MaxRequests,    (* maxRequests                                          *)
    Request         (* Request[c]: what client c sends, a key of Response   *)

(* What workerThread sends, in as many parts as send() is called.  An      *)
(* "eof" is a client that closes before it has sent anything.              *)
Response ==
    [eof |-> <<>>, put |-> <<"501">>, missing |-> <<"404">>,
     directory |-> <<"200", "name", "newline">>, file |-> <<"200", "chunk", "chunk">>]

ASSUME HttpAssumption ==
    /\ IsFiniteSet(Workers) /\ Workers # {}
    /\ {Main, NoOwner} \cap Workers = {} /\ Main # NoOwner
    /\ NoSocket \notin Clients
    /\ MaxRequests \in Nat
    /\ Request \in [Clients -> DOMAIN Response]

VARIABLES
    done,           (* SIGINT has come                                      *)
    unasked,        (* auxiliary: before it came, pthread_cond_wait() has   *)
                    (* returned without a signal                            *)
    main, connfd,   (* where main is, and the connection it has in hand     *)
    signals,        (* main's loop counter i in endProgram                  *)
    mutex,          (* its owner, or NoOwner                                *)
    queue,          (* the sockets, the one at `head' first                 *)
    pc,             (* where a worker is                                    *)
    sock,           (* the socket it has, or NoSocket                       *)
    unsent,         (* what it has still to send                            *)
    conn,           (* conn[c]: "away", "backlog", "open" or "closed"       *)
    reply           (* reply[c]: what c has been sent                       *)

mainVars == <<main, connfd, signals>>
workVars == <<sock, unsent>>
clientVars == <<conn, reply>>
vars == <<done, unasked, mainVars, mutex, queue, pc, workVars, clientVars>>

Parts == {"200", "404", "501", "503", "name", "newline", "chunk"}

TypeOK ==
    /\ done \in BOOLEAN /\ unasked \in BOOLEAN
    /\ main \in {"accept", "lock", "enqueue", "unlock", "reject", "signal",
                 "join", "joined", "exited"}
    /\ connfd \in Clients \cup {NoSocket}
    /\ signals \in 0..Cardinality(Workers)
    /\ mutex \in Workers \cup {Main, NoOwner}
    /\ queue \in Seq(Clients) /\ Len(queue) <= MaxRequests
    /\ pc \in [Workers -> {"lock", "test", "sleepy", "wait", "woken", "take",
                           "read", "send", "ended"}]
    /\ sock \in [Workers -> Clients \cup {NoSocket}]
    /\ unsent \in [Workers -> Seq(Parts)]
    /\ conn \in [Clients -> {"away", "backlog", "open", "closed"}]
    /\ reply \in [Clients -> Seq(Parts)]

Init ==
    /\ done = FALSE /\ unasked = FALSE
    /\ main = "accept" /\ connfd = NoSocket /\ signals = 0
    /\ mutex = NoOwner /\ queue = <<>>
    /\ pc = [w \in Workers |-> "lock"]
    /\ sock = [w \in Workers |-> NoSocket]
    /\ unsent = [w \in Workers |-> <<>>]
    /\ conn = [c \in Clients |-> "away"]
    /\ reply = [c \in Clients |-> <<>>]

Waiting == {w \in Workers : pc[w] = "wait"}
Running == main \notin {"joined", "exited"}

Connect(c) ==
    /\ conn[c] = "away"
    /\ conn' = [conn EXCEPT ![c] = "backlog"]
    /\ UNCHANGED <<done, unasked, mainVars, mutex, queue, pc, workVars, reply>>

-----------------------------------------------------------------------------
(* main and enqueue() *)

Accept ==
    /\ main = "accept"
    /\ \E c \in Clients :
           /\ conn[c] = "backlog"
           /\ conn' = [conn EXCEPT ![c] = "open"]
           /\ connfd' = c
    /\ main' = "lock"
    /\ UNCHANGED <<done, unasked, signals, mutex, queue, pc, workVars, reply>>

EnqueueLocks ==
    /\ main = "lock" /\ mutex = NoOwner
    /\ main' = "enqueue" /\ mutex' = Main
    /\ UNCHANGED <<done, unasked, connfd, signals, queue, pc, workVars, clientVars>>

(* pthread_cond_signal(): one of the waiting threads, if there is one. *)
SignalOne ==
    \/ Waiting = {} /\ UNCHANGED pc
    \/ \E w \in Waiting : pc' = [pc EXCEPT ![w] = "woken"]

(* Mutants: one too many is let in; nobody is signalled. *)
EnqueueOneMore ==
    /\ main = "enqueue"
    /\ main' = "unlock"
    /\ IF Len(queue) > MaxRequests
       THEN UNCHANGED <<queue, connfd, pc>>
       ELSE queue' = Append(queue, connfd) /\ connfd' = NoSocket /\ SignalOne
    /\ UNCHANGED <<done, unasked, signals, mutex, workVars, clientVars>>

EnqueueSilent ==
    /\ main = "enqueue"
    /\ main' = "unlock"
    /\ UNCHANGED pc
    /\ IF Len(queue) >= MaxRequests
       THEN UNCHANGED <<queue, connfd>>
       ELSE queue' = Append(queue, connfd) /\ connfd' = NoSocket
    /\ UNCHANGED <<done, unasked, signals, mutex, workVars, clientVars>>

(* A connection that is not let in stays in main's hand. *)
Enqueue ==
    /\ main = "enqueue"
    /\ main' = "unlock"
    /\ IF Len(queue) >= MaxRequests
       THEN UNCHANGED <<queue, connfd, pc>>
       ELSE queue' = Append(queue, connfd) /\ connfd' = NoSocket /\ SignalOne
    /\ UNCHANGED <<done, unasked, signals, mutex, workVars, clientVars>>

EnqueueUnlocks ==
    /\ main = "unlock"
    /\ main' = IF connfd = NoSocket THEN "accept" ELSE "reject"
    /\ mutex' = NoOwner
    /\ UNCHANGED <<done, unasked, connfd, signals, queue, pc, workVars, clientVars>>

Reject ==
    /\ main = "reject"
    /\ main' = "accept" /\ connfd' = NoSocket
    /\ reply' = [reply EXCEPT ![connfd] = Append(@, "503")]
    /\ conn' = [conn EXCEPT ![connfd] = "closed"]
    /\ UNCHANGED <<done, unasked, signals, mutex, queue, pc, workVars>>

-----------------------------------------------------------------------------
(* endProgram *)

(* SIGINT, wherever main is: Linux prefers main's thread. *)
Interrupt ==
    /\ main \notin {"signal", "join"}
    /\ main' = "signal" /\ done' = TRUE
    /\ UNCHANGED <<unasked, connfd, signals, mutex, queue, pc, workVars, clientVars>>

SignalWorkers ==
    /\ main = "signal"
    /\ IF signals < Cardinality(Workers)
       THEN signals' = signals + 1 /\ SignalOne /\ UNCHANGED main
       ELSE main' = "join" /\ UNCHANGED <<signals, pc>>
    /\ UNCHANGED <<done, unasked, connfd, mutex, queue, workVars, clientVars>>

(* All the pthread_join() have returned. *)
Join ==
    /\ main = "join" /\ \A w \in Workers : pc[w] = "ended"
    /\ main' = "joined"
    /\ UNCHANGED <<done, unasked, connfd, signals, mutex, queue, pc, workVars, clientVars>>

(* A second SIGINT: main's thread is in the handler and blocks it, so that *)
(* a worker runs endProgram too.  Its signals wake sleepers up, as WakeUp  *)
(* does; one of its pthread_join() calls, or of main's, fails, because a   *)
(* thread cannot join itself, nor one that another is joining: exit(0).    *)
InterruptAgain ==
    /\ main \in {"signal", "join"} /\ \E w \in Workers : pc[w] # "ended"
    /\ main' = "exited"
    /\ UNCHANGED <<done, unasked, connfd, signals, mutex, queue, pc, workVars, clientVars>>

-----------------------------------------------------------------------------
(* deque() *)

Goes(w, from, to) == pc[w] = from /\ pc' = [pc EXCEPT ![w] = to]

DequeLocks(w) ==
    /\ mutex = NoOwner /\ mutex' = w
    /\ Goes(w, "lock", "test") \/ Goes(w, "woken", "take")
    /\ UNCHANGED <<done, unasked, mainVars, queue, workVars, clientVars>>

(* Mutant: `done' is not looked at. *)
TestQueue(w) ==
    /\ Goes(w, "test", IF queue = <<>> THEN "sleepy" ELSE "take")
    /\ UNCHANGED <<done, unasked, mainVars, mutex, queue, workVars, clientVars>>

Test(w) ==
    /\ Goes(w, "test", IF queue = <<>> /\ ~done THEN "sleepy" ELSE "take")
    /\ UNCHANGED <<done, unasked, mainVars, mutex, queue, workVars, clientVars>>

(* pthread_cond_wait() gives the mutex back as it falls asleep. *)
Wait(w) ==
    /\ Goes(w, "sleepy", "wait")
    /\ mutex' = NoOwner
    /\ UNCHANGED <<done, unasked, mainVars, queue, workVars, clientVars>>

(* It may return without a signal, and deque() does not ask why it did. *)
WakeUp(w) ==
    /\ Goes(w, "wait", "woken")
    /\ unasked' = (unasked \/ ~done)
    /\ UNCHANGED <<done, mainVars, mutex, queue, workVars, clientVars>>

(* Mutants: the worker ends as soon as it sees `done'; the head stays. *)
TakeUnlessDone(w) ==
    /\ Goes(w, "take", IF done \/ queue = <<>> THEN "ended" ELSE "read")
    /\ mutex' = NoOwner
    /\ IF done \/ queue = <<>>
       THEN UNCHANGED <<queue, sock>>
       ELSE sock' = [sock EXCEPT ![w] = Head(queue)] /\ queue' = Tail(queue)
    /\ UNCHANGED <<done, unasked, mainVars, unsent, clientVars>>

TakeKeepsHead(w) ==
    /\ Goes(w, "take", IF queue = <<>> THEN "ended" ELSE "read")
    /\ mutex' = NoOwner
    /\ IF queue = <<>>
       THEN UNCHANGED sock
       ELSE sock' = [sock EXCEPT ![w] = Head(queue)]
    /\ UNCHANGED <<done, unasked, mainVars, queue, unsent, clientVars>>

(* It does not test the queue again as it wakes up: when another worker    *)
(* was faster, or nothing had come, deque() returns -1, for which          *)
(* workerThread() returns.                                                 *)
Take(w) ==
    /\ Goes(w, "take", IF queue = <<>> THEN "ended" ELSE "read")
    /\ mutex' = NoOwner
    /\ IF queue = <<>>
       THEN UNCHANGED <<queue, sock>>
       ELSE sock' = [sock EXCEPT ![w] = Head(queue)] /\ queue' = Tail(queue)
    /\ UNCHANGED <<done, unasked, mainVars, unsent, clientVars>>

-----------------------------------------------------------------------------
(* workerThread *)

(* What has been sent, the socket is closed. *)
CloseSocket(w) ==
    /\ conn' = [conn EXCEPT ![sock[w]] = "closed"]
    /\ sock' = [sock EXCEPT ![w] = NoSocket]

ReadEof(w) ==
    /\ Goes(w, "read", "lock")
    /\ Request[sock[w]] = "eof"
    /\ CloseSocket(w)
    /\ UNCHANGED <<done, unasked, mainVars, mutex, queue, unsent, reply>>

ReadRequest(w) ==
    /\ Goes(w, "read", "send")
    /\ Request[sock[w]] # "eof"
    /\ unsent' = [unsent EXCEPT ![w] = Response[Request[sock[w]]]]
    /\ UNCHANGED <<done, unasked, mainVars, mutex, queue, sock, clientVars>>

Send(w) ==
    /\ pc[w] = "send" /\ unsent[w] # <<>>
    /\ unsent' = [unsent EXCEPT ![w] = Tail(@)]
    /\ reply' = [reply EXCEPT ![sock[w]] = Append(@, Head(unsent[w]))]
    /\ UNCHANGED <<done, unasked, mainVars, mutex, queue, pc, sock, conn>>

Sent(w) ==
    /\ unsent[w] = <<>>
    /\ Goes(w, "send", "lock")
    /\ CloseSocket(w)
    /\ UNCHANGED <<done, unasked, mainVars, mutex, queue, unsent, reply>>

(* exit(0), when sscanf() does not find three words in what one read()     *)
(* returned, and on every call that fails: read, stat, opendir, open,      *)
(* lseek, send.                                                            *)
GiveUp(w) ==
    /\ \/ pc[w] = "read" /\ Request[sock[w]] # "eof"
       \/ pc[w] = "send" /\ unsent[w] # <<>>
    /\ main' = "exited"
    /\ UNCHANGED <<done, unasked, connfd, signals, mutex, queue, pc, workVars, clientVars>>

(* The same on main's side: accept() or send() fails. *)
GiveUpMain ==
    /\ main \in {"accept", "reject"}
    /\ main' = "exited"
    /\ UNCHANGED <<done, unasked, connfd, signals, mutex, queue, pc, workVars, clientVars>>

-----------------------------------------------------------------------------
MainStep ==
    \/ Accept \/ EnqueueLocks \/ Enqueue \/ EnqueueUnlocks \/ Reject
    \/ SignalWorkers \/ Join

Step(w) ==
    \/ DequeLocks(w) \/ Test(w) \/ Wait(w) \/ Take(w)
    \/ ReadEof(w) \/ ReadRequest(w) \/ Send(w) \/ Sent(w)

Next ==
    /\ Running
    /\ \/ MainStep \/ Interrupt \/ InterruptAgain \/ GiveUpMain
       \/ \E w \in Workers : Step(w) \/ WakeUp(w) \/ GiveUp(w)
       \/ \E c \in Clients : Connect(c)

Spec == Init /\ [][Next]_vars

(* Threads that can go on do, one that waits for a free mutex gets it, and *)
(* clients send their requests and read the answers.  Nobody has to wake   *)
(* up without a signal, to interrupt or to fail.                           *)
FairSpec ==
    /\ Spec
    /\ WF_vars(Running /\ MainStep)
    /\ \A w \in Workers : WF_vars(Running /\ Step(w))

-----------------------------------------------------------------------------
(* A connection that is accepted and not closed yet is in one place: in    *)
(* main's hand, in the queue or with one worker.                           *)
ConnectionOnce ==
    \A c \in Clients : conn[c] = "open" =>
        Cardinality({i \in 1..Len(queue) : queue[i] = c})
            + Cardinality({w \in Workers : sock[w] = c})
            + (IF connfd = c THEN 1 ELSE 0) = 1

(* A client whose connection the server has closed was either turned away  *)
(* or sent the whole answer to its request, and nothing else.              *)
AnsweredOnce ==
    \A c \in Clients : conn[c] = "closed" =>
        reply[c] = <<"503">> \/ reply[c] = Response[Request[c]]

(* The workers that are on their way to the queue. *)
Coming == {w \in Workers : pc[w] \in {"lock", "test", "woken", "take"}}

(* No wakeup is lost: while a worker sleeps in deque(), each socket in the *)
(* queue has a worker awake that comes for it, although deque() gives up   *)
(* the workers whose wakeup was stolen or unasked.                         *)
NoLostWakeup == Waiting # {} => Len(queue) <= Cardinality(Coming)

(* All the workers have returned. *)
PoolGone == \A w \in Workers : pc[w] = "ended"

(* "they will finish when queue is empty": stolen wakeups alone may cost   *)
(* the pool workers, but never the last one; it stays until SIGINT has     *)
(* come and all that was queued is taken.  A wakeup nobody asked for,      *)
(* before SIGINT, is what it takes for the pool to be gone too early.      *)
PoolAlive == PoolGone => (done /\ queue = <<>>) \/ unasked

(* SIGINT came while main had the mutex: nobody ever gets it again. *)
MutexLost == done /\ mutex = Main

(* A connection in the queue is taken and served, in its turn, as long as  *)
(* there is a worker: stolen and unasked wakeups leave none asleep then.   *)
EachServed ==
    \A c \in Clients :
        (\E i \in 1..Len(queue) : queue[i] = c) ~>
            conn[c] = "closed" \/ ~Running \/ MutexLost \/ PoolGone

(* Once endProgram has sent its signals and no worker is left asleep, nor  *)
(* about to fall asleep, the queue is emptied and the process ends.        *)
ShutdownEnds ==
    (/\ main = "join" /\ mutex # Main
     /\ \A w \in Workers : pc[w] \notin {"sleepy", "wait"}) ~> ~Running

(* "returns next socket on success, -1 on end (signals for thread to       *)
(* exit)": a worker returns when the end has come only, at least if none   *)
(* was woken up without a signal.                                          *)
EndsOnlyWhenDone == (\E w \in Workers : pc[w] = "ended") => done \/ unasked
=============================================================================
