------------------------- MODULE HttpServer_proofs ---------------------------
(***************************************************************************)
(* The pool of the HTTP server, for any number of workers, of clients and  *)
(* of places in the queue: types, the bound of the queue, that the stolen  *)
(* wakeups of deque() never cost the last worker, that no wakeup is lost,  *)
(* that a connection is in one place at a time, and that an answer is sent *)
(* whole and once.                                                         *)
(***************************************************************************)
EXTENDS HttpServer, FiniteSetTheorems, SequenceTheorems, TLAPS

Locations == {"lock", "test", "sleepy", "wait", "woken", "take", "read", "send", "ended"}

(* A worker that serves has a socket, and main when it has accepted one. *)
SockOK ==
    /\ \A w \in Workers : pc[w] \in {"read", "send"} => sock[w] \in Clients
    /\ main \in {"lock", "enqueue", "reject"} => connfd \in Clients

(* main is in enqueue() before SIGINT only, and in endProgram behind it. *)
PhaseOK ==
    /\ main \in {"lock", "enqueue", "unlock", "reject", "accept"} => ~done
    /\ main \in {"signal", "join"} => done

(* Workers that are neither gone nor at the point where they may be told   *)
(* to go: only one that was woken may find the queue empty there.  As long *)
(* as all were woken by a signal, the thief of a wakeup is one that stays. *)
Steady == {w \in Workers : pc[w] \notin {"woken", "take", "ended"}}
Alive == {w \in Workers : pc[w] # "ended"}

SteadyLeft == ~done /\ ~unasked => queue # <<>> \/ Steady # {}
QueueHasWorker == queue # <<>> /\ ~unasked => Alive # {}

Inv == TypeOK /\ SockOK /\ PhaseOK /\ SteadyLeft /\ QueueHasWorker

-----------------------------------------------------------------------------
LEMMA Counted == Cardinality(Workers) \in Nat
BY HttpAssumption, FS_CardinalityType

LEMMA InitInv == Init => Inv
<1> SUFFICES ASSUME Init PROVE Inv
  OBVIOUS
<1>1. TypeOK
  <2>1. done \in BOOLEAN /\ unasked \in BOOLEAN
    BY Zenon DEF Init
  <2>2. /\ queue \in Seq(Clients) /\ Len(queue) <= MaxRequests
        /\ signals \in 0..Cardinality(Workers)
    BY Counted, HttpAssumption DEF Init
  <2>3. /\ unsent \in [Workers -> Seq(Parts)] /\ reply \in [Clients -> Seq(Parts)]
    BY DEF Init
  <2>4. QED
    BY <2>1, <2>2, <2>3, HttpAssumption DEF Init, TypeOK
<1>2. SockOK /\ PhaseOK /\ QueueHasWorker
  BY DEF Init, SockOK, PhaseOK, QueueHasWorker
<1>3. SteadyLeft
  BY HttpAssumption DEF Init, SteadyLeft, Steady
<1>4. QED
  BY <1>1, <1>2, <1>3 DEF Inv

(* What a signal does to the workers. *)
LEMMA SignalWakes ==
    ASSUME TypeOK, SignalOne
    PROVE  /\ pc' \in [Workers -> Locations]
           /\ \A w \in Workers : pc'[w] = pc[w] \/ (pc[w] = "wait" /\ pc'[w] = "woken")
<1>1. CASE UNCHANGED pc
  BY <1>1 DEF TypeOK, Locations
<1>2. CASE \E w \in Waiting : pc' = [pc EXCEPT ![w] = "woken"]
  BY <1>2 DEF TypeOK, Locations, Waiting
<1>3. QED
  BY <1>1, <1>2 DEF SignalOne

LEMMA EnqueueKeepsInv == ASSUME Inv, Enqueue PROVE Inv'
<1> USE DEF Inv
<1>1. /\ main = "enqueue" /\ main' = "unlock" /\ ~done /\ ~done'
      /\ unasked' = unasked
  BY DEF Enqueue, PhaseOK
<1>2. CASE Len(queue) >= MaxRequests
  <2>1. UNCHANGED <<done, unasked, connfd, signals, mutex, queue, pc, sock, unsent, conn, reply>>
    BY <1>2 DEF Enqueue, workVars, clientVars
  <2>2. TypeOK'
    BY <1>1, <2>1 DEF TypeOK
  <2>3. SockOK' /\ PhaseOK' /\ SteadyLeft' /\ QueueHasWorker'
    BY <1>1, <2>1 DEF SockOK, PhaseOK, SteadyLeft, QueueHasWorker, Steady, Alive
  <2>4. QED
    BY <2>2, <2>3
<1>3. CASE ~(Len(queue) >= MaxRequests)
  <2>1. /\ queue' = Append(queue, connfd) /\ connfd' = NoSocket /\ SignalOne
        /\ UNCHANGED <<done, unasked, signals, mutex, sock, unsent, conn, reply>>
    BY <1>3 DEF Enqueue, workVars, clientVars
  <2>2. connfd \in Clients
    BY <1>1 DEF SockOK
  <2>3. queue' \in Seq(Clients) /\ Len(queue') <= MaxRequests /\ queue' # <<>>
    <3>1. queue \in Seq(Clients) /\ MaxRequests \in Nat
      BY HttpAssumption DEF TypeOK
    <3>2. QED
      BY ONLY <1>3, <2>1, <2>2, <3>1, AppendProperties
  <2>4. TypeOK'
    BY <1>1, <2>1, <2>3, SignalWakes DEF TypeOK, Locations
  <2>5. SockOK' /\ PhaseOK' /\ SteadyLeft'
    BY <1>1, <2>1, <2>3, SignalWakes DEF SockOK, PhaseOK, SteadyLeft
  <2>6. ~unasked => Alive # {}
    BY <1>1 DEF SteadyLeft, QueueHasWorker, Steady, Alive
  <2>7. ~unasked' => Alive' # {}
    BY <1>1, <2>1, <2>6, SignalWakes DEF Alive
  <2>8. QED
    BY <2>4, <2>5, <2>7 DEF QueueHasWorker
<1>4. QED
  BY <1>2, <1>3

(* Steps of main that leave the workers and the queue alone. *)
LEMMA MainAloneKeepsInv ==
    ASSUME Inv, UNCHANGED <<unasked, queue, pc, workVars>>, TypeOK', SockOK', PhaseOK',
           done => done'
    PROVE  Inv'
BY DEF Inv, SteadyLeft, QueueHasWorker, Steady, Alive, workVars

LEMMA MainKeepsInv ==
    ASSUME Inv, MainStep \/ Interrupt \/ InterruptAgain \/ GiveUpMain
    PROVE  Inv'
<1> USE DEF Inv
<1>1. CASE Accept
  <2>1. PICK c \in Clients : conn[c] = "backlog" /\ conn' = [conn EXCEPT ![c] = "open"] /\ connfd' = c
    BY <1>1 DEF Accept
  <2>2. /\ main = "accept" /\ main' = "lock"
        /\ UNCHANGED <<done, unasked, signals, mutex, queue, pc, workVars, reply>>
    BY <1>1 DEF Accept
  <2>3. TypeOK'
    BY <2>1, <2>2 DEF TypeOK, workVars
  <2>4. SockOK' /\ PhaseOK'
    BY <2>1, <2>2 DEF SockOK, PhaseOK, workVars
  <2>5. QED
    BY <2>2, <2>3, <2>4, MainAloneKeepsInv
<1>2. CASE EnqueueLocks
  <2>1. TypeOK'
    BY <1>2 DEF EnqueueLocks, TypeOK, workVars, clientVars
  <2>2. SockOK' /\ PhaseOK'
    BY <1>2 DEF EnqueueLocks, SockOK, PhaseOK, workVars
  <2>3. QED
    BY <1>2, <2>1, <2>2, MainAloneKeepsInv DEF EnqueueLocks
<1>3. CASE Enqueue
  BY <1>3, EnqueueKeepsInv
<1>4. CASE EnqueueUnlocks
  <2>1. TypeOK'
    BY <1>4 DEF EnqueueUnlocks, TypeOK, workVars, clientVars
  <2>2. SockOK' /\ PhaseOK'
    BY <1>4 DEF EnqueueUnlocks, SockOK, PhaseOK, TypeOK, workVars
  <2>3. QED
    BY <1>4, <2>1, <2>2, MainAloneKeepsInv DEF EnqueueUnlocks
<1>5. CASE Reject
  <2>1. connfd \in Clients /\ "503" \in Parts
    BY <1>5 DEF Reject, SockOK, Parts
  <2>2. Append(reply[connfd], "503") \in Seq(Parts)
    BY <2>1, AppendProperties DEF TypeOK
  <2>3. reply' \in [Clients -> Seq(Parts)]
    BY <1>5, <2>1, <2>2 DEF Reject, TypeOK
  <2>4. conn' \in [Clients -> {"away", "backlog", "open", "closed"}]
    BY <1>5, <2>1 DEF Reject, TypeOK
  <2>5. TypeOK'
    BY <1>5, <2>3, <2>4 DEF Reject, TypeOK, workVars
  <2>6. SockOK' /\ PhaseOK'
    BY <1>5 DEF Reject, SockOK, PhaseOK, workVars
  <2>7. QED
    BY <1>5, <2>5, <2>6, MainAloneKeepsInv DEF Reject
<1>6. CASE SignalWorkers /\ signals < Cardinality(Workers)
  <2>1. /\ SignalOne /\ signals' = signals + 1 /\ main = "signal"
        /\ UNCHANGED <<done, unasked, main, connfd, mutex, queue, sock, unsent, conn, reply>>
    BY <1>6 DEF SignalWorkers, workVars, clientVars
  <2>2. signals' \in 0..Cardinality(Workers)
    BY <1>6, <2>1, Counted DEF TypeOK
  <2>3. TypeOK'
    BY <2>1, <2>2, SignalWakes DEF TypeOK, Locations
  <2>4. SockOK' /\ PhaseOK'
    BY <2>1, SignalWakes DEF SockOK, PhaseOK
  <2>5. done'
    BY <1>6 DEF SignalWorkers, PhaseOK
  <2>6. QueueHasWorker'
    BY <2>1, SignalWakes DEF QueueHasWorker, Alive
  <2>7. QED
    BY <2>3, <2>4, <2>5, <2>6 DEF SteadyLeft
<1>7. CASE SignalWorkers /\ ~(signals < Cardinality(Workers))
  <2>1. TypeOK'
    BY <1>7 DEF SignalWorkers, TypeOK, workVars, clientVars
  <2>2. SockOK' /\ PhaseOK'
    BY <1>7 DEF SignalWorkers, SockOK, PhaseOK, workVars
  <2>3. QED
    BY <1>7, <2>1, <2>2, MainAloneKeepsInv DEF SignalWorkers
<1>8. CASE Join \/ Interrupt \/ InterruptAgain \/ GiveUpMain
  <2>1. TypeOK'
    <3>1. done' \in BOOLEAN
      BY <1>8, Zenon DEF Join, Interrupt, InterruptAgain, GiveUpMain, TypeOK
    <3>2. QED
      BY <1>8, <3>1 DEF Join, Interrupt, InterruptAgain, GiveUpMain, TypeOK, workVars,
                        clientVars
  <2>2. SockOK' /\ PhaseOK'
    BY <1>8 DEF Join, Interrupt, InterruptAgain, GiveUpMain, SockOK, PhaseOK, workVars
  <2>3. QED
    BY <1>8, <2>1, <2>2, MainAloneKeepsInv DEF Join, Interrupt, InterruptAgain, GiveUpMain
<1>9. QED
  BY <1>1, <1>2, <1>3, <1>4, <1>5, <1>6, <1>7, <1>8 DEF MainStep

(* Steps by which w goes from one place to another, and does not return.   *)
LEMMA GoesKeepsInv ==
    ASSUME Inv, NEW w \in Workers, NEW from \in Locations, NEW to \in Locations,
           Goes(w, from, to), UNCHANGED <<done, unasked, mainVars, queue>>,
           from = "woken" => to = "take",
           to = "take" => from = "woken" \/ queue # <<>>,
           to \notin {"woken", "ended"}, to \in {"read", "send"} => sock'[w] \in Clients,
           \A x \in Workers \ {w} : sock'[x] = sock[x]
    PROVE  SockOK' /\ PhaseOK' /\ SteadyLeft' /\ QueueHasWorker'
<1> USE DEF Inv, Goes, mainVars
<1>1. /\ pc[w] = from /\ pc'[w] = to
      /\ \A x \in Workers \ {w} : pc'[x] = pc[x]
  BY DEF TypeOK, Locations
<1>2. SockOK'
  BY <1>1 DEF SockOK
<1>3. PhaseOK'
  BY DEF PhaseOK
<1>4. QueueHasWorker'
  BY <1>1 DEF QueueHasWorker, Alive
<1>5. SteadyLeft'
  <2>1. CASE queue # <<>> \/ done \/ unasked
    BY <2>1 DEF SteadyLeft
  <2>2. CASE queue = <<>> /\ ~done /\ ~unasked
    <3>1. PICK x \in Steady : TRUE
      BY <2>2 DEF SteadyLeft
    <3>2. x \in Steady'
      BY <1>1, <2>2, <3>1 DEF Steady
    <3>3. QED
      BY <3>2 DEF SteadyLeft
  <2>3. QED
    BY <2>1, <2>2
<1>6. QED
  BY <1>2, <1>3, <1>4, <1>5

(* deque() up to the wait. *)
LEMMA DequeKeepsInv ==
    ASSUME Inv, NEW w \in Workers, DequeLocks(w) \/ Test(w) \/ Wait(w)
    PROVE  Inv'
<1> USE DEF Inv
<1>1. UNCHANGED <<done, unasked, mainVars, queue, workVars, clientVars>>
  BY DEF DequeLocks, Test, Wait
<1>2. PICK from \in {"lock", "woken", "test", "sleepy"}, to \in {"test", "take", "sleepy", "wait"} :
          /\ Goes(w, from, to)
          /\ from = "woken" => to = "take"
          /\ to = "take" => from = "woken" \/ queue # <<>> \/ done
  BY DEF DequeLocks, Test, Wait
<1>3. TypeOK'
  BY <1>1, <1>2 DEF DequeLocks, Test, Wait, Goes, TypeOK, mainVars, workVars, clientVars
<1>4. CASE to = "take" => from = "woken" \/ queue # <<>>
  <2>1. sock' = sock
    BY <1>1 DEF workVars
  <2>2. SockOK' /\ PhaseOK' /\ SteadyLeft' /\ QueueHasWorker'
    BY <1>1, <1>2, <1>4, <2>1, GoesKeepsInv DEF Locations
  <2>3. QED
    BY <1>3, <2>2
(* After SIGINT nothing has to be shown of those that stay. *)
<1>5. CASE done
  <2>1. \A x \in Workers : pc'[x] # "ended" \/ pc'[x] = pc[x]
    BY <1>2 DEF Goes, TypeOK
  <2>2. SockOK'
    BY <1>1, <1>2 DEF SockOK, Goes, TypeOK, workVars, mainVars
  <2>3. PhaseOK' /\ SteadyLeft'
    BY <1>1, <1>5 DEF PhaseOK, SteadyLeft, mainVars
  <2>4. QueueHasWorker'
    BY <1>1, <2>1 DEF QueueHasWorker, Alive
  <2>5. QED
    BY <1>3, <2>2, <2>3, <2>4
<1>6. QED
  BY <1>2, <1>4, <1>5

(* One more way into the wait's other end: nothing is claimed any more of  *)
(* the size of the pool before SIGINT.                                     *)
LEMMA WakeUpKeepsInv == ASSUME Inv, NEW w \in Workers, WakeUp(w) PROVE Inv'
<1> USE DEF Inv
<1>1. /\ pc[w] = "wait" /\ pc' = [pc EXCEPT ![w] = "woken"]
      /\ unasked' = (unasked \/ ~done)
      /\ UNCHANGED <<done, main, connfd, signals, mutex, queue, sock, unsent, conn, reply>>
  BY DEF WakeUp, Goes, mainVars, workVars, clientVars
<1>2. done \/ unasked'
  BY <1>1
<1>3. TypeOK'
  <2>1. unasked' \in BOOLEAN
    BY <1>1, Zenon DEF TypeOK
  <2>2. QED
    BY <1>1, <2>1 DEF TypeOK
<1>4. SockOK' /\ PhaseOK' /\ SteadyLeft'
  BY <1>1, <1>2 DEF SockOK, PhaseOK, SteadyLeft, TypeOK
<1>5. QueueHasWorker'
  BY <1>1 DEF QueueHasWorker, Alive, TypeOK
<1>6. QED
  BY <1>3, <1>4, <1>5

LEMMA TakeKeepsInv == ASSUME Inv, NEW w \in Workers, Take(w) PROVE Inv'
<1> USE DEF Inv
<1>1. CASE queue = <<>>
  <2>1. /\ pc[w] = "take" /\ pc' = [pc EXCEPT ![w] = "ended"] /\ mutex' = NoOwner
        /\ UNCHANGED <<done, unasked, main, connfd, signals, queue, sock, unsent, conn, reply>>
    BY <1>1 DEF Take, Goes, mainVars, clientVars
  <2>2. TypeOK'
    BY <2>1 DEF TypeOK
  <2>3. SockOK' /\ PhaseOK' /\ QueueHasWorker'
    BY <1>1, <2>1 DEF SockOK, PhaseOK, QueueHasWorker, TypeOK
  <2>4. \A x \in Steady : x # w /\ pc'[x] = pc[x]
    BY <2>1 DEF Steady, TypeOK
  <2>5. SteadyLeft'
    BY <1>1, <2>1, <2>4 DEF SteadyLeft, Steady
  <2>6. QED
    BY <2>2, <2>3, <2>5
<1>2. CASE queue # <<>>
  <2>1. /\ pc[w] = "take" /\ pc' = [pc EXCEPT ![w] = "read"] /\ mutex' = NoOwner
        /\ sock' = [sock EXCEPT ![w] = Head(queue)] /\ queue' = Tail(queue)
        /\ UNCHANGED <<done, unasked, main, connfd, signals, unsent, conn, reply>>
    BY <1>2 DEF Take, Goes, mainVars, clientVars
  <2>2. /\ Head(queue) \in Clients /\ Tail(queue) \in Seq(Clients)
        /\ Len(Tail(queue)) <= MaxRequests
    BY <1>2, HttpAssumption, HeadTailProperties DEF TypeOK
  <2>3. TypeOK'
    BY <2>1, <2>2 DEF TypeOK
  <2>4. SockOK' /\ PhaseOK'
    BY <2>1, <2>2 DEF SockOK, PhaseOK, TypeOK
  <2>5. w \in Steady' /\ w \in Alive'
    BY <2>1 DEF Steady, Alive, TypeOK
  <2>6. QED
    BY <2>3, <2>4, <2>5 DEF SteadyLeft, QueueHasWorker
<1>3. QED
  BY <1>1, <1>2

(* The parts of every response are parts. *)
LEMMA ResponseParts ==
    ASSUME NEW c \in Clients
    PROVE  Response[Request[c]] \in Seq(Parts)
<1>1. Request[c] \in {"eof", "put", "missing", "directory", "file"}
  BY HttpAssumption DEF Response
<1>2. /\ <<>> \in Seq(Parts) /\ <<"501">> \in Seq(Parts) /\ <<"404">> \in Seq(Parts)
      /\ <<"200", "name", "newline">> \in Seq(Parts)
      /\ <<"200", "chunk", "chunk">> \in Seq(Parts)
  BY DEF Parts
<1>3. /\ Response["eof"] = <<>> /\ Response["put"] = <<"501">>
      /\ Response["missing"] = <<"404">>
      /\ Response["directory"] = <<"200", "name", "newline">>
      /\ Response["file"] = <<"200", "chunk", "chunk">>
  BY DEF Response
<1>4. QED
  BY <1>1, <1>2, <1>3

LEMMA ServeKeepsInv ==
    ASSUME Inv, NEW w \in Workers,
           ReadEof(w) \/ ReadRequest(w) \/ Send(w) \/ Sent(w) \/ GiveUp(w)
    PROVE  Inv'
<1> USE DEF Inv
<1>1. CASE ReadEof(w) \/ Sent(w)
  <2>1. PICK from \in {"read", "send"} : Goes(w, from, "lock")
    BY <1>1 DEF ReadEof, Sent
  <2>2. /\ conn' = [conn EXCEPT ![sock[w]] = "closed"]
        /\ sock' = [sock EXCEPT ![w] = NoSocket]
        /\ UNCHANGED <<done, unasked, mainVars, mutex, queue, unsent, reply>>
    BY <1>1 DEF ReadEof, Sent, CloseSocket
  <2>3. sock[w] \in Clients
    BY <2>1 DEF Goes, SockOK
  <2>4. TypeOK'
    BY <2>1, <2>2, <2>3 DEF Goes, TypeOK, mainVars
  <2>5. \A x \in Workers \ {w} : sock'[x] = sock[x]
    BY <2>2 DEF TypeOK
  <2>6. SockOK' /\ PhaseOK' /\ SteadyLeft' /\ QueueHasWorker'
    BY <2>1, <2>2, <2>5, GoesKeepsInv DEF Locations
  <2>7. QED
    BY <2>4, <2>6
<1>2. CASE ReadRequest(w)
  <2>1. /\ Goes(w, "read", "send")
        /\ unsent' = [unsent EXCEPT ![w] = Response[Request[sock[w]]]]
        /\ UNCHANGED <<done, unasked, mainVars, mutex, queue, sock, clientVars>>
    BY <1>2 DEF ReadRequest
  <2>2. sock[w] \in Clients
    BY <2>1 DEF Goes, SockOK
  <2>3. unsent' \in [Workers -> Seq(Parts)]
    BY <2>1, <2>2, ResponseParts DEF TypeOK
  <2>4. TypeOK'
    BY <2>1, <2>3 DEF Goes, TypeOK, mainVars, clientVars
  <2>5. SockOK' /\ PhaseOK' /\ SteadyLeft' /\ QueueHasWorker'
    BY <2>1, <2>2, GoesKeepsInv DEF Locations
  <2>6. QED
    BY <2>4, <2>5
<1>3. CASE Send(w)
  <2>1. /\ pc[w] = "send" /\ unsent[w] # <<>>
        /\ unsent' = [unsent EXCEPT ![w] = Tail(@)]
        /\ reply' = [reply EXCEPT ![sock[w]] = Append(@, Head(unsent[w]))]
        /\ UNCHANGED <<done, unasked, main, connfd, signals, mutex, queue, pc, sock, conn>>
    BY <1>3 DEF Send, mainVars
  <2>2. sock[w] \in Clients
    BY <2>1 DEF SockOK
  <2>3. Head(unsent[w]) \in Parts /\ Tail(unsent[w]) \in Seq(Parts)
    BY <2>1, HeadTailProperties DEF TypeOK
  <2>4. Append(reply[sock[w]], Head(unsent[w])) \in Seq(Parts)
    BY <2>2, <2>3, AppendProperties DEF TypeOK
  <2>5. unsent' \in [Workers -> Seq(Parts)] /\ reply' \in [Clients -> Seq(Parts)]
    BY <2>1, <2>2, <2>3, <2>4 DEF TypeOK
  <2>6. TypeOK'
    BY <2>1, <2>5 DEF TypeOK
  <2>7. SockOK' /\ PhaseOK' /\ SteadyLeft' /\ QueueHasWorker'
    BY <2>1 DEF SockOK, PhaseOK, SteadyLeft, QueueHasWorker, Steady, Alive
  <2>8. QED
    BY <2>6, <2>7
<1>4. CASE GiveUp(w)
  <2>1. /\ main' = "exited"
        /\ UNCHANGED <<done, unasked, connfd, signals, mutex, queue, pc, sock, unsent, conn, reply>>
    BY <1>4 DEF GiveUp, workVars, clientVars
  <2>2. TypeOK'
    BY <2>1 DEF TypeOK
  <2>3. SockOK' /\ PhaseOK' /\ SteadyLeft' /\ QueueHasWorker'
    BY <2>1 DEF SockOK, PhaseOK, SteadyLeft, QueueHasWorker, Steady, Alive
  <2>4. QED
    BY <2>2, <2>3
<1>5. QED
  BY <1>1, <1>2, <1>3, <1>4

LEMMA ConnectKeepsInv == ASSUME Inv, NEW c \in Clients, Connect(c) PROVE Inv'
<1>1. TypeOK'
  BY DEF Inv, Connect, TypeOK, mainVars, workVars
<1>2. SockOK' /\ PhaseOK' /\ SteadyLeft' /\ QueueHasWorker'
  BY DEF Inv, Connect, SockOK, PhaseOK, SteadyLeft, QueueHasWorker, Steady, Alive,
         mainVars, workVars
<1>3. QED
  BY <1>1, <1>2 DEF Inv

LEMMA NextKeepsInv == Inv /\ [Next]_vars => Inv'
<1> SUFFICES ASSUME Inv, [Next]_vars PROVE Inv'
  OBVIOUS
<1>1. CASE MainStep \/ Interrupt \/ InterruptAgain \/ GiveUpMain
  BY <1>1, MainKeepsInv
<1>2. ASSUME NEW w \in Workers, Step(w) \/ WakeUp(w) \/ GiveUp(w) PROVE Inv'
  BY <1>2, DequeKeepsInv, WakeUpKeepsInv, TakeKeepsInv, ServeKeepsInv DEF Step
<1>3. ASSUME NEW c \in Clients, Connect(c) PROVE Inv'
  BY <1>3, ConnectKeepsInv
<1>4. CASE UNCHANGED vars
  <2>1. TypeOK'
    BY <1>4 DEF Inv, vars, TypeOK, mainVars, workVars, clientVars
  <2>2. SockOK' /\ PhaseOK' /\ SteadyLeft' /\ QueueHasWorker'
    BY <1>4 DEF Inv, vars, SockOK, PhaseOK, SteadyLeft, QueueHasWorker, Steady, Alive,
                mainVars, workVars
  <2>3. QED
    BY <2>1, <2>2 DEF Inv
<1>5. QED
  BY <1>1, <1>2, <1>3, <1>4 DEF Next

LEMMA Invariance == Spec => []Inv
<1>1. QED
  BY InitInv, NextKeepsInv, PTL DEF Spec

(* Every variable keeps its type; above all, the queue never holds more    *)
(* than maxRequests sockets, nor main signal more often than it has        *)
(* workers.                                                                *)
THEOREM TypeCorrect == Spec => []TypeOK
<1>1. Inv => TypeOK
  BY DEF Inv
<1>2. QED
  BY <1>1, Invariance, PTL

(* deque() waits in an `if': a worker whose wakeup was stolen or unasked   *)
(* returns, for good.  When the pool is gone before SIGINT has come and    *)
(* the queue is empty, an unasked wakeup before SIGINT is to blame: the    *)
(* thief of a wakeup is one worker more that stays.                        *)
THEOREM PoolOutlivesThieves == Spec => []PoolAlive
<1>1. Inv => PoolAlive
  BY DEF Inv, PoolAlive, PoolGone, SteadyLeft, QueueHasWorker, Steady, Alive
<1>2. QED
  BY <1>1, Invariance, PTL

-----------------------------------------------------------------------------
(* Who is in a critical section has the mutex, and nobody decides to wait  *)
(* unless the queue is empty, which it stays until the mutex is given back.*)

MutexOK ==
    /\ \A w \in Workers : pc[w] \in {"test", "sleepy", "take"} => mutex = w
    /\ main \in {"enqueue", "unlock"} => mutex = Main

SleepyOK == \A w \in Workers : pc[w] = "sleepy" => queue = <<>>

WakeInv == MutexOK /\ SleepyOK /\ NoLostWakeup

(* Two sets that agree on everything but x. *)
LEMMA CountChanged ==
    ASSUME NEW S, NEW T, NEW x, IsFiniteSet(S), S \ {x} = T \ {x}
    PROVE  /\ Cardinality(S) \in Nat
           /\ Cardinality(T) = Cardinality(S) - (IF x \in S THEN 1 ELSE 0)
                                              + (IF x \in T THEN 1 ELSE 0)
<1>1. Cardinality(S) \in Nat
  BY FS_CardinalityType
<1>2. CASE x \in T
  <2>1. T = S \cup {x}
    BY <1>2
  <2>2. Cardinality(T) = IF x \in S THEN Cardinality(S) ELSE Cardinality(S) + 1
    BY <2>1, FS_AddElement
  <2>3. QED
    BY <1>1, <1>2, <2>2
<1>3. CASE x \notin T
  <2>1. T = S \ {x}
    BY <1>3
  <2>2. Cardinality(T) = IF x \in S THEN Cardinality(S) - 1 ELSE Cardinality(S)
    BY <2>1, FS_RemoveElement
  <2>3. QED
    BY <1>1, <1>3, <2>2
<1>4. QED
  BY <1>2, <1>3

LEMMA ComingCounted ==
    ASSUME NEW x, Coming' \subseteq Workers, Coming \ {x} = Coming' \ {x}
    PROVE  /\ Cardinality(Coming) \in Nat
           /\ Cardinality(Coming') = Cardinality(Coming)
                  - (IF x \in Coming THEN 1 ELSE 0) + (IF x \in Coming' THEN 1 ELSE 0)
<1>1. IsFiniteSet(Coming)
  BY HttpAssumption, FS_Subset, Coming \in SUBSET Workers DEF Coming
<1>2. QED
  BY <1>1, CountChanged

LEMMA InitWakeInv == Init => WakeInv
BY DEF Init, WakeInv, MutexOK, SleepyOK, NoLostWakeup, Waiting

(* Steps that leave the queue and the workers' places alone. *)
LEMMA StillKeepsWakeInv ==
    ASSUME WakeInv, UNCHANGED <<queue, pc>>, MutexOK'
    PROVE  WakeInv'
BY DEF WakeInv, SleepyOK, NoLostWakeup, Waiting, Coming

(* A signal, for a socket more in the queue or for none: one who comes     *)
(* more, if one sleeps.                                                    *)
LEMMA SignalKeepsWakeInv ==
    ASSUME Inv, WakeInv, SignalOne, queue' \in Seq(Clients),
           \/ queue' = queue /\ MutexOK'
           \/ /\ Len(queue') = Len(queue) + 1
              /\ main = "enqueue" /\ main' = "unlock" /\ mutex' = mutex
    PROVE  WakeInv'
<1>1. queue \in Seq(Clients) /\ Len(queue) \in Nat
  BY DEF Inv, TypeOK
<1>2. /\ pc' \in [Workers -> Locations]
      /\ \A w \in Workers : pc'[w] = pc[w] \/ (pc[w] = "wait" /\ pc'[w] = "woken")
  BY SignalWakes DEF Inv
<1>3. MutexOK'
  BY <1>2 DEF WakeInv, MutexOK
<1>4. SleepyOK'
  <2>1. CASE queue' = queue
    BY <1>2, <2>1 DEF WakeInv, SleepyOK
  <2>2. CASE main = "enqueue"
    <3>1. \A w \in Workers : pc[w] # "sleepy"
      BY <2>2, HttpAssumption DEF WakeInv, MutexOK
    <3>2. QED
      BY <1>2, <3>1 DEF SleepyOK
  <2>3. QED
    BY <2>1, <2>2
<1>5. CASE Waiting = {}
  <2>1. Waiting' = {}
    BY <1>2, <1>5 DEF Waiting
  <2>2. QED
    BY <1>3, <1>4, <2>1 DEF WakeInv, NoLostWakeup
<1>6. CASE Waiting # {}
  <2>1. PICK x \in Waiting : pc' = [pc EXCEPT ![x] = "woken"]
    BY <1>6 DEF SignalOne
  <2>2. /\ x \in Workers /\ pc[x] = "wait" /\ pc'[x] = "woken"
        /\ \A w \in Workers \ {x} : pc'[w] = pc[w]
    BY <2>1 DEF Waiting, Inv, TypeOK
  <2>3. x \notin Coming /\ x \in Coming' /\ Coming \ {x} = Coming' \ {x}
    BY <2>2 DEF Coming
  <2>4. /\ Cardinality(Coming) \in Nat
        /\ Cardinality(Coming') = Cardinality(Coming) + 1
    <3>1. Coming' \subseteq Workers
      BY DEF Coming
    <3>2. QED
      BY <2>3, <3>1, ComingCounted
  <2>5. Len(queue') <= Cardinality(Coming')
    BY <1>1, <1>6, <2>4 DEF WakeInv, NoLostWakeup
  <2>6. QED
    BY <1>3, <1>4, <2>5 DEF WakeInv, NoLostWakeup
<1>7. QED
  BY <1>5, <1>6

LEMMA MainKeepsWakeInv ==
    ASSUME Inv, WakeInv, MainStep \/ Interrupt \/ InterruptAgain \/ GiveUpMain
    PROVE  WakeInv'
<1>1. CASE Enqueue /\ ~(Len(queue) >= MaxRequests)
  <2>1. /\ queue' = Append(queue, connfd) /\ SignalOne
        /\ main = "enqueue" /\ main' = "unlock" /\ mutex' = mutex
    BY <1>1 DEF Enqueue
  <2>2. connfd \in Clients /\ queue \in Seq(Clients)
    BY <2>1 DEF Inv, SockOK, TypeOK
  <2>3. queue' \in Seq(Clients) /\ Len(queue') = Len(queue) + 1
    BY <2>1, <2>2, AppendProperties
  <2>4. QED
    BY <2>1, <2>3, SignalKeepsWakeInv
<1>2. CASE Enqueue /\ Len(queue) >= MaxRequests
  BY <1>2, StillKeepsWakeInv DEF Enqueue, WakeInv, MutexOK
<1>3. CASE SignalWorkers /\ signals < Cardinality(Workers)
  <2>1. SignalOne /\ UNCHANGED <<queue, mutex, main>> /\ main = "signal"
    BY <1>3 DEF SignalWorkers
  <2>2. MutexOK'
    BY <2>1, SignalWakes DEF WakeInv, MutexOK, Inv
  <2>3. queue \in Seq(Clients)
    BY DEF Inv, TypeOK
  <2>4. QED
    BY <2>1, <2>2, <2>3, SignalKeepsWakeInv
<1>4. CASE SignalWorkers /\ ~(signals < Cardinality(Workers))
  BY <1>4, StillKeepsWakeInv DEF SignalWorkers, WakeInv, MutexOK
<1>5. CASE Accept \/ Reject \/ Join \/ Interrupt \/ InterruptAgain \/ GiveUpMain
  BY <1>5, StillKeepsWakeInv DEF Accept, Reject, Join, Interrupt, InterruptAgain,
     GiveUpMain, WakeInv, MutexOK
<1>6. CASE EnqueueLocks
  BY <1>6, HttpAssumption, StillKeepsWakeInv DEF EnqueueLocks, WakeInv, MutexOK
<1>7. CASE EnqueueUnlocks
  <2>1. mutex = Main /\ main' \in {"accept", "reject"} /\ UNCHANGED <<queue, pc>>
    BY <1>7 DEF EnqueueUnlocks, WakeInv, MutexOK
  <2>2. MutexOK'
    BY <2>1, HttpAssumption DEF WakeInv, MutexOK
  <2>3. QED
    BY <2>1, <2>2, StillKeepsWakeInv
<1>8. QED
  BY <1>1, <1>2, <1>3, <1>4, <1>5, <1>6, <1>7 DEF MainStep

(* A worker goes from one place to another: it may leave those who come    *)
(* when the queue is empty, or with a socket.                              *)
LEMMA WorkerKeepsWakeInv ==
    ASSUME Inv, WakeInv, NEW w \in Workers, Step(w) \/ WakeUp(w)
    PROVE  WakeInv'
<1>1. CASE Send(w)
  BY <1>1, StillKeepsWakeInv DEF Send, mainVars, WakeInv, MutexOK
<1>2. CASE ~Send(w)
  <2>1. PICK from \in Locations, to \in Locations :
            /\ Goes(w, from, to)
            /\ \/ queue' = queue
               \/ from = "take" /\ to = "read" /\ queue # <<>> /\ queue' = Tail(queue)
            /\ from \in {"lock", "test", "woken", "take"} =>
                   \/ to \in {"test", "take"}
                   \/ queue = <<>>
                   \/ from = "take" /\ to = "read"
            /\ to = "wait" => from = "sleepy" /\ queue' = queue
            /\ to = "sleepy" => from = "test" /\ queue = <<>> /\ queue' = queue
            /\ to \in {"test", "sleepy", "take"} => mutex' = w
            /\ \/ mutex' = mutex
               \/ mutex = NoOwner /\ mutex' = w
               \/ mutex' = NoOwner /\ from \in {"sleepy", "take"}
            /\ UNCHANGED main
    BY <1>2 DEF Step, DequeLocks, Test, Wait, WakeUp, Take, ReadEof, ReadRequest, Sent,
                Goes, Locations, mainVars, WakeInv, MutexOK
  <2>2. /\ pc[w] = from /\ pc'[w] = to
        /\ \A x \in Workers \ {w} : pc'[x] = pc[x]
    BY <2>1 DEF Goes, Inv, TypeOK
  <2>3. MutexOK'
    BY <2>1, <2>2, HttpAssumption DEF WakeInv, MutexOK
  <2>4. queue \in Seq(Clients) /\ Len(queue) \in Nat
    BY DEF Inv, TypeOK
  <2>5. queue = <<>> => queue' = <<>>
    BY <2>1
  <2>6. SleepyOK'
    BY <2>1, <2>2, <2>5 DEF WakeInv, SleepyOK
  <2>7. /\ Cardinality(Coming) \in Nat /\ Cardinality(Coming') \in Nat
        /\ Cardinality(Coming') = Cardinality(Coming)
               - (IF w \in Coming THEN 1 ELSE 0) + (IF w \in Coming' THEN 1 ELSE 0)
    <3>1. Coming' \subseteq Workers /\ Coming \ {w} = Coming' \ {w}
      BY <2>2 DEF Coming
    <3>2. IsFiniteSet(Coming')
      BY HttpAssumption, FS_Subset, <3>1
    <3>3. QED
      BY <3>1, <3>2, ComingCounted, FS_CardinalityType
  <2>8. CASE queue = <<>>
    BY <2>3, <2>5, <2>6, <2>7, <2>8 DEF WakeInv, NoLostWakeup
  <2>9. CASE queue # <<>>
    <3>1. Waiting' \subseteq Waiting
      BY <2>1, <2>2, <2>9 DEF Waiting, WakeInv, SleepyOK
    <3>2. w \in Coming => w \in Coming' \/ (from = "take" /\ to = "read")
      BY <2>1, <2>2, <2>9 DEF Coming
    <3>3. CASE queue' = queue /\ ~(from = "take" /\ to = "read")
      <4>1. Cardinality(Coming') >= Cardinality(Coming)
        BY <2>7, <3>2, <3>3
      <4>2. QED
        BY <2>3, <2>4, <2>6, <2>7, <3>1, <3>3, <4>1 DEF WakeInv, NoLostWakeup
    <3>4. CASE from = "take" /\ to = "read"
      <4>1. w \in Coming /\ w \notin Coming'
        BY <2>2, <3>4 DEF Coming
      <4>2. queue' = Tail(queue)
        BY <1>2, <2>2, <2>9, <3>4 DEF Step, DequeLocks, Test, Wait, WakeUp, Take, ReadEof,
                                 ReadRequest, Sent, Goes
      <4>3. Len(queue') = Len(queue) - 1
        BY <2>4, <2>9, <4>2, HeadTailProperties
      <4>4. QED
        BY <2>3, <2>4, <2>6, <2>7, <3>1, <4>1, <4>3 DEF WakeInv, NoLostWakeup
    <3>5. QED
      BY <2>1, <3>3, <3>4
  <2>10. QED
    BY <2>8, <2>9
<1>3. QED
  BY <1>1, <1>2

LEMMA NextKeepsWakeInv == Inv /\ WakeInv /\ [Next]_vars => WakeInv'
<1> SUFFICES ASSUME Inv, WakeInv, [Next]_vars PROVE WakeInv'
  OBVIOUS
<1>1. CASE MainStep \/ Interrupt \/ InterruptAgain \/ GiveUpMain
  BY <1>1, MainKeepsWakeInv
<1>2. ASSUME NEW w \in Workers, Step(w) \/ WakeUp(w) PROVE WakeInv'
  BY <1>2, WorkerKeepsWakeInv
<1>3. ASSUME NEW w \in Workers, GiveUp(w) PROVE WakeInv'
  BY <1>3, StillKeepsWakeInv DEF GiveUp, WakeInv, MutexOK
<1>4. ASSUME NEW c \in Clients, Connect(c) PROVE WakeInv'
  BY <1>4, StillKeepsWakeInv DEF Connect, mainVars, WakeInv, MutexOK
<1>5. CASE UNCHANGED vars
  BY <1>5, StillKeepsWakeInv DEF vars, mainVars, WakeInv, MutexOK
<1>6. QED
  BY <1>1, <1>2, <1>3, <1>4, <1>5 DEF Next

(* While a worker sleeps in deque(), each socket in the queue has a worker *)
(* awake that comes for it, whatever wakeups were stolen or unasked, and   *)
(* wherever SIGINT found main.                                             *)
THEOREM WakeupsSuffice == Spec => []NoLostWakeup
<1>1. WakeInv => NoLostWakeup
  BY DEF WakeInv
<1>2. QED
  BY <1>1, InitWakeInv, NextKeepsWakeInv, Invariance, PTL DEF Spec

-----------------------------------------------------------------------------
(* Where a connection is while it is open: Places(c) counts the places.    *)
(* A hand that takes a socket is empty before.                             *)

Queued(s, c) == {i \in 1..Len(s) : s[i] = c}

Serving(c) == {w \in Workers : sock[w] = c}

Places(c) ==
    Cardinality(Queued(queue, c)) + Cardinality(Serving(c))
        + (IF connfd = c THEN 1 ELSE 0)

HandsFree ==
    /\ main = "accept" => connfd = NoSocket
    /\ \A w \in Workers : pc[w] \notin {"read", "send"} => sock[w] = NoSocket

InOnePlace == \A c \in Clients : Places(c) = IF conn[c] = "open" THEN 1 ELSE 0

SocketInv == HandsFree /\ InOnePlace

(* What a client has been sent: nothing before a worker sends, and then    *)
(* what the worker has not to send any more.                               *)
Sending(c) == \E w \in Workers : pc[w] = "send" /\ sock[w] = c

RepliesOK ==
    /\ \A c \in Clients :
           /\ conn[c] # "closed" /\ ~Sending(c) => reply[c] = <<>>
           /\ conn[c] = "closed" => reply[c] = <<"503">> \/ reply[c] = Response[Request[c]]
    /\ \A w \in Workers :
           pc[w] = "send" => reply[sock[w]] \o unsent[w] = Response[Request[sock[w]]]

(* How often c stands in a sequence that grows at its end or loses its     *)
(* head.                                                                   *)
LEMMA QueuedFinite ==
    ASSUME NEW S, NEW s \in Seq(S), NEW c
    PROVE  IsFiniteSet(Queued(s, c)) /\ Cardinality(Queued(s, c)) \in Nat
<1>1. IsFiniteSet(1..Len(s)) /\ Queued(s, c) \in SUBSET (1..Len(s))
  BY FS_Interval DEF Queued
<1>2. QED
  BY <1>1, FS_Subset, FS_CardinalityType

LEMMA QueuedAppend ==
    ASSUME NEW S, NEW s \in Seq(S), NEW x \in S, NEW c
    PROVE  Cardinality(Queued(Append(s, x), c)) =
               Cardinality(Queued(s, c)) + (IF x = c THEN 1 ELSE 0)
<1> DEFINE n == Len(s) + 1
<1>1. /\ n \in Nat /\ Len(Append(s, x)) = n /\ Append(s, x)[n] = x
      /\ \A i \in 1..Len(s) : Append(s, x)[i] = s[i]
  OBVIOUS
<1>2. /\ n \notin Queued(s, c)
      /\ n \in Queued(Append(s, x), c) <=> x = c
      /\ Queued(s, c) \ {n} = Queued(Append(s, x), c) \ {n}
  BY <1>1 DEF Queued
<1>3. QED
  BY <1>2, QueuedFinite, CountChanged

LEMMA QueuedTail ==
    ASSUME NEW S, NEW s \in Seq(S), s # <<>>, NEW c
    PROVE  Cardinality(Queued(Tail(s), c)) =
               Cardinality(Queued(s, c)) - (IF Head(s) = c THEN 1 ELSE 0)
<1> DEFINE n == Len(s)
           A == Queued(Tail(s), c)
           B == Queued(s, c) \ {1}
           f == [i \in A |-> i + 1]
<1>1. n \in Nat \ {0} /\ Head(s) = s[1]
  BY EmptySeq
<1>2. /\ Tail(s) \in Seq(S) /\ Len(Tail(s)) = n - 1
      /\ \A i \in 1..(n - 1) : Tail(s)[i] = s[i + 1]
  BY HeadTailProperties
<1>3. A = {i \in 1..(n - 1) : s[i + 1] = c}
  BY <1>1, <1>2 DEF Queued
<1>4. B = {i \in 2..n : s[i] = c}
  BY <1>1 DEF Queued
<1>5. f \in [A -> B]
  BY <1>1, <1>3, <1>4
<1>6. \A i, j \in A : f[i] = f[j] => i = j
  BY <1>1, <1>3
<1>7. \A j \in B : j - 1 \in A /\ f[j - 1] = j
  <2>1. \A j \in B : j \in 2..n /\ s[j] = c
    BY <1>4
  <2>2. \A j \in 2..n : j - 1 \in 1..(n - 1) /\ (j - 1) + 1 = j
    BY <1>1
  <2>3. \A j \in B : j - 1 \in A
    BY <1>3, <2>1, <2>2
  <2>4. QED
    BY <2>1, <2>2, <2>3
<1>8. f \in Bijection(A, B)
  BY <1>5, <1>6, <1>7 DEF Bijection, Injection, Surjection, IsInjective
<1>9. ExistsBijection(A, B)
  BY <1>8 DEF ExistsBijection
<1>10. Cardinality(B) = Cardinality(A)
  BY <1>2, <1>9, FS_Bijection, QueuedFinite
<1>11. 1 \in Queued(s, c) <=> Head(s) = c
  BY <1>1 DEF Queued
<1>12. Cardinality(B) = IF 1 \in Queued(s, c) THEN Cardinality(Queued(s, c)) - 1
                        ELSE Cardinality(Queued(s, c))
  BY QueuedFinite, FS_RemoveElement
<1>13. QED
  BY <1>10, <1>11, <1>12, QueuedFinite

(* One worker's hand changes. *)
LEMMA ServingChanged ==
    ASSUME TypeOK, NEW x \in Workers, NEW s, sock' = [sock EXCEPT ![x] = s], NEW c
    PROVE  /\ Cardinality(Serving(c)) \in Nat
           /\ Cardinality(Serving(c)') = Cardinality(Serving(c))
                  - (IF sock[x] = c THEN 1 ELSE 0) + (IF s = c THEN 1 ELSE 0)
<1>1. sock'[x] = s /\ \A u \in Workers \ {x} : sock'[u] = sock[u]
  BY DEF TypeOK
<1>2. IsFiniteSet(Serving(c))
  BY FS_Subset, HttpAssumption, Serving(c) \in SUBSET Workers DEF Serving
<1>3. /\ x \in Serving(c) <=> sock[x] = c
      /\ x \in Serving(c)' <=> s = c
      /\ Serving(c) \ {x} = Serving(c)' \ {x}
  BY <1>1 DEF Serving
<1>4. QED
  BY <1>2, <1>3, CountChanged

LEMMA PlacesCounted ==
    ASSUME TypeOK, NEW c
    PROVE  /\ Cardinality(Queued(queue, c)) \in Nat
           /\ Cardinality(Serving(c)) \in Nat /\ IsFiniteSet(Serving(c))
<1>1. queue \in Seq(Clients)
  BY DEF TypeOK
<1>2. IsFiniteSet(Serving(c))
  BY HttpAssumption, FS_Subset, Serving(c) \in SUBSET Workers DEF Serving
<1>3. QED
  BY <1>1, <1>2, QueuedFinite, FS_CardinalityType

(* Who has a connection in hand has it alone, and it is open. *)
LEMMA WorkerHasItAlone ==
    ASSUME Inv, SocketInv, NEW w \in Workers, sock[w] \in Clients
    PROVE  /\ conn[sock[w]] = "open" /\ connfd # sock[w]
           /\ Cardinality(Queued(queue, sock[w])) = 0
           /\ \A x \in Workers \ {w} : sock[x] # sock[w]
<1> DEFINE c == sock[w]
           Others == Serving(c) \ {w}
<1>1. /\ Cardinality(Queued(queue, c)) \in Nat
      /\ Cardinality(Serving(c)) \in Nat /\ IsFiniteSet(Serving(c))
  BY PlacesCounted DEF Inv
<1>2. w \in Serving(c)
  BY DEF Serving
<1>3. /\ IsFiniteSet(Others) /\ Cardinality(Others) \in Nat
      /\ Cardinality(Serving(c)) = Cardinality(Others) + 1
  <2>1. /\ IsFiniteSet(Serving(c) \ {w})
        /\ Cardinality(Serving(c) \ {w}) = Cardinality(Serving(c)) - 1
    BY <1>1, <1>2, FS_RemoveElement
  <2>2. QED
    BY <1>1, <2>1, FS_CardinalityType
<1>4. Places(c) = IF conn[c] = "open" THEN 1 ELSE 0
  BY DEF SocketInv, InOnePlace
<1>5. /\ conn[c] = "open" /\ connfd # c /\ Cardinality(Queued(queue, c)) = 0
      /\ Cardinality(Others) = 0
  BY <1>1, <1>3, <1>4 DEF Places
<1>6. Others = {}
  BY <1>3, <1>5, FS_EmptySet
<1>7. QED
  BY <1>5, <1>6 DEF Serving

LEMMA MainHasItAlone ==
    ASSUME Inv, SocketInv, connfd \in Clients
    PROVE  conn[connfd] = "open" /\ \A w \in Workers : sock[w] # connfd
<1>1. \A w \in Workers : sock[w] # connfd
  BY WorkerHasItAlone
<1>2. Places(connfd) >= 1
  BY PlacesCounted DEF Inv, Places
<1>3. QED
  BY <1>1, <1>2 DEF SocketInv, InOnePlace

LEMMA InitSocketInv == Init => SocketInv /\ RepliesOK
<1>1. SUFFICES ASSUME Init PROVE SocketInv /\ RepliesOK
  OBVIOUS
<1>2. ASSUME NEW c \in Clients PROVE Places(c) = 0
  <2>1. Queued(queue, c) = {} /\ Serving(c) = {}
    BY <1>1, HttpAssumption DEF Init, Queued, Serving
  <2>2. Cardinality(Queued(queue, c)) = 0 /\ Cardinality(Serving(c)) = 0
    BY <2>1, FS_EmptySet
  <2>3. QED
    BY <1>1, <2>2, HttpAssumption DEF Init, Places
<1>3. QED
  BY <1>1, <1>2 DEF Init, SocketInv, HandsFree, InOnePlace, RepliesOK

(* The steps that hand no connection on and send nothing. *)
LEMMA UnmovedKeepsSocketInv ==
    ASSUME Inv, SocketInv, RepliesOK,
           UNCHANGED <<queue, sock, connfd, conn, reply, unsent>>,
           main' = "accept" => connfd = NoSocket,
           \A w \in Workers :
               /\ pc[w] \in {"read", "send"} <=> pc'[w] \in {"read", "send"}
               /\ pc[w] = "send" <=> pc'[w] = "send"
    PROVE  SocketInv' /\ RepliesOK'
<1>1. ASSUME NEW c PROVE Places(c)' = Places(c)
  BY DEF Places, Queued, Serving
<1>2. ASSUME NEW c PROVE Sending(c)' <=> Sending(c)
  BY DEF Sending
<1>3. SocketInv'
  BY <1>1 DEF SocketInv, HandsFree, InOnePlace
<1>4. RepliesOK'
  BY <1>2 DEF RepliesOK
<1>5. QED
  BY <1>3, <1>4

LEMMA MainKeepsSocketInv ==
    ASSUME Inv, SocketInv, RepliesOK,
           \/ EnqueueLocks \/ EnqueueUnlocks \/ SignalWorkers \/ Join
           \/ Interrupt \/ InterruptAgain \/ GiveUpMain
           \/ Enqueue /\ Len(queue) >= MaxRequests
    PROVE  SocketInv' /\ RepliesOK'
<1>1. UNCHANGED <<queue, sock, connfd, conn, reply, unsent>>
  BY DEF EnqueueLocks, EnqueueUnlocks, SignalWorkers, Join, Interrupt, InterruptAgain,
         GiveUpMain, Enqueue, workVars, clientVars
<1>2. main' = "accept" => connfd = NoSocket
  BY DEF EnqueueLocks, EnqueueUnlocks, SignalWorkers, Join, Interrupt, InterruptAgain,
         GiveUpMain, Enqueue
<1>3. UNCHANGED pc \/ SignalOne
  BY DEF EnqueueLocks, EnqueueUnlocks, SignalWorkers, Join, Interrupt, InterruptAgain,
         GiveUpMain, Enqueue
<1>4. \A w \in Workers : pc'[w] = pc[w] \/ (pc[w] = "wait" /\ pc'[w] = "woken")
  BY <1>3, SignalWakes DEF Inv
<1>5. QED
  BY <1>1, <1>2, <1>4, UnmovedKeepsSocketInv

(* From the backlog to main; before that a client only connects. *)
LEMMA ArriveKeepsSocketInv ==
    ASSUME Inv, SocketInv, RepliesOK, Accept \/ \E c \in Clients : Connect(c)
    PROVE  SocketInv' /\ RepliesOK'
<1>1. UNCHANGED <<queue, sock, pc, unsent, reply>>
  BY DEF Accept, Connect, workVars
<1>2. ASSUME NEW c
      PROVE  /\ Queued(queue, c)' = Queued(queue, c) /\ Serving(c)' = Serving(c)
             /\ Sending(c)' <=> Sending(c)
  BY <1>1 DEF Queued, Serving, Sending
<1>3. PICK d \in Clients :
          /\ conn[d] \in {"away", "backlog"} /\ conn'[d] \in {"backlog", "open"}
          /\ \A c \in Clients \ {d} : conn'[c] = conn[c]
          /\ \/ connfd = NoSocket /\ connfd' = d /\ conn'[d] = "open" /\ main' # "accept"
             \/ UNCHANGED <<main, connfd>> /\ conn'[d] = "backlog"
  BY DEF Accept, Connect, SocketInv, HandsFree, Inv, TypeOK, mainVars
<1>4. ASSUME NEW c \in Clients
      PROVE  Places(c)' = Places(c) + (IF c = d /\ conn'[d] = "open" THEN 1 ELSE 0)
  BY <1>2, <1>3, PlacesCounted, HttpAssumption DEF Places, Inv, SocketInv
<1>5. InOnePlace'
  BY <1>3, <1>4 DEF SocketInv, InOnePlace
<1>6. HandsFree'
  BY <1>1, <1>3 DEF SocketInv, HandsFree
<1>7. RepliesOK'
  BY <1>1, <1>2, <1>3 DEF RepliesOK
<1>8. QED
  BY <1>5, <1>6, <1>7 DEF SocketInv

(* From main to the end of the queue. *)
LEMMA EnqueueKeepsSocketInv ==
    ASSUME Inv, SocketInv, RepliesOK, Enqueue, ~(Len(queue) >= MaxRequests)
    PROVE  SocketInv' /\ RepliesOK'
<1>1. /\ queue' = Append(queue, connfd) /\ connfd' = NoSocket /\ main' = "unlock"
      /\ SignalOne /\ UNCHANGED <<sock, unsent, conn, reply>>
  BY DEF Enqueue, workVars, clientVars
<1>2. connfd \in Clients /\ queue \in Seq(Clients)
  BY DEF Enqueue, Inv, SockOK, TypeOK
<1>3. ASSUME NEW c \in Clients PROVE Places(c)' = Places(c)
  <2>1. Queued(queue, c)' = Queued(Append(queue, connfd), c)
    BY <1>1 DEF Queued
  <2>2. Cardinality(Queued(queue, c)') =
            Cardinality(Queued(queue, c)) + (IF connfd = c THEN 1 ELSE 0)
    BY <1>2, <2>1, QueuedAppend
  <2>3. Serving(c)' = Serving(c)
    BY <1>1 DEF Serving
  <2>4. QED
    BY <1>1, <2>2, <2>3, PlacesCounted, HttpAssumption DEF Places, Inv
<1>4. \A w \in Workers : pc'[w] = pc[w] \/ (pc[w] = "wait" /\ pc'[w] = "woken")
  BY <1>1, SignalWakes DEF Inv
<1>5. ASSUME NEW c PROVE Sending(c)' <=> Sending(c)
  BY <1>1, <1>4 DEF Sending
<1>6. SocketInv'
  BY <1>1, <1>3, <1>4 DEF SocketInv, HandsFree, InOnePlace
<1>7. RepliesOK'
  BY <1>1, <1>4, <1>5 DEF RepliesOK
<1>8. QED
  BY <1>6, <1>7

(* From main back to the client, with 503 and nothing else. *)
LEMMA RejectKeepsSocketInv ==
    ASSUME Inv, SocketInv, RepliesOK, Reject
    PROVE  SocketInv' /\ RepliesOK'
<1> DEFINE d == connfd
<1>1. /\ connfd' = NoSocket
      /\ reply' = [reply EXCEPT ![d] = Append(@, "503")]
      /\ conn' = [conn EXCEPT ![d] = "closed"]
      /\ UNCHANGED <<queue, pc, sock, unsent>>
  BY DEF Reject, workVars
<1>2. d \in Clients
  BY DEF Reject, Inv, SockOK
<1>3. conn[d] = "open" /\ \A w \in Workers : sock[w] # d
  BY <1>2, MainHasItAlone
<1>4. /\ conn'[d] = "closed" /\ reply'[d] = Append(reply[d], "503")
      /\ \A c \in Clients \ {d} : conn'[c] = conn[c] /\ reply'[c] = reply[c]
  BY <1>1, <1>2 DEF Inv, TypeOK
<1>5. ASSUME NEW c
      PROVE  /\ Queued(queue, c)' = Queued(queue, c) /\ Serving(c)' = Serving(c)
             /\ Sending(c)' <=> Sending(c)
  BY <1>1 DEF Queued, Serving, Sending
<1>6. ASSUME NEW c \in Clients
      PROVE  Places(c)' = Places(c) - (IF c = d THEN 1 ELSE 0)
  BY <1>1, <1>5, PlacesCounted, HttpAssumption DEF Places, Inv
<1>7. SocketInv'
  BY <1>1, <1>3, <1>4, <1>6 DEF SocketInv, HandsFree, InOnePlace
<1>8. reply[d] = <<>>
  BY <1>2, <1>3 DEF RepliesOK, Sending
<1>9. reply'[d] = <<"503">>
  BY <1>4, <1>8
<1>10. ASSUME NEW w \in Workers, pc[w] = "send"
       PROVE  reply'[sock[w]] \o unsent[w] = Response[Request[sock[w]]]
  BY <1>3, <1>4, <1>10 DEF RepliesOK, Inv, SockOK
<1>11. RepliesOK'
  BY <1>1, <1>4, <1>5, <1>9, <1>10 DEF RepliesOK
<1>12. QED
  BY <1>7, <1>11

(* deque() up to the wait and out of it, and when it returns -1. *)
LEMMA DequeKeepsSocketInv ==
    ASSUME Inv, SocketInv, RepliesOK, NEW w \in Workers,
           DequeLocks(w) \/ Test(w) \/ Wait(w) \/ WakeUp(w) \/ (Take(w) /\ queue = <<>>)
    PROVE  SocketInv' /\ RepliesOK'
<1>1. UNCHANGED <<queue, sock, main, connfd, conn, reply, unsent>>
  BY DEF DequeLocks, Test, Wait, WakeUp, Take, mainVars, workVars, clientVars
<1>2. PICK from \in {"lock", "woken", "test", "sleepy", "wait", "take"},
           to \in {"test", "take", "sleepy", "wait", "woken", "ended"} : Goes(w, from, to)
  BY DEF DequeLocks, Test, Wait, WakeUp, Take
<1>3. /\ pc[w] = from /\ pc'[w] = to
      /\ \A x \in Workers \ {w} : pc'[x] = pc[x]
  BY <1>2 DEF Goes, Inv, TypeOK
<1>4. QED
  BY <1>1, <1>3, UnmovedKeepsSocketInv DEF SocketInv, HandsFree

(* From the head of the queue to a worker. *)
LEMMA TakeKeepsSocketInv ==
    ASSUME Inv, SocketInv, RepliesOK, NEW w \in Workers, Take(w), queue # <<>>
    PROVE  SocketInv' /\ RepliesOK'
<1> DEFINE d == Head(queue)
<1>1. /\ pc[w] = "take" /\ pc' = [pc EXCEPT ![w] = "read"]
      /\ sock' = [sock EXCEPT ![w] = d] /\ queue' = Tail(queue)
      /\ UNCHANGED <<main, connfd, unsent, conn, reply>>
  BY DEF Take, Goes, mainVars, clientVars
<1>2. queue \in Seq(Clients) /\ d \in Clients
  BY HeadTailProperties DEF Inv, TypeOK
<1>3. /\ pc'[w] = "read" /\ \A x \in Workers \ {w} : pc'[x] = pc[x]
      /\ sock'[w] = d /\ \A x \in Workers \ {w} : sock'[x] = sock[x]
  BY <1>1 DEF Inv, TypeOK
<1>4. sock[w] = NoSocket
  BY <1>1 DEF SocketInv, HandsFree
<1>5. ASSUME NEW c \in Clients PROVE Places(c)' = Places(c)
  <2>1. Queued(queue, c)' = Queued(Tail(queue), c)
    BY <1>1 DEF Queued
  <2>2. Cardinality(Queued(queue, c)') =
            Cardinality(Queued(queue, c)) - (IF d = c THEN 1 ELSE 0)
    BY <1>2, <2>1, QueuedTail
  <2>3. /\ Cardinality(Serving(c)) \in Nat
        /\ Cardinality(Serving(c)') = Cardinality(Serving(c))
               - (IF sock[w] = c THEN 1 ELSE 0) + (IF d = c THEN 1 ELSE 0)
    <3>1. TypeOK /\ sock' = [sock EXCEPT ![w] = d]
      BY <1>1 DEF Inv
    <3>2. QED
      BY ONLY <3>1, ServingChanged, w \in Workers
  <2>4. sock[w] # c
    BY <1>4, HttpAssumption
  <2>5. Cardinality(Queued(queue, c)) \in Nat
    BY PlacesCounted DEF Inv
  <2>6. QED
    BY <1>1, <2>2, <2>3, <2>4, <2>5 DEF Places
<1>6. SocketInv'
  BY <1>1, <1>3, <1>5 DEF SocketInv, HandsFree, InOnePlace
<1>7. ASSUME NEW c PROVE Sending(c)' <=> Sending(c)
  BY <1>1, <1>3 DEF Sending
<1>8. RepliesOK'
  BY <1>1, <1>3, <1>7 DEF RepliesOK
<1>9. QED
  BY <1>6, <1>8

(* A worker that has its request knows the whole answer. *)
LEMMA ReadRequestKeepsSocketInv ==
    ASSUME Inv, SocketInv, RepliesOK, NEW w \in Workers, ReadRequest(w)
    PROVE  SocketInv' /\ RepliesOK'
<1> DEFINE d == sock[w]
<1>1. /\ pc[w] = "read" /\ pc' = [pc EXCEPT ![w] = "send"]
      /\ unsent' = [unsent EXCEPT ![w] = Response[Request[d]]]
      /\ UNCHANGED <<main, connfd, queue, sock, conn, reply>>
  BY DEF ReadRequest, Goes, mainVars, clientVars
<1>2. d \in Clients
  BY <1>1 DEF Inv, SockOK
<1>3. /\ pc'[w] = "send" /\ unsent'[w] = Response[Request[d]]
      /\ \A x \in Workers \ {w} : pc'[x] = pc[x] /\ unsent'[x] = unsent[x]
  BY <1>1 DEF Inv, TypeOK
<1>4. conn[d] = "open" /\ \A x \in Workers \ {w} : sock[x] # d
  BY <1>2, WorkerHasItAlone
<1>5. ~Sending(d)
  BY <1>1, <1>4 DEF Sending
<1>6. reply[d] = <<>>
  BY <1>2, <1>4, <1>5 DEF RepliesOK
<1>7. reply[d] \o unsent'[w] = Response[Request[d]]
  BY <1>2, <1>3, <1>6, ResponseParts, ConcatEmptySeq
<1>8. ASSUME NEW c PROVE Places(c)' = Places(c)
  BY <1>1 DEF Places, Queued, Serving
<1>9. SocketInv'
  BY <1>1, <1>3, <1>8 DEF SocketInv, HandsFree, InOnePlace
<1>10. ASSUME NEW c PROVE Sending(c)' <=> Sending(c) \/ c = d
  BY <1>1, <1>3 DEF Sending
<1>11. RepliesOK'
  BY <1>1, <1>3, <1>7, <1>10 DEF RepliesOK
<1>12. QED
  BY <1>9, <1>11

(* The head of u goes from one sequence to the other. *)
LEMMA HeadSent ==
    ASSUME NEW S, NEW r \in Seq(S), NEW u \in Seq(S), u # <<>>
    PROVE  Append(r, Head(u)) \o Tail(u) = r \o u
<1>1. PICK h \in S, t \in Seq(S) : h = Head(u) /\ t = Tail(u)
  BY HeadTailProperties
<1>2. <<h>> \in Seq(S) /\ u = <<h>> \o t
  BY <1>1
<1>3. Append(r, h) = r \o <<h>>
  BY AppendIsConcat
<1>4. (r \o <<h>>) \o t = r \o (<<h>> \o t)
  BY <1>2, ConcatAssociative
<1>5. QED
  BY <1>1, <1>2, <1>3, <1>4

(* What is sent and what is still to be sent are one answer. *)
LEMMA SendKeepsSocketInv ==
    ASSUME Inv, SocketInv, RepliesOK, NEW w \in Workers, Send(w)
    PROVE  SocketInv' /\ RepliesOK'
<1> DEFINE d == sock[w]
           r == reply[d]
           u == unsent[w]
<1>1. /\ pc[w] = "send" /\ u # <<>>
      /\ unsent' = [unsent EXCEPT ![w] = Tail(u)]
      /\ reply' = [reply EXCEPT ![d] = Append(r, Head(u))]
      /\ UNCHANGED <<main, connfd, queue, pc, sock, conn>>
  BY DEF Send, mainVars
<1>2. d \in Clients
  BY <1>1 DEF Inv, SockOK
<1>3. /\ unsent'[w] = Tail(u) /\ \A x \in Workers \ {w} : unsent'[x] = unsent[x]
      /\ reply'[d] = Append(r, Head(u)) /\ \A c \in Clients \ {d} : reply'[c] = reply[c]
  BY <1>1, <1>2 DEF Inv, TypeOK
<1>4. conn[d] = "open" /\ \A x \in Workers \ {w} : sock[x] # d
  BY <1>2, WorkerHasItAlone
<1>5. Append(r, Head(u)) \o Tail(u) = r \o u
  <2>1. r \in Seq(Parts) /\ u \in Seq(Parts)
    BY <1>2 DEF Inv, TypeOK
  <2>2. QED
    BY ONLY <1>1, <2>1, HeadSent
<1>6. reply'[d] \o unsent'[w] = Response[Request[d]]
  BY <1>1, <1>3, <1>5 DEF RepliesOK
<1>7. ASSUME NEW c
      PROVE  Places(c)' = Places(c) /\ (Sending(c)' <=> Sending(c))
  BY <1>1 DEF Places, Queued, Serving, Sending
<1>8. SocketInv'
  BY <1>1, <1>7 DEF SocketInv, HandsFree, InOnePlace
<1>9. Sending(d)
  BY <1>1 DEF Sending
<1>10. ASSUME NEW x \in Workers, pc[x] = "send"
       PROVE  reply'[sock[x]] \o unsent'[x] = Response[Request[sock[x]]]
  <2>1. CASE x = w
    BY <1>6, <2>1
  <2>2. CASE x # w
    BY <1>3, <1>4, <1>10, <2>2 DEF RepliesOK, Inv, SockOK
  <2>3. QED
    BY <2>1, <2>2
<1>11. RepliesOK'
  BY <1>1, <1>3, <1>4, <1>7, <1>9, <1>10 DEF RepliesOK
<1>12. QED
  BY <1>8, <1>11

(* The socket is closed when everything is sent, or nothing was asked for. *)
LEMMA CloseKeepsSocketInv ==
    ASSUME Inv, SocketInv, RepliesOK, NEW w \in Workers, ReadEof(w) \/ Sent(w)
    PROVE  SocketInv' /\ RepliesOK'
<1> DEFINE d == sock[w]
<1>1. /\ pc[w] \in {"read", "send"} /\ pc' = [pc EXCEPT ![w] = "lock"]
      /\ conn' = [conn EXCEPT ![d] = "closed"]
      /\ sock' = [sock EXCEPT ![w] = NoSocket]
      /\ UNCHANGED <<main, connfd, queue, unsent, reply>>
  BY DEF ReadEof, Sent, Goes, CloseSocket, mainVars
<1>2. d \in Clients
  BY <1>1 DEF Inv, SockOK
<1>3. /\ conn[d] = "open" /\ connfd # d
      /\ \A x \in Workers \ {w} : sock[x] # d
  BY <1>2, WorkerHasItAlone
<1>4. /\ pc'[w] = "lock" /\ sock'[w] = NoSocket /\ conn'[d] = "closed"
      /\ \A x \in Workers \ {w} : pc'[x] = pc[x] /\ sock'[x] = sock[x]
      /\ \A c \in Clients \ {d} : conn'[c] = conn[c]
  BY <1>1, <1>2 DEF Inv, TypeOK
<1>5. ASSUME NEW c \in Clients
      PROVE  Places(c)' = Places(c) - (IF c = d THEN 1 ELSE 0)
  <2>1. Queued(queue, c)' = Queued(queue, c)
    BY <1>1 DEF Queued
  <2>2. /\ Cardinality(Serving(c)) \in Nat
        /\ Cardinality(Serving(c)') = Cardinality(Serving(c))
               - (IF d = c THEN 1 ELSE 0) + (IF NoSocket = c THEN 1 ELSE 0)
    <3>1. TypeOK /\ sock' = [sock EXCEPT ![w] = NoSocket]
      BY <1>1 DEF Inv
    <3>2. QED
      BY ONLY <3>1, ServingChanged, w \in Workers
  <2>3. Cardinality(Queued(queue, c)) \in Nat
    BY PlacesCounted DEF Inv
  <2>4. QED
    BY <1>1, <2>1, <2>2, <2>3, HttpAssumption DEF Places
<1>6. SocketInv'
  BY <1>1, <1>3, <1>4, <1>5 DEF SocketInv, HandsFree, InOnePlace
<1>7. reply[d] = Response[Request[d]]
  <2>1. CASE ReadEof(w)
    <3>1. Request[d] = "eof" /\ pc[w] = "read"
      BY <2>1 DEF ReadEof, Goes
    <3>2. ~Sending(d)
      BY <1>3, <3>1 DEF Sending
    <3>3. reply[d] = <<>>
      BY <1>2, <1>3, <3>2 DEF RepliesOK
    <3>4. QED
      BY <3>1, <3>3 DEF Response
  <2>2. CASE Sent(w)
    <3>1. unsent[w] = <<>> /\ pc[w] = "send"
      BY <2>2 DEF Sent, Goes
    <3>2. reply[d] \o <<>> = Response[Request[d]]
      BY <3>1 DEF RepliesOK
    <3>3. QED
      BY <1>2, <3>2, ConcatEmptySeq DEF Inv, TypeOK
  <2>3. QED
    BY <2>1, <2>2
<1>8. ASSUME NEW c \in Clients, c # d PROVE Sending(c)' <=> Sending(c)
  BY <1>1, <1>4, <1>8, HttpAssumption DEF Sending
<1>9. RepliesOK'
  BY <1>1, <1>4, <1>7, <1>8 DEF RepliesOK
<1>10. QED
  BY <1>6, <1>9

LEMMA NextKeepsSocketInv ==
    Inv /\ SocketInv /\ RepliesOK /\ [Next]_vars => SocketInv' /\ RepliesOK'
<1> SUFFICES ASSUME Inv, SocketInv, RepliesOK, [Next]_vars
             PROVE  SocketInv' /\ RepliesOK'
  OBVIOUS
<1>1. CASE MainStep \/ Interrupt \/ InterruptAgain \/ GiveUpMain
  BY <1>1, MainKeepsSocketInv, ArriveKeepsSocketInv, EnqueueKeepsSocketInv,
     RejectKeepsSocketInv DEF MainStep
<1>2. ASSUME NEW w \in Workers, Step(w) \/ WakeUp(w) PROVE SocketInv' /\ RepliesOK'
  BY <1>2, DequeKeepsSocketInv, TakeKeepsSocketInv, ReadRequestKeepsSocketInv,
     SendKeepsSocketInv, CloseKeepsSocketInv DEF Step
<1>3. ASSUME NEW w \in Workers, GiveUp(w) PROVE SocketInv' /\ RepliesOK'
  <2>1. /\ UNCHANGED <<queue, sock, connfd, conn, reply, unsent, pc>>
        /\ main' # "accept"
    BY <1>3 DEF GiveUp, workVars, clientVars
  <2>2. QED
    BY <2>1, UnmovedKeepsSocketInv
<1>4. ASSUME NEW c \in Clients, Connect(c) PROVE SocketInv' /\ RepliesOK'
  BY <1>4, ArriveKeepsSocketInv
<1>5. CASE UNCHANGED vars
  <2>1. UNCHANGED <<queue, sock, main, connfd, conn, reply, unsent, pc>>
    BY <1>5 DEF vars, mainVars, workVars, clientVars
  <2>2. QED
    BY <2>1, UnmovedKeepsSocketInv DEF SocketInv, HandsFree
<1>6. QED
  BY <1>1, <1>2, <1>3, <1>4, <1>5 DEF Next

LEMMA SocketInvariance == Spec => [](SocketInv /\ RepliesOK)
<1>1. QED
  BY InitSocketInv, NextKeepsSocketInv, Invariance, PTL DEF Spec

(* No connection is lost or handed out twice: from accept() to close() it  *)
(* is with main, in the queue or with one worker.                          *)
THEOREM ConnectionsServedOnce == Spec => []ConnectionOnce
<1>1. SocketInv => ConnectionOnce
  BY DEF SocketInv, InOnePlace, Places, Queued, Serving, ConnectionOnce
<1>2. QED
  BY <1>1, SocketInvariance, PTL

(* A client whose socket the server has closed has been turned away with   *)
(* 503, or was sent its whole answer once: the parts of two answers never  *)
(* mix, though any worker may serve any connection.                        *)
THEOREM AnswersComplete == Spec => []AnsweredOnce
<1>1. RepliesOK => AnsweredOnce
  BY DEF RepliesOK, AnsweredOnce
<1>2. QED
  BY <1>1, SocketInvariance, PTL
=============================================================================
