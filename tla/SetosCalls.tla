---------------------------- MODULE SetosCalls -----------------------------
(***************************************************************************)
(* The threads that call setos_add, setos_remove and setos_contains, and   *)
(* the frame of the call each is in: its operation, its key, and the local *)
(* pointers `node' and `prev'.  A frame is reset when the call returns, so *)
(* that idle threads look alike.                                           *)
(***************************************************************************)
EXTENDS SetosNode

CONSTANTS
    Threads,    (* the threads of the program                               *)
    NoThread,   (* the owner of a free mutex                                *)
    Keys,       (* the keys they pass                                       *)
    Workload,   (* Workload[t]: the operations thread t may call            *)
    MaxCalls    (* bound: calls made by all threads together                *)

Operations == {"add", "remove", "contains"}

ASSUME CallAssumption ==
    /\ NoThread \notin Threads
    /\ Keys \subseteq Int
    /\ \A k \in Keys : IntMin <= k
    /\ Workload \in [Threads -> SUBSET Operations]
    /\ MaxCalls \in Nat
    /\ Len(InitKeys) + MaxCalls <= MaxNodes    (* no add ever lacks a node *)

VARIABLES
    pc,         (* where in its call a thread is                            *)
    op,         (* the operation it executes, "none" between calls          *)
    arg,        (* the key it passed                                        *)
    node,       (* local variable `node'                                    *)
    prev,       (* local variable `prev'                                    *)
    ret,        (* the last result, NoResult during a call                  *)
    calls       (* the calls made so far                                    *)

frame == <<pc, op, arg, node, prev, ret, calls>>

NoResult == -1

FrameTypeOK(Locations) ==
    /\ pc \in [Threads -> Locations]
    /\ op \in [Threads -> Operations \cup {"none"}]
    /\ arg \in [Threads -> Int]
    /\ node \in [Threads -> Addr]
    /\ prev \in [Threads -> Addr]
    /\ ret \in [Threads -> {0, 1, NoResult}]
    /\ calls \in Nat

FrameInit ==
    /\ pc = [t \in Threads |-> "idle"]
    /\ op = [t \in Threads |-> "none"]
    /\ arg = [t \in Threads |-> IntMin]
    /\ node = [t \in Threads |-> Null]
    /\ prev = [t \in Threads |-> Null]
    /\ ret = [t \in Threads |-> NoResult]
    /\ calls = 0

(* Thread t calls o with some key and runs up to location `where', having *)
(* set its two pointers to n and p.                                        *)
Begin(t, o, where, n, p) ==
    /\ op[t] = "none"
    /\ o \in Workload[t]
    /\ calls < MaxCalls
    /\ calls' = calls + 1
    /\ op' = [op EXCEPT ![t] = o]
    /\ \E k \in Keys : arg' = [arg EXCEPT ![t] = k]
    /\ pc' = [pc EXCEPT ![t] = where]
    /\ node' = [node EXCEPT ![t] = n]
    /\ prev' = [prev EXCEPT ![t] = p]
    /\ ret' = [ret EXCEPT ![t] = NoResult]

(* Thread t stays in its call and moves on to `where'. *)
Goto(t, where, n, p) ==
    /\ pc' = [pc EXCEPT ![t] = where]
    /\ node' = [node EXCEPT ![t] = n]
    /\ prev' = [prev EXCEPT ![t] = p]
    /\ UNCHANGED <<op, arg, ret, calls>>

(* Thread t moves on to `where' with its pointers as they are. *)
Proceed(t, where) == Goto(t, where, node[t], prev[t])

(* The call of thread t returns r. *)
Finish(t, r) ==
    /\ pc' = [pc EXCEPT ![t] = "idle"]
    /\ op' = [op EXCEPT ![t] = "none"]
    /\ arg' = [arg EXCEPT ![t] = IntMin]
    /\ node' = [node EXCEPT ![t] = Null]
    /\ prev' = [prev EXCEPT ![t] = Null]
    /\ ret' = [ret EXCEPT ![t] = r]
    /\ UNCHANGED calls

(* Thread t is at location `where' of a call of o. *)
At(t, o, where) == op[t] = o /\ pc[t] = where

(* Its pointer `node' has run off the list, or stands on a node whose key  *)
(* is (`node->key == key') or precedes (`node->key < key') the key sought. *)
AtEnd(t) == node[t] = Null
AtKey(t) == node[t] # Null /\ key[node[t]] = arg[t]
BeforeKey(t) == node[t] # Null /\ key[node[t]] < arg[t]

(* Every call allowed by MaxCalls was made and has returned. *)
AllReturned == calls = MaxCalls /\ \A t \in Threads : op[t] = "none"
=============================================================================
