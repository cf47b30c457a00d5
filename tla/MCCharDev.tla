----------------------------- MODULE MCCharDev -------------------------------
(* Two processes; a buffer of three characters, of which the initial       *)
(* message has one; reads and writes of nothing, of a part of the buffer,  *)
(* of all of it and of more, so much that p + length wraps around.         *)
EXTENDS CharDev, TLC

CONSTANTS u, v

TwoProcesses == {u, v}
Interchangeable == Permutations(TwoProcesses)
=============================================================================
