---------------------------- MODULE MessageDevice ----------------------------
(***************************************************************************)
(* What the character device of os_ex6_new promises to the process that    *)
(* has it open: it keeps one text and hands it out character by character, *)
(* every read continuing where the previous one ended; a write replaces    *)
(* the text at once and rewinds, and one that fails changes nothing.       *)
(* Nothing is promised to processes that share the open file: while `sole' *)
(* is FALSE everything may change.                                         *)
(*                                                                         *)
(* A text is as many copies of the write's number as it has characters.    *)
(***************************************************************************)
EXTENDS Integers, Sequences

CONSTANTS
    Capacity        (* the size of the buffer                               *)

VARIABLES
    text,           (* the characters to be read                            *)
    position,       (* how many of them the previous reads have returned    *)
    handed,         (* the characters given to the read in progress         *)
    calls,          (* the reads and writes so far                          *)
    sole            (* one process has the device, and nobody shares it     *)

vars == <<text, position, handed, calls, sole>>

Init == handed = <<>> /\ calls = 0 /\ ~sole

(* A read, or a call that fails at once. *)
Begin ==
    /\ handed = <<>>
    /\ calls' = calls + 1
    /\ UNCHANGED <<text, position, handed>>

(* A write, however long; one NUL has to fit in behind the text. *)
Replace ==
    /\ handed = <<>>
    /\ calls' = calls + 1
    /\ \E n \in 0..Capacity - 1 : text' = [i \in 1..n |-> calls + 1]
    /\ position' = 0
    /\ UNCHANGED handed

(* The reader gets the next character. *)
Hand ==
    /\ position + Len(handed) < Len(text)
    /\ handed' = Append(handed, text[position + Len(handed) + 1])
    /\ UNCHANGED <<text, position, calls>>

(* The read returns: the next one continues here, or, from the end of the  *)
(* buffer, at its start.                                                   *)
Finish ==
    /\ position' = (position + Len(handed)) % Capacity
    /\ handed' = <<>>
    /\ UNCHANGED <<text, calls>>

Next ==
    IF sole /\ sole' THEN Begin \/ Replace \/ Hand \/ Finish ELSE sole' \in BOOLEAN

Spec == Init /\ [][Next]_vars
=============================================================================
