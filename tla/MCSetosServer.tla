--------------------------- MODULE MCSetosServer ---------------------------
(* Two workers and two connections, whose commands have two bytes here, an *)
(* opcode and a key; c0 may send a command, a part of one, or more, and c1 *)
(* sends nothing.                                                          *)
EXTENDS SetosServer, TLC

CONSTANTS v, w, c0, c1

TwoWorkers == {v, w}
TwoClients == {c0, c1}
Commands == c0 :> <<0, 7>> @@ c1 :> <<1, 7>>
OneSends == c0 :> 3 @@ c1 :> 0
BothSend == c0 :> 2 @@ c1 :> 2
=============================================================================
