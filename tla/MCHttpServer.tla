---------------------------- MODULE MCHttpServer -----------------------------
(* Two workers; three clients, of which one asks for a file, one for       *)
(* something missing, and one closes at once.                              *)
EXTENDS HttpServer, TLC

CONSTANTS v, w, c0, c1, c2

TwoWorkers == {v, w}
ThreeClients == {c0, c1, c2}
Requests == c0 :> "file" @@ c1 :> "eof" @@ c2 :> "missing"
=============================================================================
