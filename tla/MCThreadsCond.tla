---------------------------- MODULE MCThreadsCond ----------------------------
(* Three consumers of the four elements. *)
EXTENDS ThreadsCond

CONSTANTS u, v, w

ThreeConsumers == {u, v, w}
=============================================================================
