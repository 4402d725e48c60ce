---------------------------- MODULE MCClientRpc ----------------------------
(* Instances of ClientRpc for TLC. *)
EXTENDS ClientRpc

CONSTANTS r1, r2, c1, c2, w1, w2
=============================================================================
