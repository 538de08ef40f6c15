------------------------------ MODULE MCProcess ------------------------------
(***************************************************************************)
(* A process of every kind, started twice, and two signing keys.           *)
(***************************************************************************)
EXTENDS ServerProcess

CONSTANTS k1, k2
=============================================================================
