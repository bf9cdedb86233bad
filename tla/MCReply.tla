------------------------------ MODULE MCReply ------------------------------
(***************************************************************************)
(* Two conversations and two messages of ordinary size: room for one row   *)
(* with an empty address and one for the other conversation behind it.     *)
(***************************************************************************)
EXTENDS Reply

CONSTANTS c1, c2, m1, m2
=============================================================================
