------------------------------ MODULE MCSchema -----------------------------
(***************************************************************************)
(* Instances of Schema for TLC.  The check is of liveness, so the openers  *)
(* are not declared symmetric.                                             *)
(***************************************************************************)
EXTENDS Schema

CONSTANTS p, q

=============================================================================
