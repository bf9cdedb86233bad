------------------------------ MODULE MCKeying ------------------------------
(***************************************************************************)
(* Instances of Keying for TLC.                                            *)
(***************************************************************************)
EXTENDS Keying

CONSTANTS p1, p2, s1, s2, s3, d1, d2, d3

=============================================================================
