----------------------------- MODULE MCDelivery ----------------------------
(***************************************************************************)
(* Instances of Delivery for TLC.                                          *)
(***************************************************************************)
EXTENDS Delivery, TLC

CONSTANTS hi, a, b, c

\* The bodies of texts are interchangeable.
Symmetry == Permutations(Text)

=============================================================================
