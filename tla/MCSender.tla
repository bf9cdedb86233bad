------------------------------ MODULE MCSender -----------------------------
(***************************************************************************)
(* Instances of Custody for TLC.                                           *)
(***************************************************************************)
EXTENDS Custody, TLC

CONSTANTS hi, a, b, c

\* The bodies of texts are interchangeable.
Symmetry == Permutations(Text)

=============================================================================
