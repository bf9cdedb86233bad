----------------------------- MODULE MCPairing -----------------------------
(***************************************************************************)
(* Instances of Pairing for TLC.                                           *)
(***************************************************************************)
EXTENDS Pairing, TLC

CONSTANTS c1, c2, i1, i2

\* Conversations and invites are interchangeable.
Symmetry == Permutations(Conv) \cup Permutations(Invite)

=============================================================================
