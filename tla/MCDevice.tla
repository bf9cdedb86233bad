------------------------------ MODULE MCDevice -----------------------------
(***************************************************************************)
(* Instances of Device for TLC.                                            *)
(***************************************************************************)
EXTENDS Device, TLC

\* Identifiers are random: one is as good as another.
Symmetry == Permutations(Key) \cup Permutations(Conversation) \cup Permutations(Message)

=============================================================================
