----------------------------- MODULE MCContacts -----------------------------
(***************************************************************************)
(* Instances of Contacts for TLC.                                          *)
(***************************************************************************)
EXTENDS Contacts, TLC

CONSTANTS k1, k2, k3, c1, c2, c3

\* Keys and conversations are interchangeable.
Symmetry == Permutations(Key) \cup Permutations(Conv)

=============================================================================
