------------------------------ MODULE Ratchet ------------------------------
(***************************************************************************)
(* The receiving half of one MLS sender ratchet, as the two numbers that   *)
(* core/src/crypto/session.rs hands to the library configure it.  The      *)
(* library (openmls) is external: this is what session.rs relies on when   *)
(* decrypt answers Ok or Err.                                              *)
(*                                                                         *)
(* A window is the next generation expected, head, and the older           *)
(* generations whose keys are still kept.  A key is used once.             *)
(***************************************************************************)
EXTENDS Integers

CONSTANTS
  Tolerance,   \* OUT_OF_ORDER_TOLERANCE
  MaxForward   \* MAXIMUM_FORWARD_DISTANCE

ASSUME RatchetAssumption == Tolerance \in Nat /\ MaxForward \in Nat

Window == {w \in [head : Nat, kept : SUBSET Nat] : \A k \in w.kept : k < w.head}

Unused == [head |-> 0, kept |-> {}]

\* Whether a ciphertext of generation g can still be decrypted.
Accepts(w, g) ==
  \/ g >= w.head /\ g - w.head <= MaxForward
  \/ g < w.head /\ g \in w.kept /\ w.head - g <= Tolerance

\* Faulty variants of the next definition: the window is one key short, a used
\* key is kept.
AdvanceShort(w, g) ==
  IF g >= w.head
  THEN [head |-> g + 1,
        kept |-> {k \in w.kept \cup (w.head .. g - 1) : g + 1 - k < Tolerance}]
  ELSE [head |-> w.head, kept |-> w.kept \ {g}]
AdvanceKeeping(w, g) ==
  IF g >= w.head
  THEN [head |-> g + 1, kept |-> {k \in w.kept \cup (w.head .. g) : g + 1 - k <= Tolerance}]
  ELSE w

\* The window after decrypting generation g: keys skipped on the way are kept
\* while they are within Tolerance of the head, the key of g is gone.
Advance(w, g) ==
  IF g >= w.head
  THEN [head |-> g + 1,
        kept |-> {k \in w.kept \cup (w.head .. g - 1) : g + 1 - k <= Tolerance}]
  ELSE [head |-> w.head, kept |-> w.kept \ {g}]

\* Generation g was passed and its key is not kept: it never decrypts again.
Spent(w, g) == g < w.head /\ g \notin w.kept

=============================================================================
