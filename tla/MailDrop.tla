------------------------------ MODULE MailDrop -----------------------------
(***************************************************************************)
(* What one inbox of the relay promises a client, without clocks or rows:  *)
(* the contract behind the three calls of core/src/transport.rs.  Relay    *)
(* implements it for each of its inboxes; Delivery is built on it.         *)
(***************************************************************************)

CONSTANT Letter  \* what is posted, each letter at most once

VARIABLES
  posted,   \* every letter the relay ever accepted for this inbox
  waiting,  \* the letters a collect returns now
  erased    \* the letters an acknowledgement has named

Init ==
  /\ posted = {}
  /\ waiting = {}
  /\ erased = {}

\* A POST was accepted.
Submit(l) ==
  /\ l \notin posted
  /\ posted' = posted \cup {l}
  /\ waiting' = waiting \cup {l}
  /\ UNCHANGED erased

\* An acknowledgement was carried out.
Acknowledge(gone) ==
  /\ gone \subseteq Letter
  /\ waiting' = waiting \ gone
  /\ erased' = erased \cup gone
  /\ UNCHANGED posted

\* Letters ran out of time.
Expire(gone) ==
  /\ gone \subseteq waiting
  /\ waiting' = waiting \ gone
  /\ UNCHANGED <<posted, erased>>

Next ==
  \/ \E l \in Letter : Submit(l)
  \/ \E gone \in SUBSET Letter : Acknowledge(gone) \/ Expire(gone)

Spec == Init /\ [][Next]_<<posted, waiting, erased>>

=============================================================================
