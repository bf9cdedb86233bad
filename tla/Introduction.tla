---------------------------- MODULE Introduction ---------------------------
(***************************************************************************)
(* What two people may expect of an introduction (D-026): a conversation   *)
(* that one of them offers is opened by the other, who then hears where to *)
(* reply.  In this order, and none of it is taken back.                    *)
(***************************************************************************)
CONSTANT Conv

VARIABLES
  offered,  \* conversations the initiator has on record
  opened,   \* conversations the joiner has on record
  heard     \* conversations whose Hello the joiner has dealt with

Init ==
  /\ offered = {}
  /\ opened = {}
  /\ heard = {}

Offer(c) ==
  /\ offered' = offered \cup {c}
  /\ UNCHANGED <<opened, heard>>

Open(c) ==
  /\ c \in offered
  /\ opened' = opened \cup {c}
  /\ UNCHANGED <<offered, heard>>

Hear(some) ==
  /\ some \subseteq opened
  /\ heard' = heard \cup some
  /\ UNCHANGED <<offered, opened>>

Next ==
  \/ \E c \in Conv : Offer(c) \/ Open(c)
  \/ \E some \in SUBSET Conv : Hear(some)

Spec == Init /\ [][Next]_<<offered, opened, heard>>

=============================================================================
