------------------------------ MODULE Mailbox ------------------------------
(***************************************************************************)
(* What a user may expect of one direction of a conversation: a message    *)
(* that was composed appears at the other end, and appears there again     *)
(* only as often as the recipient's process may lose what it did.          *)
(***************************************************************************)
EXTENDS Naturals

CONSTANTS
  Msg,
  Copies  \* how often one message may appear, once or more

VARIABLES
  composed,  \* messages handed to send_message
  appeared   \* how often each message turned up in the recipient's thread

vars == <<composed, appeared>>

Init ==
  /\ composed = {}
  /\ appeared = [m \in Msg |-> 0]

Compose(m) ==
  /\ m \notin composed
  /\ composed' = composed \cup {m}
  /\ UNCHANGED appeared

Appear(m) ==
  /\ m \in composed
  /\ appeared[m] < Copies
  /\ appeared' = [appeared EXCEPT ![m] = @ + 1]
  /\ UNCHANGED composed

Next == \E m \in Msg : Compose(m) \/ Appear(m)

Spec == Init /\ [][Next]_vars

\* It need appear once.
FairSpec == Spec /\ \A m \in Msg : WF_vars(appeared[m] = 0 /\ Appear(m))

=============================================================================
