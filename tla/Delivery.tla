------------------------------ MODULE Delivery -----------------------------
(***************************************************************************)
(* One direction of an established conversation: the sender and the        *)
(* receiver over the recipient's inbox.  Calls of the two interleave step  *)
(* by step; requests fail, answers get lost, processes stop and restart,   *)
(* the relay's time to live may run out.                                   *)
(***************************************************************************)
EXTENDS Sender, Receiver

vars == <<wireVars, senderVars, receiverVars>>

TypeOK == WireTypeOK /\ SenderTypeOK /\ ReceiverTypeOK

Init == WireInit /\ SenderInit /\ ReceiverInit

Next ==
  \/ SenderNext /\ UNCHANGED receiverVars
  \/ ReceiverNext /\ UNCHANGED senderVars
  \/ (Tick \/ RelayExpires) /\ UNCHANGED <<senderVars, receiverVars>>

Spec == Init /\ [][Next]_vars

\* A call that has begun runs on.  Nothing polls by itself: the two users are
\* taken to check for messages again and again (the button of
\* Conversation.tsx:154, `pouch-cli receive`), and a request that is made again
\* and again to be answered in the end.  Nobody is obliged to send.
Fairness ==
  /\ WF_vars(SenderStep /\ UNCHANGED receiverVars)
  /\ WF_vars(Poll /\ UNCHANGED receiverVars)
  /\ SF_vars(FlushPosted /\ UNCHANGED receiverVars)
  /\ WF_vars(ReceiverStep /\ UNCHANGED senderVars)
  /\ WF_vars(Collect /\ UNCHANGED senderVars)

FairSpec == Spec /\ Fairness

----------------------------------------------------------------------------
(***************************************************************************)
(* What holds                                                              *)
(***************************************************************************)

\* messaging.rs:306 "Acknowledged only after everything is safely in the local
\* database": a letter the relay was told to erase is a message the recipient
\* has stored, whatever crashed or got lost in between.
AckedIsStored == \A e \in erased : stores[e.msg] > 0

\* session.rs:547: a message never turns up twice in the recipient's thread,
\* not even after retention removed it, however often its blob was posted,
\* unless a restart took back the step that used its key.
StoredOnce ==
  ~receiverTorn => \A m \in Msg : stores[m] <= 1

\* session.rs:23: the random order of collect costs no message that is fewer
\* than Tolerance generations older than the newest one posted: while it waits
\* on the relay it can still be decrypted, or is a copy of one that was.
NothingStranded ==
  ~senderTorn =>
    \A e \in waiting :
      /\ e.gen <= MaxForward
      /\ \A f \in posted : f.gen < e.gen + Tolerance
      => stores[e.msg] > 0 \/ Accepts(window, e.gen)

\* session.rs:547 and messaging.rs:306 together, end to end: a message shown as
\* sent has been stored at the other end, or is queued, or is on the relay; and
\* what the relay still holds of it, its time to live has not run out and it is
\* within the tolerance, can be decrypted.
NothingVanishes ==
  ~senderTorn =>
    \A r \in sentRows :
      \/ stores[r.msg] > 0
      \/ phase = "enqueue" /\ current = r.msg
      \/ \E q \in outbox : q.msg = r.msg
      \/ \E e \in posted \ erased :
           /\ e.msg = r.msg
           /\ \/ e \notin waiting
              \/ e.gen > MaxForward
              \/ \E f \in posted : f.gen >= e.gen + Tolerance
              \/ Accepts(window, e.gen)

----------------------------------------------------------------------------

Contract == INSTANCE Mailbox WITH
  composed <- submitted, appeared <- stores, Copies <- MaxReceiverCrash + 1

\* A message appears in the recipient's thread only after it was composed, and
\* again only if the receiver's process stopped before it saved that it had
\* appeared: once more for each such stop, and never for a copy, a lost
\* acknowledgement or a row that retention removed.
ImplementsMailbox == Contract!Spec

\* Every message handed to send_message appears in the end, whether its first
\* POST failed, its answer was lost or an acknowledgement was refused.
EveryMessageAppears == Contract!FairSpec

=============================================================================
