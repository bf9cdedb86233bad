------------------------------- MODULE Custody -----------------------------
(***************************************************************************)
(* What a sender is told: the manifest of core/src/manifest.rs, filled in  *)
(* by send_message as Sender goes along, and the state the desktop's       *)
(* conversation screen shows of a message.                                 *)
(*                                                                         *)
(* Every step of Sender is here with what it does to the two.  The detail  *)
(* a stage records is left out; the outcome is kept.                       *)
(***************************************************************************)
EXTENDS Sender

CONSTANT NoManifest  \* no call has a manifest to show

VARIABLES
  manifest,  \* memory: the manifest of the call in progress
  shown      \* screen: what is said of each message of this session

custodyVars == <<sVars, manifest, shown>>

\* Stages and their numbers.
Number ==
  [compose |-> 1, strip |-> 2, compress |-> 3, pad |-> 4, encrypt |-> 5,
   seal |-> 6, route |-> 7, queue |-> 8, deliver |-> 9]
Stage == DOMAIN Number
Outcome == {"ran", "not applicable", "not yet implemented", "failed", "pending"}

ASSUME CustodyAssumption == NoManifest \notin [Stage -> Outcome]

CustodyTypeOK ==
  /\ SenderTypeOK
  /\ manifest \in [Stage -> Outcome] \cup {NoManifest}
  /\ shown \in [Text -> {"nothing", "sending", "sent", "failed"}]

----------------------------------------------------------------------------

\* Manifest::new, for a text message.
New ==
  [s \in Stage |-> CASE s = "compose"         -> "ran"
                     [] s = "strip"           -> "not applicable"
                     [] s \in {"pad", "seal"} -> "not yet implemented"
                     [] OTHER                 -> "pending"]

Compressed(m) == [m EXCEPT !.compress = "ran"]
Encrypted(m) == [m EXCEPT !.encrypt = "ran"]
Routed(m) == [m EXCEPT !.route = "ran"]
HeldAtRelay(m) == [m EXCEPT !.queue = "ran"]
Delivered(m) == [m EXCEPT !.deliver = "ran"]

\* Faulty variant: the failure is put down to the relay's queue.
FailedAtQueue(m) == [m EXCEPT !.route = "ran", !.queue = "failed"]

FailedAtRouting(m) ==
  [m EXCEPT !.route = "failed", !.queue = "pending", !.deliver = "pending"]

Failures(m) == {s \in Stage : m[s] = "failed"}

\* send_message went through its Err branch: the blob it made waits.
Waits == \E q \in outbox : q.msg = current /\ q.gen = BlobGeneration

\* Faulty variant: a call that came back is a message that was sent.
CameBack(m) == "sent"

\* Conversation.tsx: the call threw, or its manifest has a failure.
Answered(m) == IF Waits \/ Failures(m) # {} THEN "failed" ELSE "sent"

----------------------------------------------------------------------------

CustodyInit ==
  /\ AloneInit
  /\ manifest = NoManifest
  /\ shown = [m \in Text |-> "nothing"]

Submit(m) ==
  /\ Send(m)
  /\ shown' = [shown EXCEPT ![m] = "sending"]
  /\ UNCHANGED manifest

CustodyPosted ==
  /\ SendPosted
  /\ manifest' = Delivered(HeldAtRelay(Routed(Encrypted(Compressed(New)))))
  /\ UNCHANGED shown

CustodyFailed ==
  /\ SendFailed
  /\ manifest' = FailedAtRouting(Encrypted(Compressed(New)))
  /\ UNCHANGED shown

\* persist_mls_state is the last statement of the call, and it answers.
CustodyPersist ==
  /\ Persist
  /\ IF current \in Text
     THEN shown' = [shown EXCEPT ![current] = Answered(manifest)]
     ELSE UNCHANGED shown
  /\ manifest' = NoManifest

\* The screen goes with the process.
CustodyRestart ==
  /\ SenderRestart
  /\ manifest' = NoManifest
  /\ shown' = [m \in Text |-> "nothing"]

\* The steps that leave both alone.  (send_payload has no manifest.)
Silent ==
  /\ \/ HelloPosted \/ HelloFailed
     \/ Poll \/ FlushPosted \/ FlushFailed \/ Dequeue \/ RecordRow \/ Enqueue
     \/ PollCollect
     \/ Tick /\ UNCHANGED senderVars
  /\ UNCHANGED <<manifest, shown>>

CustodyNext ==
  \/ \E m \in Text : Submit(m)
  \/ CustodyPosted \/ CustodyFailed \/ CustodyPersist \/ CustodyRestart \/ Silent

CustodySpec == CustodyInit /\ [][CustodyNext]_custodyVars

----------------------------------------------------------------------------

\* manifest.rs:5 "A manifest that lies is worse than no manifest": a blob that
\* is said to be with the relay is, under the generation it was encrypted
\* with; no stage ran after one that did not; and while the client keeps the
\* blob for another try, the manifest says where it stopped.
ManifestIsHonest ==
  manifest # NoManifest =>
    /\ \A s \in {"route", "queue", "deliver"} :
         manifest[s] = "ran" =>
           \E e \in posted : e.msg = current /\ e.gen = BlobGeneration
    /\ \A s, t \in Stage :
         Number[s] < Number[t] /\ manifest[s] \in {"failed", "pending"} =>
           manifest[t] # "ran"
    /\ phase \in {"row", "enqueue"} \/ Waits => Failures(manifest) = {"route"}

\* Conversation.tsx:103: what the screen calls sent was accepted by the relay;
\* what it calls failed is not lost with that: it waits or was accepted after
\* all, unless retention took it together with its row.
ScreenIsTrue ==
  \A m \in Text :
    /\ shown[m] = "sent" => \E e \in posted : e.msg = m
    /\ shown[m] = "failed" =>
         \/ \E q \in outbox : q.msg = m
         \/ \E e \in posted : e.msg = m
         \/ \A r \in sentRows : r.msg # m

=============================================================================
