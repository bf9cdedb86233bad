------------------------------- MODULE Sender ------------------------------
(***************************************************************************)
(* The sending end of a conversation: send_message and flush_outbox of     *)
(* core/src/api/messaging.rs, the outbox of core/src/storage/outbox.rs,    *)
(* the part of receive_messages that a sender with an empty inbox goes     *)
(* through, and, for the side that added the contact, the end of           *)
(* add_contact: send_payload with the Hello, which is never retried.       *)
(*                                                                         *)
(* A call is a sequence of steps, one per database statement or request,   *)
(* because each is durable or visible on its own and the process may stop  *)
(* between any two.  The client holds one Pouch and serves one call at a   *)
(* time.  What the database holds survives a restart; the MLS provider     *)
(* (generation) goes back to the last snapshot (savedGeneration).          *)
(*                                                                         *)
(* Compression, the manifest and the text of errors are left out, and a    *)
(* database statement does not fail.                                       *)
(***************************************************************************)
EXTENDS Wire

CONSTANTS
  LocalId,        \* random local identifiers of queued messages
  NoMsg,          \* no message: the call only flushes and collects
  MaxSenderCrash  \* bound: times the sender's process stops in mid-call

ASSUME SenderAssumption == /\ LocalId \subseteq Nat
                           /\ NoMsg \notin Msg \cup {Hello}
                           /\ MaxSenderCrash \in Nat

VARIABLES
  savedGeneration,  \* disk: the ratchet in the mls_state row
  sentRows,         \* disk: messages rows of direction Sent, [msg, at]
  outbox,           \* disk: outbox rows, [id, msg, gen, at]
  generation,       \* memory: the next generation to encrypt with
  phase,            \* memory: the next step of the call in progress
  current,          \* memory: the message being sent, or NoMsg
  toFlush,          \* memory: what is left of the snapshot queued() took
  submitted,        \* history: messages handed to send_message or _payload
  persisted,        \* history: those whose call got to persist_mls_state
  senderCrashes,    \* bound: stops in mid-call so far
  senderTorn        \* history: a restart took back a ratchet step

history == <<submitted, persisted, senderCrashes, senderTorn>>
senderVars == <<savedGeneration, sentRows, outbox, generation, phase, current,
                toFlush, history>>

\* What send_message sends.
Text == Msg \ {Hello}

Queued == [id : LocalId, msg : Msg, gen : Nat, at : Nat]

SenderTypeOK ==
  /\ savedGeneration \in Nat
  /\ sentRows \subseteq [msg : Msg, at : Nat]
  /\ outbox \subseteq Queued
  /\ generation \in Nat
  /\ phase \in {"hello", "idle", "flush", "dequeue", "post", "poll",
                "record", "row", "enqueue", "persist"}
  /\ current \in Msg \cup {NoMsg}
  /\ toFlush \subseteq Queued
  /\ submitted \subseteq Msg
  /\ persisted \subseteq Msg
  /\ senderCrashes \in Nat
  /\ senderTorn \in BOOLEAN

\* The conversation exists on both sides, and the snapshot that holds it was
\* saved; add_contact is about to send the Hello.
SenderInit ==
  /\ savedGeneration = 0
  /\ sentRows = {}
  /\ outbox = {}
  /\ generation = 0
  /\ phase = IF Hello \in Msg THEN "hello" ELSE "idle"
  /\ current = IF Hello \in Msg THEN Hello ELSE NoMsg
  /\ toFlush = {}
  /\ submitted = {}
  /\ persisted = {}
  /\ senderCrashes = 0
  /\ senderTorn = FALSE

----------------------------------------------------------------------------

\* Faulty variants of the definitions that follow: the queue newest first, a
\* purge that forgets the messages table, a blob queued under the generation
\* after its own, a snapshot not written.
NewestFirst(rows) ==
  {q \in rows : \A r \in rows : q.at > r.at \/ (q.at = r.at /\ q.id >= r.id)}
PurgeOutboxOnly ==
  /\ outbox' = {q \in outbox : ~Outlived(q.at)}
  /\ UNCHANGED sentRows
NextGeneration == generation
SaveNothing == savedGeneration

\* queued(): ORDER BY at, id.  The one row that comes first, as a set.
Oldest(rows) ==
  {q \in rows : \A r \in rows : q.at < r.at \/ (q.at = r.at /\ q.id <= r.id)}

\* purge_expired.  Stopping between its two statements changes nothing that
\* the purge of the next open does not repeat.
Purge ==
  /\ sentRows' = {r \in sentRows : ~Outlived(r.at)}
  /\ outbox' = {q \in outbox : ~Outlived(q.at)}

\* The step of a call for message m that has `rows` left to flush.
Flushing(rows, m) ==
  IF rows # {} THEN "flush" ELSE IF m = NoMsg THEN "poll" ELSE "post"

\* The generation of the blob in hand: encrypting it advanced the ratchet.
BlobGeneration == generation - 1

\* The snapshot persist_mls_state writes.
Snapshot == generation

----------------------------------------------------------------------------

\* A call begins and flush_outbox reads the queue once.
Begin(m) ==
  /\ phase = "idle"
  /\ current' = m
  /\ toFlush' = outbox
  /\ phase' = Flushing(outbox, m)
  /\ UNCHANGED <<savedGeneration, sentRows, outbox, generation, persisted,
                 senderCrashes, senderTorn>>
  /\ UNCHANGED wireVars

\* send_payload encrypts the Hello and posts it once; `?` hands a failure on
\* before anything is persisted, and the process goes on with the ratchet it
\* has in memory.
HelloPosted ==
  /\ phase = "hello"
  /\ PostAnswered(Hello, generation)
  /\ generation' = generation + 1
  /\ submitted' = submitted \cup {Hello}
  /\ phase' = "persist"
  /\ UNCHANGED <<savedGeneration, sentRows, outbox, current, toFlush, persisted,
                 senderCrashes, senderTorn>>

HelloFailed ==
  /\ phase = "hello"
  /\ PostFailed(Hello, generation)
  /\ generation' = generation + 1
  /\ submitted' = submitted \cup {Hello}
  /\ phase' = "idle"
  /\ current' = NoMsg
  /\ UNCHANGED <<savedGeneration, sentRows, outbox, toFlush, persisted,
                 senderCrashes, senderTorn>>

\* send_message
Send(m) ==
  /\ m \in Text \ submitted
  /\ submitted' = submitted \cup {m}
  /\ Begin(m)

\* receive_messages
Poll == Begin(NoMsg) /\ UNCHANGED submitted

\* The oldest queued blob is posted again and the relay says so.
FlushPosted ==
  /\ phase = "flush"
  /\ \E q \in Oldest(toFlush) : PostAnswered(q.msg, q.gen)
  /\ phase' = "dequeue"
  /\ UNCHANGED <<savedGeneration, sentRows, outbox, generation, current, toFlush,
                 history>>

\* The attempt is recorded, the loop breaks, flush_outbox still answers Ok.
FlushFailed ==
  /\ phase = "flush"
  /\ \E q \in Oldest(toFlush) : PostFailed(q.msg, q.gen)
  /\ toFlush' = {}
  /\ phase' = Flushing({}, current)
  /\ UNCHANGED <<savedGeneration, sentRows, outbox, generation, current,
                 history>>

Dequeue ==
  /\ phase = "dequeue"
  /\ \E q \in Oldest(toFlush) :
         /\ outbox' = {r \in outbox : r.id # q.id}
         /\ toFlush' = toFlush \ {q}
         /\ phase' = Flushing(toFlush \ {q}, current)
  /\ UNCHANGED <<savedGeneration, sentRows, generation, current, history>>
  /\ UNCHANGED wireVars

\* The message is encrypted, which advances the ratchet, and posted.
SendPosted ==
  /\ phase = "post"
  /\ PostAnswered(current, generation)
  /\ generation' = generation + 1
  /\ phase' = "record"
  /\ UNCHANGED <<savedGeneration, sentRows, outbox, current, toFlush, history>>

SendFailed ==
  /\ phase = "post"
  /\ PostFailed(current, generation)
  /\ generation' = generation + 1
  /\ phase' = "row"
  /\ UNCHANGED <<savedGeneration, sentRows, outbox, current, toFlush, history>>

\* put_message, under the relay's identifier or under a local one.
RecordRow ==
  /\ phase \in {"record", "row"}
  /\ sentRows' = sentRows \cup {[msg |-> current, at |-> clock]}
  /\ phase' = IF phase = "record" THEN "persist" ELSE "enqueue"
  /\ UNCHANGED <<savedGeneration, outbox, generation, current, toFlush, history>>
  /\ UNCHANGED wireVars

\* The blob as it was encrypted joins the outbox.
Enqueue ==
  /\ phase = "enqueue"
  /\ \E i \in LocalId \ {q.id : q \in outbox} :
       outbox' = outbox \cup
         {[id |-> i, msg |-> current, gen |-> BlobGeneration, at |-> clock]}
  /\ phase' = "persist"
  /\ UNCHANGED <<savedGeneration, sentRows, generation, current, toFlush, history>>
  /\ UNCHANGED wireVars

\* The GET of a poll: the sender's own inbox is empty, so what is left to do
\* is to persist and purge; or the relay is unreachable and `?` ends the call.
PollCollect ==
  /\ phase = "poll"
  /\ phase' \in {"persist", "idle"}
  /\ UNCHANGED <<savedGeneration, sentRows, outbox, generation, current, toFlush,
                 history>>
  /\ UNCHANGED wireVars

\* persist_mls_state ends send_message; in receive_messages purge_expired
\* comes after it.  (A stop between the two is made good by the purge of the
\* next open, so they are one step.)
Persist ==
  /\ phase = "persist"
  /\ savedGeneration' = Snapshot
  /\ IF current = NoMsg THEN Purge ELSE UNCHANGED <<sentRows, outbox>>
  /\ phase' = "idle"
  /\ current' = NoMsg
  /\ persisted' = persisted \cup ({current} \cap Msg)
  /\ UNCHANGED <<generation, toFlush, submitted, senderCrashes, senderTorn>>
  /\ UNCHANGED wireVars

\* The process ends, in mid-call or between calls as the CLI does after every
\* command, and Pouch::open brings back the snapshot and purges.  Between calls
\* that too loses a ratchet step, if the last call was a Hello that failed.
SenderRestart ==
  /\ IF phase = "idle"
     THEN UNCHANGED senderCrashes
     ELSE senderCrashes < MaxSenderCrash /\ senderCrashes' = senderCrashes + 1
  /\ generation' = savedGeneration
  /\ senderTorn' = (senderTorn \/ generation # savedGeneration)
  /\ phase' = "idle"
  /\ current' = NoMsg
  /\ toFlush' = {}
  /\ Purge
  /\ UNCHANGED <<savedGeneration, submitted, persisted>>
  /\ UNCHANGED wireVars

\* What the process does on its own once a call has begun.
SenderStep ==
  \/ HelloPosted \/ HelloFailed
  \/ FlushPosted \/ FlushFailed \/ Dequeue
  \/ SendPosted \/ SendFailed \/ RecordRow \/ Enqueue
  \/ PollCollect \/ Persist

SenderNext == (\E m \in Text : Send(m)) \/ Poll \/ SenderStep \/ SenderRestart

----------------------------------------------------------------------------

sVars == <<wireVars, senderVars>>

AloneInit == WireInit /\ SenderInit

\* The sender and the relay, with nobody reading.
SenderSpec ==
  /\ AloneInit
  /\ [][SenderNext \/ (Tick /\ UNCHANGED senderVars)]_sVars

----------------------------------------------------------------------------
(***************************************************************************)
(* What holds                                                              *)
(***************************************************************************)

\* messaging.rs:108: no two messages leave under one ratchet generation, a
\* retried one included, unless a restart took back a ratchet step.
GenerationsUnique ==
  ~senderTorn =>
    \A e, f \in posted : e.gen = f.gen => e.msg = f.msg

\* A message shown as sent was accepted by the relay or waits in the outbox,
\* or is about to; retention cannot delete a queued blob and leave its row.
SentIsBacked ==
  ~senderTorn =>
    \A r \in sentRows :
      \/ \E e \in posted : e.msg = r.msg
      \/ \E q \in outbox : q.msg = r.msg
      \/ phase = "enqueue" /\ current = r.msg

\* messaging.rs:109: dropping the blob or the advance of the ratchet "would mean
\* the next send reuses a generation the peer has already been promised".  Two
\* messages whose calls got to persist_mls_state never share a generation: not
\* after a crash, a failed Hello and a restart, or a retry, in any order.
PersistedStayApart ==
  \A x, y \in posted \cup outbox :
    {x.msg, y.msg} \subseteq persisted /\ x.gen = y.gen => x.msg = y.msg

\* outbox.rs:37 "oldest first": a flush never posts a blob while one that was
\* encrypted before it, in an earlier second, is still in the outbox.
FlushedBySecond ==
  [][~senderTorn /\ phase = "flush" =>
       \A e \in posted' \ posted : \A q, r \in outbox :
         r.gen = e.gen /\ q.gen < e.gen => q.at = r.at]_sVars

=============================================================================
