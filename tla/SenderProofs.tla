---------------------------- MODULE SenderProofs ---------------------------
(***************************************************************************)
(* Proofs about Sender and, at the end, about Custody, which carries the   *)
(* sender along: for any number of messages, losses and crashes.           *)
(*                                                                         *)
(* Each part of the invariant is shown to survive SenderNext, and to       *)
(* survive any step of the rest of the system (Elsewhere), so that the     *)
(* same lemmas serve SenderSpec here and the composition in DeliveryProofs.*)
(***************************************************************************)
EXTENDS Custody, TLAPS

\* Message m is bound to generation g: a letter, a queued row or the blob in
\* hand carries both.
Used(m, g) ==
  \/ \E e \in posted : e.msg = m /\ e.gen = g
  \/ \E q \in outbox \cup toFlush : q.msg = m /\ q.gen = g
  \/ phase \in {"row", "enqueue"} /\ current = m /\ generation - 1 = g

\* No identifier is given out twice.
LettersInv == \A e, f \in posted : e.id = f.id => e = f

\* Where a call stands, and how far memory is ahead of the disk.
PhaseInv ==
  /\ phase \in {"post", "record", "row", "enqueue"} => current \in Text
  /\ phase = "hello" => current = Hello /\ Hello \in Msg
  /\ phase \in {"poll", "idle"} => current = NoMsg
  /\ current = Hello => phase \in {"hello", "persist"}
  /\ current \in Msg /\ phase # "hello" => current \in submitted
  /\ phase \in {"flush", "dequeue"} => toFlush = outbox
  /\ phase \notin {"flush", "dequeue"} => toFlush = {}
  /\ generation >= savedGeneration
  /\ \/ phase \in {"record", "row", "enqueue"}
     \/ phase = "persist" /\ current \in Msg
     => generation > savedGeneration
  /\ \A q, r \in outbox : q.id = r.id => q = r

\* A message is bound to one generation for good, crash or no crash.
BindingInv ==
  /\ \A m \in Msg, g \in Nat : Used(m, g) => m \in submitted
  /\ \A m \in Msg, g, h \in Nat : Used(m, g) /\ Used(m, h) => g = h
  /\ phase \in {"hello", "flush", "dequeue", "post"} =>
       \A m \in Msg, g \in Nat : Used(m, g) => m # current

\* A generation is bound to one message while no ratchet step was taken back.
GenerationInv ==
  ~senderTorn =>
    /\ \A m \in Msg, g \in Nat : Used(m, g) => g < generation
    /\ \A m, n \in Msg, g \in Nat : Used(m, g) /\ Used(n, g) => m = n

\* The snapshot is past the generation of every message whose call got to
\* persist_mls_state, for good; the message in hand has yet to get there.
ApartInv ==
  /\ persisted \subseteq submitted
  /\ current \notin persisted
  /\ \A m \in persisted, g \in Nat : Used(m, g) => g < savedGeneration
  /\ \A m, n \in persisted, g \in Nat : Used(m, g) /\ Used(n, g) => m = n
  /\ phase \in {"record", "row", "enqueue", "persist"} /\ current \in Msg =>
       \A g \in Nat : Used(current, g) => g = generation - 1

\* Rows carry the second they were written in.
TimeInv ==
  /\ \A r \in sentRows : r.at <= clock
  /\ \A q \in outbox : q.at <= clock

\* A row of the thread is backed: the relay had the message, or the outbox
\* holds it at least as long as the row, or Enqueue is the next step.
Backed(m, at) ==
  \/ \E e \in posted : e.msg = m
  \/ \E q \in outbox : q.msg = m /\ q.at >= at
  \/ phase = "enqueue" /\ current = m

BackedInv ==
  ~senderTorn =>
    /\ phase = "record" => \E e \in posted : e.msg = current
    /\ phase = "dequeue" =>
         \A q \in Oldest(toFlush) : \E e \in posted : e.msg = q.msg
    /\ \A r \in sentRows : Backed(r.msg, r.at)

\* Rows of the outbox are as old as their generations, up to the second.
QueueInv ==
  ~senderTorn =>
    /\ \A q, r \in outbox : q.gen < r.gen => q.at <= r.at
    /\ \A q, r \in outbox : q.gen = r.gen => q = r
    /\ \A q \in outbox : q.gen < generation
    /\ phase \in {"record", "row", "enqueue"} =>
         \A q \in outbox : q.gen < generation - 1

\* The rest of the system: the sender's state and the letters ever posted stay.
Elsewhere ==
  /\ UNCHANGED senderVars
  /\ posted' = posted
  /\ clock' \in Nat
  /\ clock' >= clock

AllTypeOK == WireTypeOK /\ SenderTypeOK

----------------------------------------------------------------------------

\* What a POST adds to the relay, whatever identifier the relay chose.
LEMMA PostAdds ==
  ASSUME NEW m \in Msg, NEW g \in Nat, WireTypeOK, Post(m, g)
  PROVE  \E l \in Envelope : /\ l.msg = m /\ l.gen = g
                             /\ \A e \in posted : e.id # l.id
                             /\ posted' = posted \cup {l}
                             /\ waiting' = waiting \cup {l}
                             /\ erased' = erased
<1> DEFINE free == MessageId \ {e.id : e \in posted}
           i == CHOOSE j \in free : TRUE
           l == [id |-> i, msg |-> m, gen |-> g]
<1>1. free # {} /\ Drop!Submit(l)
  BY DEF Post
<1>2. i \in MessageId /\ \A e \in posted : e.id # i
  BY <1>1
<1>3. l \in Envelope /\ l.msg = m /\ l.gen = g
  BY <1>2 DEF Envelope
<1>4. posted' = posted \cup {l} /\ waiting' = waiting \cup {l} /\ erased' = erased
  BY <1>1 DEF Drop!Submit
<1> QED
  BY <1>2, <1>3, <1>4

\* A POST, answered or not, either adds one letter for the blob or nothing.
LEMMA PostEffect ==
  ASSUME NEW m \in Msg, NEW g \in Nat, WireTypeOK,
         PostAnswered(m, g) \/ PostFailed(m, g)
  PROVE  /\ clock' = clock
         /\ erased' = erased
         /\ WireTypeOK'
         /\ LettersInv => LettersInv'
         /\ posted \subseteq posted'
         /\ \A e \in posted' \ posted : e \in Envelope /\ e.msg = m /\ e.gen = g
         /\ PostAnswered(m, g) => \E e \in posted' : e.msg = m /\ e.gen = g
<1>1. CASE UNCHANGED wireVars /\ ~PostAnswered(m, g)
  BY <1>1 DEF wireVars, WireTypeOK, LettersInv
<1>2. CASE Post(m, g) /\ UNCHANGED clock /\ (UNCHANGED lost \/ LoseAnswer)
  <2>1. PICK l \in Envelope : /\ l.msg = m /\ l.gen = g
                              /\ \A e \in posted : e.id # l.id
                              /\ posted' = posted \cup {l}
                              /\ waiting' = waiting \cup {l}
                              /\ erased' = erased
    BY <1>2, PostAdds
  <2>2. lost' \in Nat
    BY <1>2 DEF LoseAnswer, WireTypeOK
  <2> QED
    BY <1>2, <2>1, <2>2 DEF WireTypeOK, LettersInv
<1> QED
  BY <1>1, <1>2 DEF PostAnswered, PostFailed

LEMMA OldestIsThere == \A rows, q : q \in Oldest(rows) => q \in rows
  BY DEF Oldest

----------------------------------------------------------------------------
(***************************************************************************)
(* Types and phases                                                        *)
(***************************************************************************)

LEMMA TypeStep == AllTypeOK /\ PhaseInv /\ SenderNext => AllTypeOK'
<1> SUFFICES ASSUME AllTypeOK, PhaseInv, SenderNext
             PROVE  AllTypeOK'
  OBVIOUS
<1> USE DEF AllTypeOK, SenderTypeOK, history
<1>1. CASE UNCHANGED wireVars /\ WireTypeOK'
  <2>1. ASSUME NEW m \in Text, Send(m) PROVE AllTypeOK'
    BY <1>1, <2>1 DEF Send, Begin, Flushing, Text
  <2>2. CASE Poll
    BY <1>1, <2>2 DEF Poll, Begin, Flushing
  <2>3. CASE FlushFailed
    BY <1>1, <2>3 DEF FlushFailed, Flushing
  <2>4. CASE Dequeue
    BY <1>1, <2>4 DEF Dequeue, Flushing
  <2>5. CASE SendFailed
    BY <1>1, <2>5 DEF SendFailed
  <2>6. CASE RecordRow
    BY <1>1, <2>6 DEF RecordRow, PhaseInv, WireTypeOK, Text
  <2>7. CASE Enqueue
    BY <1>1, <2>7 DEF Enqueue, PhaseInv, WireTypeOK, Queued, BlobGeneration, Text
  <2>8. CASE PollCollect
    BY <1>1, <2>8 DEF PollCollect
  <2>9. CASE Persist
    BY <1>1, <2>9 DEF Persist, Purge, Snapshot
  <2>10. CASE SenderRestart
    BY <1>1, <2>10 DEF SenderRestart, Purge
  <2>11. CASE FlushPosted
    BY <1>1, <2>11 DEF FlushPosted
  <2>12. CASE SendPosted
    BY <1>1, <2>12 DEF SendPosted
  <2>13. CASE HelloPosted \/ HelloFailed
    BY <1>1, <2>13 DEF HelloPosted, HelloFailed, PhaseInv
  <2> QED
    BY <2>1, <2>2, <2>3, <2>4, <2>5, <2>6, <2>7, <2>8, <2>9, <2>10, <2>11, <2>12, <2>13
    DEF SenderNext, SenderStep
<1>2. CASE FlushPosted \/ FlushFailed
  <2>1. PICK q \in Oldest(toFlush) :
          PostAnswered(q.msg, q.gen) \/ PostFailed(q.msg, q.gen)
    BY <1>2 DEF FlushPosted, FlushFailed
  <2>2. q.msg \in Msg /\ q.gen \in Nat
    BY <2>1, OldestIsThere DEF Queued
  <2>3. WireTypeOK'
    BY <2>1, <2>2, PostEffect
  <2> QED
    BY <1>2, <2>3 DEF FlushPosted, FlushFailed, Flushing
<1>3. CASE SendPosted \/ SendFailed
  <2>1. current \in Msg /\ generation \in Nat
    BY <1>3 DEF SendPosted, SendFailed, PhaseInv, Text
  <2>2. WireTypeOK'
    BY <1>3, <2>1, PostEffect DEF SendPosted, SendFailed
  <2> QED
    BY <1>3, <2>2 DEF SendPosted, SendFailed
<1>4. UNCHANGED wireVars => WireTypeOK'
  BY DEF wireVars, WireTypeOK
<1>5. CASE HelloPosted \/ HelloFailed
  <2>1. Hello \in Msg /\ generation \in Nat
    BY <1>5 DEF HelloPosted, HelloFailed, PhaseInv
  <2>2. WireTypeOK'
    BY <1>5, <2>1, PostEffect DEF HelloPosted, HelloFailed
  <2> QED
    BY <1>5, <2>1, <2>2 DEF HelloPosted, HelloFailed
<1> QED
  BY <1>1, <1>2, <1>3, <1>4, <1>5
  DEF SenderNext, SenderStep, Send, Poll, Begin, Dequeue, RecordRow, Enqueue,
      PollCollect, Persist, SenderRestart

LEMMA PhaseStep == AllTypeOK /\ PhaseInv /\ SenderNext => PhaseInv'
<1> SUFFICES ASSUME AllTypeOK, PhaseInv, SenderNext
             PROVE  PhaseInv'
  OBVIOUS
<1> USE SenderAssumption DEF AllTypeOK, SenderTypeOK, PhaseInv, Text, history
<1>1. ASSUME NEW m \in Text, Send(m) PROVE PhaseInv'
  BY <1>1 DEF Send, Begin, Flushing
<1>2. CASE Poll
  BY <1>2 DEF Poll, Begin, Flushing
<1>3. CASE FlushPosted
  BY <1>3 DEF FlushPosted
<1>4. CASE FlushFailed
  BY <1>4 DEF FlushFailed, Flushing
<1>5. CASE Dequeue
  <2>1. PICK q \in Oldest(toFlush) :
          /\ outbox' = {r \in outbox : r.id # q.id}
          /\ toFlush' = toFlush \ {q}
          /\ phase' = Flushing(toFlush \ {q}, current)
    BY <1>5 DEF Dequeue
  <2>2. q \in outbox /\ toFlush = outbox
    BY <1>5, <2>1, OldestIsThere DEF Dequeue
  <2>3. toFlush' = outbox'
    BY <2>1, <2>2
  <2> QED
    BY <1>5, <2>1, <2>2, <2>3 DEF Dequeue, Flushing
<1>6. CASE SendPosted \/ SendFailed
  BY <1>6 DEF SendPosted, SendFailed
<1>7. CASE RecordRow
  BY <1>7 DEF RecordRow
<1>8. CASE Enqueue
  <2>1. PICK i \in LocalId \ {q.id : q \in outbox} :
          outbox' = outbox \cup
            {[id |-> i, msg |-> current, gen |-> BlobGeneration, at |-> clock]}
    BY <1>8 DEF Enqueue
  <2>2. \A q \in outbox : q.id # i
    BY <2>1
  <2>3. \A q, r \in outbox' : q.id = r.id => q = r
    BY <2>1, <2>2
  <2> QED
    BY <1>8, <2>3 DEF Enqueue
<1>9. CASE PollCollect
  BY <1>9 DEF PollCollect
<1>10. CASE Persist
  BY <1>10 DEF Persist, Purge, Snapshot
<1>11. CASE SenderRestart
  BY <1>11 DEF SenderRestart, Purge
<1>12. CASE HelloPosted \/ HelloFailed
  BY <1>12 DEF HelloPosted, HelloFailed
<1> QED
  BY <1>1, <1>2, <1>3, <1>4, <1>5, <1>6, <1>7, <1>8, <1>9, <1>10, <1>11, <1>12
  DEF SenderNext, SenderStep

----------------------------------------------------------------------------
(***************************************************************************)
(* Messages and generations                                                *)
(***************************************************************************)

\* A step binds at most one pair: the message in hand, when it is encrypted.
LEMMA UsedStep ==
  ASSUME AllTypeOK, PhaseInv, SenderNext,
         NEW m \in Msg, NEW g \in Nat, Used(m, g)'
  PROVE  \/ Used(m, g)
         \/ /\ \/ phase = "post" /\ phase' \in {"record", "row"}
               \/ phase = "hello" /\ phase' \in {"persist", "idle"}
            /\ current = m /\ generation = g /\ generation' = generation + 1
            /\ m \in submitted' /\ UNCHANGED <<persisted, savedGeneration>>
<1> USE DEF AllTypeOK, SenderTypeOK, PhaseInv, Text, history
<1>0. UNCHANGED wireVars => posted' = posted
  BY DEF wireVars
<1>1. ASSUME NEW n \in Msg \cup {NoMsg}, Begin(n) PROVE Used(m, g)
  BY <1>0, <1>1, SenderAssumption DEF Begin, Used, Flushing
<1>2. CASE FlushPosted \/ FlushFailed
  <2>1. PICK q \in Oldest(toFlush) :
          PostAnswered(q.msg, q.gen) \/ PostFailed(q.msg, q.gen)
    BY <1>2 DEF FlushPosted, FlushFailed
  <2>2. q \in toFlush /\ q.msg \in Msg /\ q.gen \in Nat
    BY <2>1, OldestIsThere DEF Queued
  <2>3. \A e \in posted' \ posted : e.msg = q.msg /\ e.gen = q.gen
    BY <2>1, <2>2, PostEffect
  <2>4. outbox' = outbox /\ toFlush' \subseteq toFlush /\ phase' \notin {"row", "enqueue"}
    BY <1>2 DEF FlushPosted, FlushFailed, Flushing
  <2> QED
    BY <2>2, <2>3, <2>4 DEF Used
<1>3. CASE Dequeue
  <2>1. outbox' \subseteq outbox /\ toFlush' \subseteq toFlush
    BY <1>3 DEF Dequeue
  <2>2. phase' \notin {"row", "enqueue"} /\ posted' = posted
    BY <1>0, <1>3 DEF Dequeue, Flushing
  <2> QED
    BY <2>1, <2>2 DEF Used
<1>4. CASE SendPosted \/ SendFailed
  <2>1. current \in Msg
    BY <1>4 DEF SendPosted, SendFailed
  <2>2. \A e \in posted' \ posted : e.msg = current /\ e.gen = generation
    BY <1>4, <2>1, PostEffect DEF SendPosted, SendFailed
  <2>3. /\ outbox' = outbox /\ toFlush' = toFlush /\ current' = current
        /\ generation' = generation + 1 /\ phase = "post"
        /\ phase' \in {"record", "row"} /\ current \in submitted
        /\ UNCHANGED <<submitted, persisted, savedGeneration>>
    BY <1>4 DEF SendPosted, SendFailed
  <2>4. (Used(m, g) \/ (current = m /\ generation = g))
    BY <2>2, <2>3 DEF Used
  <2> QED
    BY <2>3, <2>4
<1>5. CASE RecordRow
  BY <1>0, <1>5 DEF RecordRow, Used
<1>6. CASE Enqueue
  <2>1. PICK i \in LocalId : outbox' = outbox \cup
            {[id |-> i, msg |-> current, gen |-> BlobGeneration, at |-> clock]}
    BY <1>6 DEF Enqueue
  <2>2. /\ posted' = posted /\ toFlush' = toFlush
        /\ phase = "enqueue" /\ phase' = "persist"
    BY <1>0, <1>6 DEF Enqueue
  <2>3. \A q \in outbox' \ outbox : q.msg = current /\ q.gen = generation - 1
    BY <2>1 DEF BlobGeneration
  <2> QED
    BY <2>2, <2>3 DEF Used
<1>7. CASE PollCollect
  BY <1>0, <1>7 DEF PollCollect, Used
<1>8. CASE Persist
  BY <1>0, <1>8 DEF Persist, Purge, Used
<1>9. CASE SenderRestart
  BY <1>0, <1>9 DEF SenderRestart, Purge, Used
<1>10. CASE HelloPosted \/ HelloFailed
  <2>1. Hello \in Msg /\ current = Hello
    BY <1>10 DEF HelloPosted, HelloFailed
  <2>2. \A e \in posted' \ posted : e.msg = current /\ e.gen = generation
    BY <1>10, <2>1, PostEffect DEF HelloPosted, HelloFailed
  <2>3. /\ outbox' = outbox /\ toFlush' = toFlush
        /\ generation' = generation + 1 /\ phase = "hello"
        /\ phase' \in {"persist", "idle"} /\ current \in submitted'
        /\ UNCHANGED <<persisted, savedGeneration>>
    BY <1>10, <2>1 DEF HelloPosted, HelloFailed
  <2>4. Used(m, g) \/ (current = m /\ generation = g)
    BY <2>2, <2>3 DEF Used
  <2> QED
    BY <2>3, <2>4
<1> QED
  BY <1>1, <1>2, <1>3, <1>4, <1>5, <1>6, <1>7, <1>8, <1>9, <1>10
  DEF SenderNext, SenderStep, Send, Poll

LEMMA BindingStep ==
  AllTypeOK /\ PhaseInv /\ BindingInv /\ SenderNext => BindingInv'
<1> SUFFICES ASSUME AllTypeOK, PhaseInv, BindingInv, SenderNext
             PROVE  BindingInv'
  OBVIOUS
<1>1. submitted \subseteq submitted'
  BY DEF SenderNext, SenderStep, history, Send, Poll, Begin, HelloPosted,
     HelloFailed, FlushPosted, FlushFailed, Dequeue, SendPosted, SendFailed,
     RecordRow, Enqueue, PollCollect, Persist, SenderRestart
<1>2. ASSUME NEW m \in Msg, NEW g \in Nat, Used(m, g)' PROVE m \in submitted'
  BY <1>1, <1>2, UsedStep DEF BindingInv
<1>3. ASSUME NEW m \in Msg, NEW g \in Nat, NEW h \in Nat,
             Used(m, g)', Used(m, h)'
      PROVE  g = h
  BY <1>3, UsedStep DEF BindingInv
<1>4. ASSUME phase' \in {"hello", "flush", "dequeue", "post"},
             NEW m \in Msg, NEW g \in Nat, Used(m, g)', m = current'
      PROVE  FALSE
  <2>1. phase' \notin {"record", "row", "persist", "idle"}
    BY <1>4
  <2>2. Used(m, g)
    BY <1>4, <2>1, UsedStep
  <2>3. \/ \E n \in Text : Send(n)
        \/ Poll
        \/ /\ phase \in {"flush", "dequeue"}
           /\ current' = current
    BY <1>4 DEF SenderNext, SenderStep, HelloPosted, HelloFailed, FlushPosted,
       FlushFailed, Dequeue, SendPosted, SendFailed, RecordRow, Enqueue,
       PollCollect, Persist, SenderRestart
  <2>4. CASE \E n \in Text : Send(n)
    <3>1. m \notin submitted
      BY <1>4, <2>4 DEF Send, Begin
    <3> QED
      BY <2>2, <3>1 DEF BindingInv
  <2>5. CASE Poll
    BY <1>4, <2>5, SenderAssumption DEF Poll, Begin
  <2>6. CASE phase \in {"flush", "dequeue"} /\ current' = current
    BY <1>4, <2>2, <2>6 DEF BindingInv
  <2> QED
    BY <2>3, <2>4, <2>5, <2>6
<1>5. \A m \in Msg, g \in Nat : Used(m, g)' => m \in submitted'
  BY <1>2
<1>6. \A m \in Msg, g, h \in Nat : Used(m, g)' /\ Used(m, h)' => g = h
  BY <1>3
<1>7. phase' \in {"hello", "flush", "dequeue", "post"} =>
        \A m \in Msg, g \in Nat : Used(m, g)' => m # current'
  BY <1>4
<1> QED
  BY <1>5, <1>6, <1>7 DEF BindingInv

LEMMA GenerationStep ==
  AllTypeOK /\ PhaseInv /\ GenerationInv /\ SenderNext => GenerationInv'
<1> SUFFICES ASSUME AllTypeOK, PhaseInv, GenerationInv, SenderNext, ~senderTorn'
             PROVE  /\ \A m \in Msg, g \in Nat : Used(m, g)' => g < generation'
                    /\ \A m, n \in Msg, g \in Nat :
                         Used(m, g)' /\ Used(n, g)' => m = n
  BY DEF GenerationInv
<1>1. ~senderTorn /\ generation' \in {generation, generation + 1}
  BY DEF SenderNext, SenderStep, history, Send, Poll, Begin, HelloPosted,
     HelloFailed, FlushPosted, FlushFailed, Dequeue, SendPosted, SendFailed,
     RecordRow, Enqueue, PollCollect, Persist, SenderRestart, AllTypeOK,
     SenderTypeOK
<1>2. generation \in Nat
  BY DEF AllTypeOK, SenderTypeOK
<1>3. ASSUME NEW m \in Msg, NEW g \in Nat, Used(m, g)' PROVE g < generation'
  <2>1. Used(m, g) \/ (generation = g /\ generation' = generation + 1)
    BY <1>3, UsedStep
  <2>2. Used(m, g) => g < generation
    BY <1>1 DEF GenerationInv
  <2> QED
    BY <1>1, <1>2, <2>1, <2>2
<1>4. ASSUME NEW m \in Msg, NEW n \in Msg, NEW g \in Nat, Used(m, g)', Used(n, g)'
      PROVE  m = n
  <2>1. Used(m, g) \/ (current = m /\ generation = g)
    BY <1>4, UsedStep
  <2>2. Used(n, g) \/ (current = n /\ generation = g)
    BY <1>4, UsedStep
  <2>3. Used(m, g) \/ Used(n, g) => g < generation
    BY <1>1 DEF GenerationInv
  <2>4. Used(m, g) /\ Used(n, g) => m = n
    BY <1>1 DEF GenerationInv
  <2> QED
    BY <1>2, <2>1, <2>2, <2>3, <2>4
<1> QED
  BY <1>3, <1>4

LEMMA ApartStep ==
  AllTypeOK /\ PhaseInv /\ BindingInv /\ ApartInv /\ SenderNext => ApartInv'
<1> SUFFICES ASSUME AllTypeOK, PhaseInv, BindingInv, ApartInv, SenderNext
             PROVE  ApartInv'
  OBVIOUS
<1>1. /\ persisted \subseteq Msg /\ submitted \subseteq Msg
      /\ savedGeneration \in Nat /\ generation \in Nat /\ NoMsg \notin Msg
      /\ generation >= savedGeneration
  BY SenderAssumption DEF AllTypeOK, SenderTypeOK, PhaseInv
<1>2. CASE Persist
  <2>1. /\ savedGeneration' = generation /\ generation' = generation
        /\ phase = "persist" /\ phase' = "idle" /\ current' = NoMsg
        /\ persisted' = persisted \cup ({current} \cap Msg)
        /\ submitted' = submitted
    BY <1>2 DEF Persist, Snapshot
  <2>2. \A m \in Msg, g \in Nat : Used(m, g)' => Used(m, g)
    BY <2>1, UsedStep
  <2>3. ASSUME current \in Msg, NEW g \in Nat, Used(current, g)
        PROVE  g = generation - 1 /\ generation > savedGeneration
    BY <2>1, <2>3 DEF ApartInv, PhaseInv
  <2>4. persisted' \subseteq submitted' /\ current' \notin persisted'
    BY <1>1, <2>1 DEF ApartInv, PhaseInv
  <2>5. ASSUME NEW m \in persisted', NEW g \in Nat, Used(m, g)'
        PROVE  /\ g < generation
               /\ m \in persisted => g < savedGeneration
               /\ m \notin persisted => m = current /\ g = generation - 1
    <3>1. m \in Msg /\ Used(m, g)
      BY <1>1, <2>1, <2>2, <2>5
    <3>2. CASE m \in persisted
      BY <1>1, <3>1, <3>2 DEF ApartInv
    <3>3. CASE m \notin persisted
      BY <1>1, <2>1, <2>3, <2>5, <3>1, <3>3
    <3> QED
      BY <3>2, <3>3
  <2>6. ASSUME NEW m \in persisted', NEW n \in persisted', NEW g \in Nat,
               Used(m, g)', Used(n, g)'
        PROVE  m = n
    <3>1. CASE m \in persisted /\ n \in persisted
      BY <1>1, <2>2, <2>6, <3>1 DEF ApartInv
    <3>2. CASE m \notin persisted /\ n \notin persisted
      BY <2>5, <2>6, <3>2
    <3>3. CASE (m \in persisted) # (n \in persisted)
      <4>1. current \in Msg /\ Used(current, g) /\ g < savedGeneration
        BY <1>1, <2>1, <2>2, <2>5, <2>6, <3>3
      <4> QED
        BY <1>1, <2>3, <4>1
    <3> QED
      BY <3>1, <3>2, <3>3
  <2> QED
    BY <2>1, <2>4, <2>5, <2>6 DEF ApartInv
<1>3. CASE ~Persist
  <2>1. /\ UNCHANGED <<savedGeneration, persisted>>
        /\ submitted \subseteq submitted'
        /\ current' \in {current, NoMsg} \/ current' \in Text \ submitted
    BY <1>3 DEF SenderNext, SenderStep, history, Send, Poll, Begin, HelloPosted,
       HelloFailed, FlushPosted, FlushFailed, Dequeue, SendPosted, SendFailed,
       RecordRow, Enqueue, PollCollect, SenderRestart
  <2>2. ASSUME NEW m \in persisted, NEW g \in Nat, Used(m, g)'
        PROVE  Used(m, g)
    BY <1>1, <2>2, UsedStep DEF ApartInv
  <2>3. persisted' \subseteq submitted' /\ current' \notin persisted'
    BY <1>1, <2>1 DEF ApartInv
  <2>4. ASSUME phase' \in {"record", "row", "enqueue", "persist"},
               NEW m \in Msg, m = current', NEW g \in Nat, Used(m, g)'
        PROVE  g = generation' - 1
    <3>1. \/ /\ phase \in {"record", "row", "enqueue", "persist"}
             /\ UNCHANGED <<current, generation>>
          \/ /\ phase \in {"post", "hello"}
             /\ UNCHANGED current
             /\ generation' = generation + 1
      BY <1>1, <1>3, <2>4 DEF SenderNext, SenderStep, history, Send, Poll, Begin,
         HelloPosted, HelloFailed, FlushPosted, FlushFailed, Dequeue, SendPosted,
         SendFailed, RecordRow, Enqueue, PollCollect, SenderRestart, Flushing,
         PhaseInv
    <3>2. \/ Used(m, g)
          \/ phase \in {"post", "hello"} /\ generation = g
      BY <2>4, UsedStep
    <3>3. m = current /\ (phase \in {"post", "hello"} => ~Used(m, g))
      BY <2>4, <3>1 DEF BindingInv
    <3> QED
      BY <1>1, <3>1, <3>2, <3>3 DEF ApartInv
  <2> QED
    <3>1. \A m, n \in persisted', g \in Nat : Used(m, g)' /\ Used(n, g)' => m = n
      BY <2>1, <2>2 DEF ApartInv
    <3>2. \A m \in persisted', g \in Nat : Used(m, g)' => g < savedGeneration'
      BY <2>1, <2>2 DEF ApartInv
    <3>3. ASSUME phase' \in {"record", "row", "enqueue", "persist"}, current' \in Msg,
                 NEW g \in Nat, Used(current, g)'
          PROVE  g = generation' - 1
      <4> DEFINE c == current'
      <4>1. PICK m \in Msg : m = c
        BY <3>3
      <4>2. Used(m, g)'
        BY <3>3, <4>1 DEF Used
      <4> QED
        BY <2>4, <3>3, <4>1, <4>2
    <3> QED
      BY <2>3, <3>1, <3>2, <3>3 DEF ApartInv
<1> QED
  BY <1>2, <1>3

----------------------------------------------------------------------------
(***************************************************************************)
(* Rows, queue and retention                                               *)
(***************************************************************************)

LEMMA OldestIsUnique ==
  ASSUME AllTypeOK, PhaseInv, phase \in {"flush", "dequeue"},
         NEW q \in Oldest(toFlush), NEW r \in Oldest(toFlush)
  PROVE  q = r
<1>1. q \in outbox /\ r \in outbox
  BY OldestIsThere DEF PhaseInv
<1>2. q.id \in Nat /\ r.id \in Nat /\ q.at \in Nat /\ r.at \in Nat
  BY <1>1, SenderAssumption DEF AllTypeOK, SenderTypeOK, Queued
<1>3. q.at = r.at /\ q.id = r.id
  BY <1>2 DEF Oldest
<1> QED
  BY <1>1, <1>3 DEF PhaseInv

\* What is younger than a surviving row survives.
LEMMA OutlivedIsMonotone ==
  ASSUME NEW s \in Nat, NEW t \in Nat, s <= t, clock \in Nat, Outlived(t)
  PROVE  Outlived(s)
BY WireAssumption DEF Outlived

LEMMA TimeStep == AllTypeOK /\ TimeInv /\ SenderNext => TimeInv'
<1> SUFFICES ASSUME AllTypeOK, TimeInv, SenderNext
             PROVE  TimeInv'
  OBVIOUS
<1> USE DEF TimeInv, AllTypeOK, WireTypeOK, SenderTypeOK
<1>1. clock' = clock
  BY DEF wireVars, SenderNext, SenderStep, history, Send, Poll, Begin,
     HelloPosted, HelloFailed, FlushPosted, FlushFailed, Dequeue, SendPosted,
     SendFailed, RecordRow, Enqueue, PollCollect, Persist, SenderRestart,
     PostAnswered, PostFailed
<1>2. CASE RecordRow
  BY <1>1, <1>2 DEF RecordRow
<1>3. CASE Enqueue
  BY <1>1, <1>3 DEF Enqueue
<1>4. CASE ~RecordRow /\ ~Enqueue
  <2>1. sentRows' \subseteq sentRows /\ outbox' \subseteq outbox
    BY <1>4 DEF SenderNext, SenderStep, history, Send, Poll, Begin,
       HelloPosted, HelloFailed, FlushPosted, FlushFailed, Dequeue,
       SendPosted, SendFailed, PollCollect, Persist, SenderRestart, Purge
  <2> QED
    BY <1>1, <2>1
<1> QED
  BY <1>2, <1>3, <1>4

LEMMA QueueStep ==
  AllTypeOK /\ PhaseInv /\ TimeInv /\ QueueInv /\ SenderNext => QueueInv'
<1> SUFFICES ASSUME AllTypeOK, PhaseInv, TimeInv, QueueInv, SenderNext, ~senderTorn'
             PROVE  QueueInv'
  BY DEF QueueInv
<1> USE DEF QueueInv
<1>1. ~senderTorn /\ generation \in Nat /\ clock \in Nat
  BY DEF SenderNext, SenderStep, history, Send, Poll, Begin, HelloPosted,
     HelloFailed, FlushPosted, FlushFailed, Dequeue, SendPosted, SendFailed,
     RecordRow, Enqueue, PollCollect, Persist, SenderRestart, AllTypeOK,
     SenderTypeOK, WireTypeOK
<1>2. \A q \in outbox : q.gen \in Nat /\ q.at \in Nat
  BY DEF AllTypeOK, SenderTypeOK, Queued
<1>3. CASE Enqueue
  <2>1. PICK i \in LocalId : outbox' = outbox \cup
            {[id |-> i, msg |-> current, gen |-> BlobGeneration, at |-> clock]}
    BY <1>3 DEF Enqueue
  <2>2. \A q \in outbox' \ outbox :
          /\ q = [id |-> i, msg |-> current, gen |-> BlobGeneration, at |-> clock]
          /\ q.gen = generation - 1 /\ q.at = clock
    BY <2>1 DEF BlobGeneration
  <2>3. \A q \in outbox : q.gen < generation - 1 /\ q.at <= clock
    BY <1>1, <1>3 DEF Enqueue, TimeInv
  <2>4. generation' = generation /\ phase' = "persist"
    BY <1>3 DEF Enqueue
  <2> QED
    BY <1>1, <1>2, <2>2, <2>3, <2>4
<1>4. CASE ~Enqueue
  <2>1. outbox' \subseteq outbox
    BY <1>4 DEF SenderNext, SenderStep, history, Send, Poll, Begin,
       HelloPosted, HelloFailed, FlushPosted, FlushFailed, Dequeue,
       SendPosted, SendFailed, RecordRow, PollCollect, Persist, SenderRestart,
       Purge
  <2>2. \/ generation' = generation /\ phase' \notin {"record", "row", "enqueue"}
        \/ generation' = generation /\ phase \in {"record", "row"}
        \/ generation' = generation + 1
    BY <1>1, <1>4 DEF SenderNext, SenderStep, history, Send, Poll, Begin,
       HelloPosted, HelloFailed, FlushPosted, FlushFailed, Dequeue,
       SendPosted, SendFailed, RecordRow, PollCollect, Persist, SenderRestart,
       Flushing
  <2> QED
    BY <1>1, <1>2, <2>1, <2>2
<1> QED
  BY <1>3, <1>4

LEMMA BackedStep ==
  AllTypeOK /\ PhaseInv /\ TimeInv /\ BackedInv /\ SenderNext => BackedInv'
<1> SUFFICES ASSUME AllTypeOK, PhaseInv, TimeInv, BackedInv, SenderNext, ~senderTorn'
             PROVE  BackedInv'
  BY DEF BackedInv
<1> USE DEF BackedInv, Backed, history
<1>1. ~senderTorn
  BY DEF SenderNext, SenderStep, history, Send, Poll, Begin, HelloPosted,
     HelloFailed, FlushPosted, FlushFailed, Dequeue, SendPosted, SendFailed,
     RecordRow, Enqueue, PollCollect, Persist, SenderRestart, AllTypeOK,
     SenderTypeOK
<1>2. \A r \in sentRows : r.at \in Nat /\ r.at <= clock /\ clock \in Nat
  BY DEF AllTypeOK, SenderTypeOK, WireTypeOK, TimeInv
<1>3. UNCHANGED wireVars => posted' = posted
  BY DEF wireVars
<1>4. ASSUME NEW n \in Msg \cup {NoMsg}, Begin(n) PROVE BackedInv'
  BY <1>1, <1>3, <1>4 DEF Begin, Flushing
<1>5. CASE FlushPosted
  <2>1. PICK q \in Oldest(toFlush) : PostAnswered(q.msg, q.gen)
    BY <1>5 DEF FlushPosted
  <2>2. q.msg \in Msg /\ q.gen \in Nat
    BY <2>1, OldestIsThere DEF AllTypeOK, SenderTypeOK, Queued
  <2>3. posted \subseteq posted' /\ \E e \in posted' : e.msg = q.msg
    BY <2>1, <2>2, PostEffect DEF AllTypeOK
  <2>4. \A r \in Oldest(toFlush) : r = q
    BY <1>5, <2>1, OldestIsUnique DEF FlushPosted
  <2>5. Oldest(toFlush)' = Oldest(toFlush)
    BY <1>5 DEF FlushPosted, Oldest
  <2> QED
    BY <1>1, <1>5, <2>3, <2>4, <2>5 DEF FlushPosted
<1>6. CASE FlushFailed
  <2>1. PICK q \in Oldest(toFlush) : PostFailed(q.msg, q.gen)
    BY <1>6 DEF FlushFailed
  <2>2. q.msg \in Msg /\ q.gen \in Nat
    BY <2>1, OldestIsThere DEF AllTypeOK, SenderTypeOK, Queued
  <2>3. posted \subseteq posted'
    BY <2>1, <2>2, PostEffect DEF AllTypeOK
  <2> QED
    BY <1>1, <1>6, <2>3 DEF FlushFailed, Flushing
<1>7. CASE Dequeue
  <2>1. PICK q \in Oldest(toFlush) : outbox' = {r \in outbox : r.id # q.id}
    BY <1>7 DEF Dequeue
  <2>2. q \in outbox
    BY <1>7, <2>1, OldestIsThere DEF PhaseInv, Dequeue
  <2>3. \A r \in outbox \ outbox' : r = q
    BY <2>1, <2>2 DEF PhaseInv
  <2>4. \E e \in posted : e.msg = q.msg
    BY <1>1, <1>7, <2>1 DEF Dequeue
  <2> QED
    BY <1>1, <1>3, <1>7, <2>3, <2>4 DEF Dequeue, Flushing
<1>8. CASE SendPosted \/ SendFailed
  <2>1. current \in Msg /\ generation \in Nat
    BY <1>8 DEF SendPosted, SendFailed, PhaseInv, Text, AllTypeOK, SenderTypeOK
  <2>2. /\ posted \subseteq posted'
        /\ SendPosted => \E e \in posted' : e.msg = current
    BY <1>8, <2>1, PostEffect DEF SendPosted, SendFailed, AllTypeOK
  <2> QED
    BY <1>1, <1>8, <2>2 DEF SendPosted, SendFailed
<1>9. CASE RecordRow
  <2>1. sentRows' = sentRows \cup {[msg |-> current, at |-> clock]}
    BY <1>9 DEF RecordRow
  <2> QED
    BY <1>1, <1>3, <1>9, <2>1 DEF RecordRow
<1>10. CASE Enqueue
  <2>1. PICK i \in LocalId : outbox' = outbox \cup
            {[id |-> i, msg |-> current, gen |-> BlobGeneration, at |-> clock]}
    BY <1>10 DEF Enqueue
  <2> DEFINE new == [id |-> i, msg |-> current, gen |-> BlobGeneration, at |-> clock]
  <2>2. new \in outbox' /\ new.msg = current /\ new.at = clock
    BY <2>1
  <2>3. /\ outbox \subseteq outbox' /\ posted' = posted
        /\ sentRows' = sentRows /\ phase' = "persist"
    BY <1>3, <1>10, <2>1 DEF Enqueue
  <2>4. ASSUME NEW r \in sentRows PROVE Backed(r.msg, r.at)'
    <3>1. Backed(r.msg, r.at) /\ r.at <= clock
      BY <1>1, <1>2
    <3> QED
      BY <2>2, <2>3, <3>1
  <2> QED
    BY <2>3, <2>4
<1>11. CASE PollCollect
  BY <1>1, <1>3, <1>11 DEF PollCollect
<1>0. SenderRestart => generation = savedGeneration
  BY DEF SenderRestart, AllTypeOK, SenderTypeOK
<1>12. CASE (Persist \/ SenderRestart) /\ UNCHANGED <<sentRows, outbox>>
  <2>1. phase # "enqueue"
    BY <1>0, <1>12 DEF Persist, PhaseInv, AllTypeOK, SenderTypeOK
  <2> QED
    BY <1>1, <1>3, <1>12, <2>1 DEF Persist, SenderRestart
<1>13. CASE (Persist \/ SenderRestart) /\ Purge
  <2>1. phase # "enqueue"
    BY <1>0, <1>13 DEF Persist, PhaseInv, AllTypeOK, SenderTypeOK
  <2>2. phase' = "idle" /\ posted' = posted
    BY <1>3, <1>13 DEF Persist, SenderRestart
  <2>3. ASSUME NEW r \in sentRows, ~Outlived(r.at), NEW q \in outbox, q.at >= r.at
        PROVE  q \in outbox'
    <3>1. q.at \in Nat
      BY DEF AllTypeOK, SenderTypeOK, Queued
    <3>2. ~Outlived(q.at)
      BY <1>2, <2>3, <3>1, OutlivedIsMonotone
    <3> QED
      BY <1>13, <3>2 DEF Purge
  <2>4. \A r \in sentRows' : r \in sentRows /\ ~Outlived(r.at)
    BY <1>13 DEF Purge
  <2> QED
    BY <1>1, <2>1, <2>2, <2>3, <2>4
<1>14. CASE HelloPosted \/ HelloFailed
  <2>1. Hello \in Msg /\ generation \in Nat
    BY <1>14 DEF HelloPosted, HelloFailed, PhaseInv, AllTypeOK, SenderTypeOK
  <2>2. posted \subseteq posted'
    BY <1>14, <2>1, PostEffect DEF HelloPosted, HelloFailed, AllTypeOK
  <2> QED
    BY <1>1, <1>14, <2>2 DEF HelloPosted, HelloFailed
<1> QED
  BY <1>4, <1>5, <1>6, <1>7, <1>8, <1>9, <1>10, <1>11, <1>12, <1>13, <1>14
  DEF SenderNext, SenderStep, Send, Poll, Persist, SenderRestart, Text

----------------------------------------------------------------------------
(***************************************************************************)
(* The invariant                                                           *)
(***************************************************************************)

SenderInv ==
  /\ AllTypeOK
  /\ PhaseInv
  /\ LettersInv
  /\ BindingInv
  /\ GenerationInv
  /\ TimeInv
  /\ QueueInv
  /\ BackedInv
  /\ ApartInv

LEMMA SenderInvInit == WireInit /\ SenderInit => SenderInv
<1> SUFFICES ASSUME WireInit, SenderInit PROVE SenderInv
  OBVIOUS
<1> USE DEF WireInit, SenderInit, Drop!Init
<1>1. AllTypeOK
  BY DEF AllTypeOK, WireTypeOK, SenderTypeOK
<1>2. PhaseInv /\ LettersInv /\ TimeInv /\ QueueInv
  BY SenderAssumption DEF PhaseInv, LettersInv, TimeInv, QueueInv, Text
<1>3. \A m, g : ~Used(m, g)
  BY DEF Used
<1>4. BindingInv /\ GenerationInv
  BY <1>3 DEF BindingInv, GenerationInv
<1>5. BackedInv /\ ApartInv
  BY <1>3 DEF BackedInv, ApartInv
<1> QED
  BY <1>1, <1>2, <1>4, <1>5 DEF SenderInv

\* The sender only adds letters.
LEMMA SenderOnlyPosts ==
  AllTypeOK /\ PhaseInv /\ LettersInv /\ SenderNext
    => posted \subseteq posted' /\ erased' = erased /\ LettersInv'
<1> SUFFICES ASSUME AllTypeOK, PhaseInv, LettersInv, SenderNext
             PROVE  posted \subseteq posted' /\ erased' = erased /\ LettersInv'
  OBVIOUS
<1>1. CASE FlushPosted \/ FlushFailed
  <2>1. PICK q \in Oldest(toFlush) :
          PostAnswered(q.msg, q.gen) \/ PostFailed(q.msg, q.gen)
    BY <1>1 DEF FlushPosted, FlushFailed
  <2>2. q.msg \in Msg /\ q.gen \in Nat
    BY <2>1, OldestIsThere DEF AllTypeOK, SenderTypeOK, Queued
  <2> QED
    BY <2>1, <2>2, PostEffect DEF AllTypeOK
<1>2. CASE SendPosted \/ SendFailed
  <2>1. current \in Msg /\ generation \in Nat
    BY <1>2 DEF SendPosted, SendFailed, PhaseInv, Text, AllTypeOK, SenderTypeOK
  <2> QED
    BY <1>2, <2>1, PostEffect DEF SendPosted, SendFailed, AllTypeOK
<1>3. CASE UNCHANGED wireVars
  BY <1>3 DEF wireVars, LettersInv
<1>4. CASE HelloPosted \/ HelloFailed
  <2>1. Hello \in Msg /\ generation \in Nat
    BY <1>4 DEF HelloPosted, HelloFailed, PhaseInv, AllTypeOK, SenderTypeOK
  <2> QED
    BY <1>4, <2>1, PostEffect DEF HelloPosted, HelloFailed, AllTypeOK
<1> QED
  BY <1>1, <1>2, <1>3, <1>4
  DEF SenderNext, SenderStep, Send, Poll, Begin, Dequeue, RecordRow, Enqueue,
      PollCollect, Persist, SenderRestart

LEMMA SenderInvStep == SenderInv /\ SenderNext => SenderInv'
BY TypeStep, PhaseStep, BindingStep, GenerationStep, TimeStep, QueueStep,
   BackedStep, ApartStep, SenderOnlyPosts DEF SenderInv

\* Nothing the rest of the system does can break it.
LEMMA SenderInvElsewhere == SenderInv /\ Elsewhere /\ WireTypeOK' => SenderInv'
<1> SUFFICES ASSUME SenderInv, Elsewhere, WireTypeOK' PROVE SenderInv'
  OBVIOUS
<1> USE DEF SenderInv, Elsewhere, senderVars, history
<1>1. AllTypeOK'
  BY DEF AllTypeOK, SenderTypeOK
<1>2. PhaseInv' /\ LettersInv' /\ QueueInv'
  BY DEF PhaseInv, LettersInv, QueueInv
<1>3. \A m, g : Used(m, g)' <=> Used(m, g)
  BY DEF Used
<1>4. BindingInv' /\ GenerationInv' /\ ApartInv'
  BY <1>3 DEF BindingInv, GenerationInv, ApartInv
<1>5. TimeInv'
  <2>1. /\ clock \in Nat
        /\ \A r \in sentRows : r.at \in Nat
        /\ \A q \in outbox : q.at \in Nat
    BY DEF AllTypeOK, WireTypeOK, SenderTypeOK, Queued
  <2> QED
    BY <2>1 DEF TimeInv
<1>6. BackedInv'
  BY DEF BackedInv, Backed, Oldest
<1> QED
  BY <1>1, <1>2, <1>4, <1>5, <1>6

LEMMA SenderInvariance == SenderSpec => []SenderInv
<1>1. AloneInit => SenderInv
  BY SenderInvInit DEF AloneInit
<1>2. ASSUME SenderInv, [SenderNext \/ (Tick /\ UNCHANGED senderVars)]_sVars
      PROVE  SenderInv'
  <2>1. CASE SenderNext
    BY <1>2, <2>1, SenderInvStep
  <2>2. CASE (Tick /\ UNCHANGED senderVars) \/ UNCHANGED sVars
    <3>1. Elsewhere /\ WireTypeOK'
      BY <1>2, <2>2 DEF sVars, wireVars, Tick, Elsewhere, SenderInv, AllTypeOK,
         WireTypeOK
    <3> QED
      BY <1>2, <3>1, SenderInvElsewhere
  <2> QED
    BY <1>2, <2>1, <2>2
<1> QED
  BY <1>1, <1>2, PTL DEF SenderSpec

----------------------------------------------------------------------------

\* What the invariant says of letters.
LEMMA GenerationsFollow == SenderInv => GenerationsUnique
<1> SUFFICES ASSUME SenderInv, ~senderTorn, NEW e \in posted, NEW f \in posted,
                    e.gen = f.gen
             PROVE  e.msg = f.msg
  BY DEF GenerationsUnique
<1>1. e.msg \in Msg /\ f.msg \in Msg /\ e.gen \in Nat
  BY DEF SenderInv, AllTypeOK, WireTypeOK, Envelope
<1>2. Used(e.msg, e.gen) /\ Used(f.msg, e.gen)
  BY DEF Used
<1> QED
  BY <1>1, <1>2 DEF SenderInv, GenerationInv

\* Every variable keeps its type: blobs posted and queued carry generations
\* that exist and messages that were handed to send_message.
THEOREM SenderTypeCorrect == SenderSpec => []SenderTypeOK
<1>1. SenderInv => SenderTypeOK
  BY DEF SenderInv, AllTypeOK
<1> QED
  BY <1>1, SenderInvariance, PTL

\* Two messages never leave under one ratchet generation, however often a POST
\* fails or is repeated, unless a restart took back a ratchet step.
THEOREM GenerationsStayUnique == SenderSpec => []GenerationsUnique
BY SenderInvariance, GenerationsFollow, PTL

\* What the invariant says of letters and queued blobs of saved messages.
LEMMA PersistedFollow == SenderInv => PersistedStayApart
<1> SUFFICES ASSUME SenderInv,
                    NEW x \in posted \cup outbox, NEW y \in posted \cup outbox,
                    {x.msg, y.msg} \subseteq persisted, x.gen = y.gen
             PROVE  x.msg = y.msg
  BY DEF PersistedStayApart
<1>1. x.msg \in Msg /\ y.msg \in Msg /\ x.gen \in Nat
  BY DEF SenderInv, AllTypeOK, WireTypeOK, SenderTypeOK, Envelope, Queued
<1>2. Used(x.msg, x.gen) /\ Used(y.msg, x.gen)
  BY DEF Used
<1> QED
  BY <1>1, <1>2 DEF SenderInv, ApartInv

\* Whatever a crash or a failed Hello takes back, a message whose call got to
\* persist_mls_state keeps its generation to itself among all such messages.
THEOREM PersistedKeepApart == SenderSpec => []PersistedStayApart
BY SenderInvariance, PersistedFollow, PTL

\* A message the thread shows as sent was accepted by the relay or is queued,
\* whatever retention deletes.
THEOREM SentStaysBacked == SenderSpec => []SentIsBacked
<1>1. SenderInv => SentIsBacked
  BY DEF SenderInv, BackedInv, Backed, SentIsBacked
<1> QED
  BY <1>1, SenderInvariance, PTL

\* What a step of the sender in the midst of a flush can post.
LEMMA FlushOrder ==
  ASSUME SenderInv, SenderNext, ~senderTorn, phase = "flush",
         NEW e \in posted' \ posted, NEW q \in outbox, NEW r \in outbox,
         r.gen = e.gen, q.gen < e.gen
  PROVE  q.at = r.at
<1>1. PICK p \in Oldest(toFlush) :
        PostAnswered(p.msg, p.gen) \/ PostFailed(p.msg, p.gen)
  BY DEF SenderNext, SenderStep, history, Send, Poll, Begin, HelloPosted,
     HelloFailed, FlushPosted, FlushFailed, Dequeue, SendPosted, SendFailed,
     RecordRow, Enqueue, PollCollect, Persist, SenderRestart, wireVars
<1>2. p \in outbox /\ toFlush = outbox
  BY <1>1, OldestIsThere DEF SenderInv, PhaseInv
<1>3. p.msg \in Msg /\ p.gen \in Nat /\ q.at \in Nat /\ r.at \in Nat /\ p.at \in Nat
  BY <1>2 DEF SenderInv, AllTypeOK, SenderTypeOK, Queued
<1>4. e.gen = p.gen
  BY <1>1, <1>3, PostEffect DEF SenderInv, AllTypeOK
<1>5. p = r /\ q.at <= r.at
  BY <1>2, <1>4 DEF SenderInv, QueueInv
<1>6. p.at <= q.at
  BY <1>1, <1>2, <1>3 DEF Oldest
<1> QED
  BY <1>3, <1>5, <1>6

\* The retry never posts a blob ahead of one that was encrypted before it in
\* an earlier second.
THEOREM FlushFollowsSeconds == SenderSpec => FlushedBySecond
<1>1. SenderInv /\ [SenderNext \/ (Tick /\ UNCHANGED senderVars)]_sVars
        => [~senderTorn /\ phase = "flush" =>
              \A e \in posted' \ posted : \A q, r \in outbox :
                r.gen = e.gen /\ q.gen < e.gen => q.at = r.at]_sVars
  BY FlushOrder DEF Tick
<1> QED
  BY <1>1, SenderInvariance, PTL DEF SenderSpec, FlushedBySecond

----------------------------------------------------------------------------
(***************************************************************************)
(* Custody: what the user is told                                          *)
(***************************************************************************)

\* The manifest of a message the relay has, and of one it is not known to have.
Accepted == Delivered(HeldAtRelay(Routed(Encrypted(Compressed(New)))))
Kept == FailedAtRouting(Encrypted(Compressed(New)))

\* The outbox holds a blob of message m at least as long as any row of it.
HeldFor(m, q) ==
  q.msg = m /\ \A r \in sentRows : r.msg = m => r.at <= q.at

\* A manifest belongs to a call that has encrypted, and says what the POST said.
ManifestInv ==
  /\ manifest \in {NoManifest, Accepted, Kept}
  /\ manifest # NoManifest <=>
       \/ phase \in {"record", "row", "enqueue"}
       \/ phase = "persist" /\ current \in Text
  /\ manifest = Accepted =>
       /\ phase \in {"record", "persist"}
       /\ \E e \in posted : e.msg = current /\ e.gen = BlobGeneration
       /\ ~Waits
  /\ manifest = Kept =>
       \/ phase \in {"row", "enqueue"}
       \/ /\ phase = "persist"
          /\ \E q \in outbox : q.gen = BlobGeneration /\ HeldFor(current, q)

\* The screen says "sending" of the message in hand; what it calls failed is
\* queued at least as long as its row.
ShownInv ==
  /\ shown \in [Text -> {"nothing", "sending", "sent", "failed"}]
  /\ current \in Text => shown[current] = "sending"
  /\ phase = "dequeue" =>
       \A q \in Oldest(toFlush) : \E e \in posted : e.msg = q.msg
  /\ \A m \in Text :
       /\ shown[m] = "sent" => \E e \in posted : e.msg = m
       /\ shown[m] = "failed" =>
            \/ \E q \in outbox : HeldFor(m, q)
            \/ \E e \in posted : e.msg = m
            \/ \A r \in sentRows : r.msg # m

CustodyInv == SenderInv /\ ManifestInv /\ ShownInv

LEMMA StageIs ==
  Stage = {"compose", "strip", "compress", "pad", "encrypt", "seal", "route",
           "queue", "deliver"}
BY DEF Stage, Number

\* What the two manifests say of each stage.
LEMMA AcceptedSays ==
  /\ Accepted \in [Stage -> Outcome]
  /\ \A s \in Stage : Accepted[s] \notin {"failed", "pending"}
<1>1. New \in [Stage -> Outcome]
  BY StageIs DEF New, Outcome
<1>2. \A s \in Stage :
        Accepted[s] = CASE s = "strip" -> "not applicable"
                        [] s \in {"pad", "seal"} -> "not yet implemented"
                        [] OTHER -> "ran"
  BY <1>1, StageIs
  DEF Accepted, Compressed, Encrypted, Routed, HeldAtRelay, Delivered, New
<1>3. Accepted \in [Stage -> Outcome]
  BY <1>1, StageIs
  DEF Accepted, Compressed, Encrypted, Routed, HeldAtRelay, Delivered, Outcome
<1> QED
  BY <1>2, <1>3

LEMMA KeptSays ==
  /\ Kept \in [Stage -> Outcome]
  /\ Failures(Kept) = {"route"}
  /\ \A s \in {"route", "queue", "deliver"} : Kept[s] # "ran"
  /\ \A s, t \in Stage :
       Number[s] < Number[t] /\ Kept[s] \in {"failed", "pending"} =>
         Kept[t] # "ran"
<1>1. New \in [Stage -> Outcome]
  BY StageIs DEF New, Outcome
<1>2. \A s \in Stage :
        Kept[s] = CASE s = "route" -> "failed"
                    [] s \in {"queue", "deliver"} -> "pending"
                    [] s = "strip" -> "not applicable"
                    [] s \in {"pad", "seal"} -> "not yet implemented"
                    [] OTHER -> "ran"
  BY <1>1, StageIs DEF Kept, Compressed, Encrypted, FailedAtRouting, New
<1>3. Kept \in [Stage -> Outcome]
  BY <1>1, StageIs DEF Kept, Compressed, Encrypted, FailedAtRouting, Outcome
<1>4. Failures(Kept) = {"route"}
  BY <1>2, StageIs DEF Failures
<1>5. \A s \in {"route", "queue", "deliver"} : Kept[s] # "ran"
  BY <1>2, StageIs
<1>6. ASSUME NEW s \in Stage, NEW t \in Stage, Number[s] < Number[t],
             Kept[s] \in {"failed", "pending"}
      PROVE  Kept[t] # "ran"
  <2>1. s \in {"route", "queue", "deliver"}
    BY <1>2, <1>6
  <2>2. t \in {"route", "queue", "deliver"}
    BY <1>6, <2>1, StageIs DEF Number
  <2> QED
    BY <1>5, <2>2
<1> QED
  BY <1>3, <1>4, <1>5, <1>6

\* The two are told apart, from each other and from no manifest at all.
LEMMA ManifestsDiffer ==
  /\ Accepted # NoManifest /\ Kept # NoManifest /\ Accepted # Kept
  /\ Failures(Accepted) = {}
BY AcceptedSays, KeptSays, CustodyAssumption, StageIs DEF Failures

\* Every step of Custody is a step of Sender or of the clock.
LEMMA CustodyStepIsSenders ==
  CustodyNext => SenderNext \/ (Tick /\ UNCHANGED senderVars)
BY DEF CustodyNext, Submit, CustodyPosted, CustodyFailed, CustodyPersist,
   CustodyRestart, Silent, SenderNext, SenderStep

\* A generation the message in hand has not been encrypted with yet is in no
\* queued blob of it.
LEMMA NothingWaitsYet ==
  SenderInv /\ phase = "post" =>
    \A q \in outbox : ~(q.msg = current /\ q.gen = generation)
<1> SUFFICES ASSUME SenderInv, phase = "post", NEW q \in outbox,
                    q.msg = current
             PROVE  FALSE
  OBVIOUS
<1>1. q.msg \in Msg /\ q.gen \in Nat
  BY DEF SenderInv, AllTypeOK, SenderTypeOK, Queued
<1>2. Used(q.msg, q.gen)
  BY DEF Used
<1> QED
  BY <1>1, <1>2 DEF SenderInv, BindingInv

LEMMA ManifestStep ==
  SenderInv /\ ManifestInv /\ CustodyNext => ManifestInv'
<1> SUFFICES ASSUME SenderInv, ManifestInv, CustodyNext
             PROVE  ManifestInv'
  OBVIOUS
<1> USE ManifestsDiffer, SenderAssumption
        DEF SenderInv, AllTypeOK, SenderTypeOK, PhaseInv, ManifestInv, Text, history
<1>0. UNCHANGED wireVars => posted' = posted
  BY DEF wireVars
<1>1. ASSUME NEW m \in Text, Submit(m) PROVE ManifestInv'
  BY <1>1 DEF Submit, Send, Begin, Flushing
<1>2. CASE CustodyPosted
  <2>1. current \in Msg /\ generation \in Nat /\ phase = "post"
    BY <1>2 DEF CustodyPosted, SendPosted
  <2>2. \E e \in posted' : e.msg = current /\ e.gen = generation
    BY <1>2, <2>1, PostEffect DEF CustodyPosted, SendPosted
  <2>3. /\ current' = current /\ outbox' = outbox /\ phase' = "record"
        /\ generation' = generation + 1
    BY <1>2 DEF CustodyPosted, SendPosted
  <2>4. BlobGeneration' = generation
    BY <2>1, <2>3 DEF BlobGeneration
  <2>5. ~Waits'
    BY <2>1, <2>3, <2>4, NothingWaitsYet DEF Waits
  <2>6. manifest' = Accepted
    BY <1>2 DEF CustodyPosted, Accepted
  <2> QED
    BY <2>1, <2>2, <2>3, <2>4, <2>5, <2>6
<1>3. CASE CustodyFailed
  <2>1. phase' = "row" /\ manifest' = Kept
    BY <1>3 DEF CustodyFailed, SendFailed, Kept
  <2> QED
    BY <2>1
<1>4. CASE CustodyPersist \/ CustodyRestart
  BY <1>4 DEF CustodyPersist, CustodyRestart, Persist, SenderRestart
<1>5. ASSUME UNCHANGED manifest, Poll \/ FlushPosted \/ FlushFailed \/ Dequeue
      PROVE  ManifestInv'
  BY <1>5 DEF Poll, Begin, FlushPosted, FlushFailed, Dequeue, Flushing
<1>6. ASSUME UNCHANGED manifest, RecordRow
      PROVE  ManifestInv'
  BY <1>0, <1>6 DEF RecordRow, Waits, BlobGeneration
<1>7. ASSUME UNCHANGED manifest, Enqueue
      PROVE  ManifestInv'
  <2>1. PICK i \in LocalId : outbox' = outbox \cup
            {[id |-> i, msg |-> current, gen |-> BlobGeneration, at |-> clock]}
    BY <1>7 DEF Enqueue
  <2>2. /\ current' = current /\ generation' = generation /\ sentRows' = sentRows
        /\ phase = "enqueue" /\ phase' = "persist"
    BY <1>7 DEF Enqueue
  <2>3. manifest = Kept /\ current # NoMsg
    BY <2>2
  <2>4. PICK q \in outbox' :
          q = [id |-> i, msg |-> current, gen |-> BlobGeneration, at |-> clock]
    BY <2>1
  <2>5. q.gen = BlobGeneration' /\ q.msg = current /\ q.at = clock
    BY <2>2, <2>4 DEF BlobGeneration
  <2>6. HeldFor(current, q)'
    BY <2>2, <2>5 DEF HeldFor, TimeInv
  <2> QED
    BY <1>7, <2>2, <2>3, <2>5, <2>6
<1>8. ASSUME UNCHANGED manifest, PollCollect
      PROVE  ManifestInv'
  BY <1>8 DEF PollCollect
<1>9. ASSUME UNCHANGED manifest, Tick /\ UNCHANGED senderVars
      PROVE  ManifestInv'
  BY <1>9 DEF Tick, senderVars, Waits, BlobGeneration, HeldFor
<1>10. ASSUME UNCHANGED manifest, HelloPosted \/ HelloFailed
       PROVE  ManifestInv'
  BY <1>10 DEF HelloPosted, HelloFailed
<1> QED
  BY <1>1, <1>2, <1>3, <1>4, <1>5, <1>6, <1>7, <1>8, <1>9, <1>10
  DEF CustodyNext, Silent

\* When the call answers, the word it leaves on the screen is true.
LEMMA AnswerIsTrue ==
  ASSUME SenderInv, ManifestInv, phase = "persist", current \in Text
  PROVE  \/ /\ Answered(manifest) = "sent"
            /\ \E e \in posted : e.msg = current
         \/ /\ Answered(manifest) = "failed"
            /\ \E q \in outbox : HeldFor(current, q)
<1>1. CASE manifest = Accepted
  BY <1>1, ManifestsDiffer DEF ManifestInv, Answered
<1>2. CASE manifest = Kept
  BY <1>2, KeptSays DEF ManifestInv, Answered
<1> QED
  BY <1>1, <1>2 DEF ManifestInv

\* Retention takes a queued blob only with every row of its message.
LEMMA PurgeTakesBoth ==
  ASSUME SenderInv, Purge, NEW m \in Msg, NEW q \in outbox, HeldFor(m, q)
  PROVE  \/ \E p \in outbox' : HeldFor(m, p)'
         \/ \A r \in sentRows' : r.msg # m
<1>1. sentRows' \subseteq sentRows
  BY DEF Purge
<1>2. CASE q \in outbox'
  BY <1>1, <1>2 DEF HeldFor
<1>3. CASE q \notin outbox'
  <2>1. Outlived(q.at) /\ q.at \in Nat /\ clock \in Nat
    BY <1>3 DEF Purge, SenderInv, AllTypeOK, WireTypeOK, SenderTypeOK, Queued
  <2>2. ASSUME NEW r \in sentRows', r.msg = m PROVE FALSE
    <3>1. r \in sentRows /\ ~Outlived(r.at) /\ r.at \in Nat /\ r.at <= q.at
      BY <1>1, <2>2 DEF Purge, HeldFor, SenderInv, AllTypeOK, SenderTypeOK
    <3> QED
      BY <2>1, <3>1, OutlivedIsMonotone
  <2> QED
    BY <2>2
<1> QED
  BY <1>2, <1>3

LEMMA ShownStep ==
  SenderInv /\ ManifestInv /\ ShownInv /\ CustodyNext => ShownInv'
<1> SUFFICES ASSUME SenderInv, ManifestInv, ShownInv, CustodyNext
             PROVE  ShownInv'
  OBVIOUS
<1> USE SenderAssumption
        DEF SenderInv, AllTypeOK, SenderTypeOK, PhaseInv, ShownInv, Text, history
<1>0. UNCHANGED wireVars => posted' = posted
  BY DEF wireVars
<1>1. ASSUME NEW m \in Text, Submit(m) PROVE ShownInv'
  BY <1>0, <1>1 DEF Submit, Send, Begin, Flushing, HeldFor
<1>2. CASE CustodyPosted \/ CustodyFailed
  <2>1. current \in Msg /\ generation \in Nat
    BY <1>2 DEF CustodyPosted, CustodyFailed, SendPosted, SendFailed
  <2>2. posted \subseteq posted'
    BY <1>2, <2>1, PostEffect DEF CustodyPosted, CustodyFailed, SendPosted, SendFailed
  <2> QED
    BY <1>2, <2>2
    DEF CustodyPosted, CustodyFailed, SendPosted, SendFailed, HeldFor
<1>3. CASE CustodyPersist
  <2>1. phase = "persist" /\ phase' = "idle" /\ current' = NoMsg /\ posted' = posted
    BY <1>0, <1>3 DEF CustodyPersist, Persist
  <2>2. CASE current = NoMsg
    <3>1. shown' = shown /\ Purge
      BY <1>3, <2>2 DEF CustodyPersist, Persist
    <3>2. ASSUME NEW m \in Text, shown[m] = "failed"
          PROVE  \/ \E q \in outbox' : HeldFor(m, q)'
                 \/ \E e \in posted' : e.msg = m
                 \/ \A r \in sentRows' : r.msg # m
      <4>1. CASE \E q \in outbox : HeldFor(m, q)
        BY <3>1, <4>1, PurgeTakesBoth
      <4>2. CASE \E e \in posted : e.msg = m
        BY <2>1, <4>2
      <4>3. CASE \A r \in sentRows : r.msg # m
        BY <3>1, <4>3 DEF Purge
      <4> QED
        BY <3>2, <4>1, <4>2, <4>3
    <3> QED
      BY <2>1, <3>1, <3>2
  <2>3. CASE current \in Text
    <3>1. /\ shown' = [shown EXCEPT ![current] = Answered(manifest)]
          /\ UNCHANGED <<sentRows, outbox>>
      BY <1>3, <2>3 DEF CustodyPersist, Persist
    <3>2. current \in Msg
      BY <2>3
    <3>3. \A m, q : HeldFor(m, q)' <=> HeldFor(m, q)
      BY <3>1 DEF HeldFor
    <3>4. \/ /\ Answered(manifest) = "sent"
             /\ \E e \in posted : e.msg = current
          \/ /\ Answered(manifest) = "failed"
             /\ \E q \in outbox : HeldFor(current, q)
      BY <2>1, <2>3, AnswerIsTrue
    <3> QED
      BY <2>1, <3>1, <3>2, <3>3, <3>4
  <2>4. CASE current = Hello /\ current \notin Text /\ current # NoMsg
    BY <1>3, <2>1, <2>4 DEF CustodyPersist, Persist, HeldFor
  <2> QED
    BY <2>2, <2>3, <2>4
<1>4. CASE CustodyRestart
  BY <1>4 DEF CustodyRestart, SenderRestart
<1>5. ASSUME UNCHANGED shown, Poll
      PROVE  ShownInv'
  BY <1>0, <1>5 DEF Poll, Begin, Flushing, HeldFor
<1>6. ASSUME UNCHANGED shown, FlushPosted
      PROVE  ShownInv'
  <2>1. PICK q \in Oldest(toFlush) : PostAnswered(q.msg, q.gen)
    BY <1>6 DEF FlushPosted
  <2>2. q.msg \in Msg /\ q.gen \in Nat
    BY <2>1, OldestIsThere DEF Queued
  <2>3. posted \subseteq posted' /\ \E e \in posted' : e.msg = q.msg
    BY <2>1, <2>2, PostEffect
  <2>4. \A r \in Oldest(toFlush) : r = q
    BY <1>6, <2>1, OldestIsUnique DEF FlushPosted
  <2>5. Oldest(toFlush)' = Oldest(toFlush)
    BY <1>6 DEF FlushPosted, Oldest
  <2>6. UNCHANGED <<outbox, sentRows, current>>
    BY <1>6 DEF FlushPosted
  <2>7. \A m, p : HeldFor(m, p)' <=> HeldFor(m, p)
    BY <2>6 DEF HeldFor
  <2> QED
    BY <1>6, <2>3, <2>4, <2>5, <2>6, <2>7
<1>7. ASSUME UNCHANGED shown, FlushFailed
      PROVE  ShownInv'
  <2>1. PICK q \in Oldest(toFlush) : PostFailed(q.msg, q.gen)
    BY <1>7 DEF FlushFailed
  <2>2. q.msg \in Msg /\ q.gen \in Nat
    BY <2>1, OldestIsThere DEF Queued
  <2>3. posted \subseteq posted'
    BY <2>1, <2>2, PostEffect
  <2> QED
    BY <1>7, <2>3 DEF FlushFailed, Flushing, HeldFor
<1>8. ASSUME UNCHANGED shown, Dequeue
      PROVE  ShownInv'
  <2>1. PICK q \in Oldest(toFlush) : outbox' = {r \in outbox : r.id # q.id}
    BY <1>8 DEF Dequeue
  <2>2. q \in outbox
    BY <1>8, <2>1, OldestIsThere DEF Dequeue
  <2>3. \A r \in outbox \ outbox' : r = q
    BY <2>1, <2>2
  <2>4. \E e \in posted : e.msg = q.msg
    BY <1>8, <2>1 DEF Dequeue
  <2>5. UNCHANGED <<sentRows, current, posted>> /\ phase' # "dequeue"
    BY <1>0, <1>8 DEF Dequeue, Flushing
  <2>6. \A m, p : HeldFor(m, p)' <=> HeldFor(m, p)
    BY <2>5 DEF HeldFor
  <2>7. \A m, p : HeldFor(m, p) => p.msg = m
    BY DEF HeldFor
  <2> QED
    BY <1>8, <2>3, <2>4, <2>5, <2>6, <2>7
<1>9. ASSUME UNCHANGED shown, RecordRow
      PROVE  ShownInv'
  <2>1. sentRows' = sentRows \cup {[msg |-> current, at |-> clock]}
    BY <1>9 DEF RecordRow
  <2>2. \A r \in sentRows' : r \in sentRows \/ r.msg = current
    BY <2>1
  <2>3. \A m \in Msg : \A p : m # current /\ HeldFor(m, p) => HeldFor(m, p)'
    BY <2>2 DEF HeldFor
  <2>4. UNCHANGED <<outbox, current, posted>> /\ phase' # "dequeue" /\ current \in Msg
    BY <1>0, <1>9 DEF RecordRow
  <2> QED
    BY <1>9, <2>2, <2>3, <2>4
<1>10. ASSUME UNCHANGED shown, Enqueue \/ PollCollect
       PROVE  ShownInv'
  <2>1. outbox \subseteq outbox' /\ UNCHANGED <<sentRows, current, posted>>
    BY <1>0, <1>10 DEF Enqueue, PollCollect
  <2>2. phase' # "dequeue"
    BY <1>10 DEF Enqueue, PollCollect
  <2> QED
    BY <1>10, <2>1, <2>2 DEF HeldFor
<1>11. ASSUME UNCHANGED shown, Tick /\ UNCHANGED senderVars
       PROVE  ShownInv'
  BY <1>11 DEF Tick, senderVars, HeldFor, Oldest
<1>12. ASSUME UNCHANGED shown, HelloPosted \/ HelloFailed
       PROVE  ShownInv'
  <2>1. Hello \in Msg
    BY <1>12 DEF HelloPosted, HelloFailed
  <2>2. posted \subseteq posted'
    BY <1>12, <2>1, PostEffect DEF HelloPosted, HelloFailed
  <2> QED
    BY <1>12, <2>2 DEF HelloPosted, HelloFailed, HeldFor
<1> QED
  BY <1>1, <1>2, <1>3, <1>4, <1>5, <1>6, <1>7, <1>8, <1>9, <1>10, <1>11, <1>12
  DEF CustodyNext, Silent

LEMMA CustodyInvInit == CustodyInit => CustodyInv
<1> SUFFICES ASSUME CustodyInit PROVE CustodyInv
  OBVIOUS
<1>1. SenderInv /\ SenderInit
  BY SenderInvInit DEF CustodyInit, AloneInit
<1>2. ManifestInv
  BY <1>1, ManifestsDiffer DEF CustodyInit, SenderInit, ManifestInv
<1>3. ShownInv
  BY <1>1, SenderAssumption DEF CustodyInit, SenderInit, ShownInv, Text
<1> QED
  BY <1>1, <1>2, <1>3 DEF CustodyInv

LEMMA CustodyInvariance == CustodySpec => []CustodyInv
<1>1. CustodyInv /\ [CustodyNext]_custodyVars => CustodyInv'
  <2> SUFFICES ASSUME CustodyInv, [CustodyNext]_custodyVars PROVE CustodyInv'
    OBVIOUS
  <2>1. CASE CustodyNext
    <3>1. SenderInv'
      <4>1. CASE SenderNext
        BY <4>1, SenderInvStep DEF CustodyInv
      <4>2. CASE Tick /\ UNCHANGED senderVars
        <5>1. Elsewhere /\ WireTypeOK'
          BY <4>2 DEF Tick, Elsewhere, CustodyInv, SenderInv, AllTypeOK, WireTypeOK
        <5> QED
          BY <4>2, <5>1, SenderInvElsewhere DEF CustodyInv
      <4> QED
        BY <2>1, <4>1, <4>2, CustodyStepIsSenders
    <3> QED
      BY <2>1, <3>1, ManifestStep, ShownStep DEF CustodyInv
  <2>2. CASE UNCHANGED custodyVars
    <3>1. UNCHANGED <<sVars, manifest, shown>>
      BY <2>2 DEF custodyVars
    <3>2. Elsewhere /\ WireTypeOK'
      BY <3>1 DEF sVars, wireVars, Elsewhere, CustodyInv, SenderInv, AllTypeOK, WireTypeOK
    <3>3. SenderInv'
      BY <3>2, SenderInvElsewhere DEF CustodyInv
    <3>4. ManifestInv'
      BY <3>1 DEF CustodyInv, ManifestInv, sVars, wireVars, senderVars, history, HeldFor,
         Waits, BlobGeneration
    <3>5. ShownInv'
      BY <3>1 DEF CustodyInv, ShownInv, sVars, wireVars, senderVars, history, HeldFor, Oldest
    <3> QED
      BY <3>3, <3>4, <3>5 DEF CustodyInv
  <2> QED
    BY <2>1, <2>2
<1> QED
  BY <1>1, CustodyInvInit, PTL DEF CustodySpec

\* What is told of a message gets in the way of nothing: hidden, the manifest
\* and the screen leave a behaviour of the sender, so that every theorem about
\* SenderSpec holds with them.
THEOREM CustodyIsTheSender == CustodySpec => SenderSpec
<1>1. CustodyInit => AloneInit
  BY DEF CustodyInit
<1>2. [CustodyNext]_custodyVars => [SenderNext \/ (Tick /\ UNCHANGED senderVars)]_sVars
  BY CustodyStepIsSenders DEF custodyVars
<1> QED
  BY <1>1, <1>2, PTL DEF CustodySpec, SenderSpec

\* The manifest has one of the two forms send_message can leave it in, and the
\* screen one word per message.
THEOREM CustodyTypeCorrect == CustodySpec => []CustodyTypeOK
<1>1. CustodyInv => CustodyTypeOK
  BY AcceptedSays, KeptSays
  DEF CustodyInv, SenderInv, AllTypeOK, ManifestInv, ShownInv, CustodyTypeOK
<1> QED
  BY <1>1, CustodyInvariance, PTL

\* The manifest never claims more than the relay said: whatever fails, is lost
\* or is retried, a stage that is said to have run did.
THEOREM ManifestStaysHonest == CustodySpec => []ManifestIsHonest
<1>1. ASSUME CustodyInv, manifest # NoManifest
      PROVE  /\ \A s \in {"route", "queue", "deliver"} :
                  manifest[s] = "ran" =>
                    \E e \in posted : e.msg = current /\ e.gen = BlobGeneration
             /\ \A s, t \in Stage :
                  Number[s] < Number[t] /\ manifest[s] \in {"failed", "pending"} =>
                    manifest[t] # "ran"
             /\ phase \in {"row", "enqueue"} \/ Waits => Failures(manifest) = {"route"}
  <2>1. CASE manifest = Accepted
    BY <1>1, <2>1, AcceptedSays, ManifestsDiffer DEF CustodyInv, ManifestInv
  <2>2. CASE manifest = Kept
    BY <2>2, KeptSays
  <2> QED
    BY <1>1, <2>1, <2>2 DEF CustodyInv, ManifestInv
<1>2. CustodyInv => ManifestIsHonest
  BY <1>1 DEF ManifestIsHonest
<1> QED
  BY <1>2, CustodyInvariance, PTL

\* What the conversation screen says of a message stays true after the call
\* that put it there, through every later call, retry, purge and crash.
THEOREM ScreenStaysTrue == CustodySpec => []ScreenIsTrue
<1>1. \A m, q : HeldFor(m, q) => q.msg = m
  BY DEF HeldFor
<1>2. CustodyInv => ScreenIsTrue
  BY <1>1 DEF CustodyInv, ShownInv, ScreenIsTrue
<1> QED
  BY <1>2, CustodyInvariance, PTL

=============================================================================
